# MPMPESCoreCpp in TLA+

MPMPESCoreCpp is a server for Minecraft: Pocket Edition 0.14 in C++: its own RakNet over
UDP, players, several worlds, containers, items, redstone, entities and plugins. This
directory holds a TLA+ model of it: modules translated from the code, TLC configurations
that check them on small instances, and theorems that TLAPS checks for every value of the
constants. `PROJECT.json` lists the runs, the properties with a variant of the code that
breaks each, and for every definition the source lines it stands for.

Paths below leave out the common prefix: `Session.cpp` is `src/src/raklib/Session.cpp`,
`Server.cpp` is `src/src/server/Server.cpp`, and so on.

## 1. The system

```
 clients --UDP--> SessionManager --> Session (per address)           network thread
                        |  open / packet / close callbacks
                        v
   Server (handlers) -- PlayerManager (Player per address)           under game_mutex_
      |      |     \
      |      |      +-- PluginManager (events, commands, host calls)
      |      +-- EntityManager (drops, carts, mobs, TNT)             game thread (tick)
      +-- LevelManager / Level (chunks, chests, furnaces, hoppers, signs; files)
 stdin --> console thread --> console_queue_ --> tick                console thread
```

Everything that touches the game holds `game_mutex_`: the network thread for one
`SessionManager::tick()`, the main thread for one game tick. A packet handler therefore is
one step of a model, and the hard part is not instructions that interleave but tables that
must agree, peers that act on what they were last told, and steps left out on one of the
many ways through the handlers.

| Component | State it keeps | Operations | What makes it correct |
|---|---|---|---|
| RakNet reliability (`Session.cpp`, `AcknowledgePacket.cpp`) | send and recovery queues, datagram window, reliable window, ACK and NACK queues | submit, flush, update (resend), handle datagram, ACK, NACK | in order and once; nothing given up before it arrived; everything arrives in the end |
| Split packets (`Session.cpp` 147-171, 429-455) | `splits_` | split, reassemble | whole messages, never mixed; bounded memory |
| Session life (`Session.cpp`, `SessionManager.cpp`) | state, `closed_`, `last_update_`; `sessions_` | handshake packets, disconnect, timeout, tick | only forward; closed once; silent sessions go |
| Players (`Player.cpp`, `Server.cpp` 1962-2055) | `players_`, names, player lists at the clients | login, remove, kick, ban | a player for every connected session and no other; lists are right; the banned are out |
| Threads (`Server.cpp` 4167-4388, `main.cpp`) | `running_`, `game_mutex_`, thread handles | tick loops, stop, signal, console | the shutdown ends and saves what changed |
| Chests (`Server.cpp`, `Level.cpp` 151-299) | `chests_`, pairs, windows, what clients show | place, break, open, close, write a slot, hoppers | one inventory per chest; who alone looks at a chest is shown what is there; nothing but a client's write makes or loses an item |
| Hoppers, furnaces, minecarts with a chest | slots, cooldowns | transfer, windows | a transfer moves one item and shows it to who is looking |
| Inventories (`Server.cpp` 3358-3717) | slots, pending transactions, hotbar links | slot transactions, crafting, pickup, throw | a survival player gets nothing for nothing |
| Entities and riding (`Entity.hpp`, `Server.cpp` 1536-1700, 2800-2900) | entities, who rides what, which client knows which | place, mount, dismount, break, fall, tick | both ends of a ride agree; nobody rides in another world; clients drop what is gone |
| Damage, death, portals, worlds, visibility (`Server.cpp`) | health, `death_ticks_`, level, `known_players`, `known_entities` | die, respawn, change world, join, leave | clients show who is there, as he is, and nobody else |
| Rails (`Rails.hpp`) | the shapes of the rails | lay, break | no track comes apart because of what is done beside it |
| Redstone (`Redstone.hpp`, `Server.cpp` 60-330) | powers, `redstone_schedules_` | recompute a box, flip repeaters when due | the powers are a fixed point without a circle that feeds itself; no repeater is left behind |
| Levels and chunks (`Level.cpp`, `Chunk.cpp`) | chunks, dirty flags, tables of tiles, files | generate, change, save, load | what changed is saved; blocks and tiles agree after a crash |
| Player files (`Player.cpp` 124-248) | one file each | save, load | what was saved is loaded; nothing is there twice |
| Plugins (`PluginManager.cpp`) | processes, pipes, the flags of the last answers | enable, fire an event and wait, disable | an event gets its own answer; only a process that does not read holds the server up |
| Commands and permissions | ops, bans by name, address, client id | some 40 commands | who may what |
| Socket, binary streams, packet layouts, configuration, logging | - | I/O, encoding | not modelled |

Behaviours that are hard to test, in short (`PROJECT.json` has the list by source line):
datagrams that are lost, repeated, overtaken and acknowledged late; windows that outrun
each other; numbers of three bytes; a session closed several ways in one tick and still
handling packets; the same name twice; a signal handler that takes a mutex; two windows
on one chest, hoppers under a window, moves that come as two packets of which one waits,
pairs of chests of which one goes; inventories left
behind where a block was changed by something that does not know of them; clients that
were never told; flips of repeaters that were due before the repeater was replaced; files
written in place, one after the other; answers of a plugin that come after their time.

## 2. Modules

| Module | Of the code | |
|---|---|---|
| `ReliableChannel` | what a connected session promises | abstract specification |
| `RakReliability`, `AckRanges` | the sending half of one session, the network, the receiving half of the other | implements `ReliableChannel` |
| `SplitReassembly` | messages in parts, above the channel or without it | |
| `SessionLifecycle` | session table, handshake, closing; player table, login, kick and ban, player lists | |
| `ServerThreads` | main, network and console thread, signal handler, shutdown | |
| `Containers` | chests: blocks, inventories, pairs, windows, clients' writes under way, hoppers | |
| `Inventory` | a survival player's slots, his client's, and what crosses between them | |
| `Presence` | worlds, visibility, death, riding; entities as minecarts | |
| `Rails` | linking and unlinking rails | |
| `Redstone` | wires, levers, lamps, repeaters, comparators, the schedule | |
| `Persistence` | players, chunks and tiles, in memory and in files | |
| `PluginBridge` | the server, a plugin that is a process, and two pipes | |
| `MCRakReliability`, `MCPresence`, `MCPersistence`, `MCContainers` | symmetry, for TLC | |
| `MCServerThreads`, `MCRails`, `MCRedstone` | instances of the modules they are named for, under names of their own: for TLC, and for a module of proofs about two components or three | |
| `RakReliabilityProofs`, `SplitReassemblyProofs`, `SessionLifecycleProofs` (also `ServerThreads`), `ContainersProofs` (also `Rails` and `Redstone`), `InventoryProofs`, `PresenceProofs`, `PersistenceProofs`, `PluginBridgeProofs` | | theorems |

`RakReliability` is what the other modules stand on: between one client and the server,
packets arrive in order and once (`ReliableChannel`), so `Presence`, `Containers` and
`Inventory` have queues or views in the place of a network. `SessionLifecycle` says when a
player exists, which those modules call joining and leaving. A handler that touches the
tables of several modules is an action of each of them, on its own part of the state.

### RakReliability

One direction: the sending half of a session (`message_index_`, `send_seq_`, `send_queue_`,
`packet_to_send_`, `recovery_queue_`), the UDP network as sets of datagrams and
acknowledgements, and the receiving half (`last_seq_`, `window_start_`, `window_end_`,
`received_window_`, `ack_queue_`, `nack_queue_`, the reliable window). Variables have the
names of the fields. `AddEncapsulated` is a submission, at once or queued; `SenderUpdate`
and `ReceiverUpdate` are `update()` of the two ends; `HandleAck`, `HandleNack`,
`HandleDatagram` the handlers; `HandleEncapsulated` takes one packet of the current
datagram (the rest waits in `inbox`, and nothing else runs at the receiver meanwhile).
A packet that stays in the network may be late; it may be taken out unread (lost) or read
and kept (repeated), both counted by `faults`. Numbers are compared as the code does,
after three bytes on the wire (`LTriad`). `AckRanges` is what `encode()` and `decode()`
make of a set of numbers: runs, each cut after 513 numbers, the packet after 4096.

`sent`, `delivered` and `overran` are history. `overran` notes that the sender submitted a
message beyond the receiver's reliable window: nothing in the code holds it back, and then
a datagram is acknowledged and its packet dropped. `NoMessageStranded` is about sessions
that were not overrun; `InOrderOnce` also about overrun ones while indices are unique.

### SplitReassembly

`wire` holds the parts under way, behind the reliable channel in order (`ArriveInOrder`)
or, for unreliable messages, in any order, repeated and lost (`ArriveAnyhow`). `splits` is
`splits_` with what the code does to it: an entry is made before the count is looked at, so
a refused message leaves an empty entry (`NoRoom`, `WithEntry`).

### SessionLifecycle

`sessions` and `players` are the two tables. The network thread's tick is `BeginTick`, any
number of packets, `EndTick` (timeouts, then closed sessions are erased); a console command
comes between ticks, a player's command within one. `Disconnect` is every way to close: it
sets `closed_`, calls the close callback once, and that removes the player and tells the
other clients. A session that is closed goes on handling packets until `EndTick`, as in
the code: players made or kept by that are `ghosts`. `tab` is the list of names each
client was sent; `irregular` notes that two players had one name. Left out: what the
handshake packets contain, the position and inventory a player logs in with, chat.

### ServerThreads

Every thread has a place: `check`, `lock`, `tick`, ... A section under `game_mutex_` takes
two steps, so others can come to the mutex while it is held. The signal handler is a
second place of the main thread: while it is active the code it interrupted stands still.
A signal to another thread is not modelled (Linux delivers it to the main thread when that
does not block it). `dirty` says the game changed since everything was saved.

### Containers

Positions are a row of blocks; a chest that faces across the row pairs along it. A chest
has one slot instead of 27, and a player one instead of his inventory; an item does not
stack. Each player may have one window, on one chest or on both halves of a double one.

What a client shows and what the server keeps are apart: `shows` and `holds` are the
client's, of the chest and of its player's slot, `chests` and `hand` the server's. A client is
honest: `Move` swaps what it shows at the two places and sends two writes, as the game does,
one to a slot of the window and one to the player's own. They are under way in `up`, in
order, for as long as they like, while the server goes on. `HandleSetSlot` takes one of
them: a write to the chest is done at once (`WriteChest`), believed, and not told to others;
one to the player's own slot waits in `pending_txs` for writes that make up for it
(`WriteOwn`). Writes to a chest are not among those, so `hand` does not change, and the client
is sent its inventory when it closes the window (`HandleClose`), picks something up, or
when the waiting write has become too old. What the server sends is taken in at once: only its
order with what the client sends can be told.

A hopper next to the chests moves items into and out of them and shows the result to who has a
window on them (`Resynced`); it also takes in what was dropped, and what nobody takes despawns.
When a window is closed or replaced, the writes to it that are under way are ignored (`Voided`).

History: `untidy` notes that a block changed and its inventory did not (explosions, plugins, a
write through a window to a chest that is gone). Of a window, `shared` notes that another
one was open on one of its chests, `cut` that one of its chests was broken, and `crossed`
that it was last shown anew while a write to it was under way: the client shows the old
contents then and the server keeps the write, until it is shown anew again.

### Inventory

One survival player. `inventory` are the slots the server keeps, `shows` the ones his
client shows; `up` and `down` are what is under way between them, in order (both go over
the reliable channel). The client changes what it shows at once (`MoveItems`, `SwapSlots`,
`ThrowFrom`, `PlaceFrom`) and tells; `Handle` is one packet at the server. `HandleSlot` is
`handleContainerSetSlot()`: a write joins `pending`, which is executed when every slot
still holds what it held (`Matches`) and the writes balance. `PickUp` and `Dig` happen
meanwhile. Every change the server makes is followed by the whole inventory
(`SendInventory`); `crossed` is history: it is set when such an inventory and something
of the client cross, or when a placement is refused without a word, and cleared by the
next inventory that crosses nothing. Until then what the client shows may be wrong, and
placing and crafting, which believe it, may be free. What lies about despawns after a while
(`Despawn`).

### Presence

A place is a world and a spot in it: who is in one spot is in range. `player` has the fields of
`Player` that matter (level, life, what he rides), `cart` the entities, `shown` what each client
draws of the other players, which is a function of what was sent to it, and `known` is
`known_entities`. Views are brought up to date only by events of the one who moves, dies or
leaves (`syncPlayersToPlayer()` and the removals, and `SyncTick` for entities), as in the code:
who stands still sees new arrivals when they move. `limbo` is a player without health who is not
dying: he left while dead and was loaded again. `lost` is an entity that was closed inside
`EntityManager::tick()` and erased there, so that the loop that announces closed entities
(`Server.cpp` 1600) does not find it. `Stranger` is the id of a player who left, which carts
keep. That ids of players and entities meet after 999 logins, and a second login within one
session, are left out.

### Rails

A cell is a column with ground up to some height, so a neighbour is level, one up or one down.
`Place` is `placeRailAuto()` with the turning of the neighbours, `Break` ends in
`updateRailsAround()`; both go through the directions in the code's order (`Around`, and
`FirstTwo` of those a rail could join), which matters at crossings. `shown` is what the players
were told.

### Redstone

A line of cells instead of space: what comes from above, below and the two other sides comes
from the two neighbours. `Recomputed` is the recomputation of a box around a change: `Strength`
fills the wires anew from their sources, lamps and comparators follow (`Scan`). Detector rails,
which a cart switches on and nothing switches off, and what a comparator makes of the fill of a
chest are left out. `Enqueue` keeps one flip per cell and target, `Enqueued` does so for all
that `Asks` for one. `pending` is `redstone_schedules_`; `Tick` carries out what is due
(`Flipped`) and keeps the rest (`Waiting`). `stale` is history: it notes what the code does not
follow up: an explosion or a plugin that sets a block, a restart, which forgets the schedule, a
box that ends before the line does, and a comparator, which feeds the wires by what its input
was before. A lamp stands for whatever is switched.

### Persistence

A position is a chunk and one block in it. Memory is `chunk`, `dirty`, `tile`, `inventory`;
`disk` the files. `ToWrite` are the files of a save and `Rank` their order: players, then per
world chunks, chests, (furnaces,) hoppers, signs. `Crash` may hit any save at any file: those
before are new, those after old, and the file it hits is cut: a torn chunk cannot be read, is
generated again and overwritten; a torn table keeps the records before the cut and gives a last
one that may be at a wrong place (`CutTables`); a torn player file gives a part of the inventory
or a new player. A chunk may also fail to be written and stays dirty then; failing writes of
tables and players, which the code does not notice, are left out.

`Store` and `Take` are a client's write to a slot of a container. It changes the tile and
nothing else: the write to the player's own slot is a packet of its own, which waits (see
`Containers`). So an item that is stored is in the container and with the player, and one that
is taken is nowhere; since what a client shows may be out of date, it can write any item. Such
an item is `spoilt`, and so are those that had moved since the last save when the server crashed
(`unsettled`), and those in the file the crash cut off. `lost` are items that despawned, and
those that lay about or were in a minecart when the server went down, since entities are not
saved. A plugin that sets a hopper, and two players whose names become one file name, are left
out.

### PluginBridge

The server's side is `ProcessPlugin`: it writes a line, blocking, and for `chat`, `command`
and `sign_change` looks for the answer for 80 ms (`MaxPolls` looks); the process reads and
writes, slowly or never, and may die at any time. `replies` are the flags `last_chat_cancel_`
and so on: answers carry no number, and a late one is read when the next event is waited for.
`Drained` is `handleLine()` for all lines that are in the pipe at once: every line only sets
what it is about, so a flag is set when some line sets it, and the text is that of the last
line that has one (`Said`).
`events`, `given`, `taken` are history. One plugin; its commands, tasks and host calls and
native plugins, which run inside the server, are left out.

## 3. Runs

Every run holds. TLC's counts are of distinct states.

| Run | Question |
|---|---|
| `reliability` | Are messages routed in order and once, is nothing given up before it arrived, can a session that was outrun come back, and does all this implement `ReliableChannel`? |
| `reliability_fair` | Is everything delivered and acknowledged in the end? |
| `split` | Do reliable messages come out whole and in order, are long ones lost and nothing else, and what becomes of a session whose table of parts is full? |
| `lifecycle` | Do the session and player tables agree, is a session closed once however it is closed, are the banned out, and do the silent go? (337 042 states) |
| `threads` | Is everything saved when the process ends, is the network thread through first, and does a shutdown end? |
| `containers` | Are inventories where chests are, and do pairs match; does who alone looks at a chest see what is there once his own writes have come; and is a client's write to a chest the only step that makes or loses an item? (822 121 states) |
| `inventory` | Do client and server come to agree, and is anything made or lost but by placing and crafting on a stale view, and by despawning? (1 266 540 states) |
| `presence` | Does everybody show who is there and as he is, do both ends of a ride agree, and does no client keep the entities of a world it left? (734 206 states) |
| `rails` | Do tracks keep their links when rails are laid and broken beside them, and are the players told of every rail that turned? |
| `redstone` | Is the current on a line within the box what its sources give, after any history, and does every repeater follow its input? (537 188 states) |
| `persistence` | Do items that were saved, and that no client wrote, survive every crash, once; is every edit saved in the end; do hoppers keep their tiles? (342 858 states) |
| `plugins` | Does every event get its own answer, how far does a late one reach, and does the server go on unless the process lives and does not read? (210 702 states) |

Deadlock is checked in `SessionLifecycle` and `Rails`. It is not in the others, where the model
may stop: the bounds on messages, datagrams, parts, events and changes are reached, a process
has ended, or no chest is left that could change.

### Bounds, and why they are enough

* `RakReliability`: 3 messages of 2 payloads, 3 datagrams, two losses or repetitions (lateness
  is free), 2 packets to a datagram, windows of 1, one resend a pass, runs of two numbers and
  two numbers in all to an acknowledgement. Every limit of the code is exceeded within the run:
  the datagram window when the first two datagrams are lost, the drain by two overdue datagrams,
  the reliable window by the third message, `decode()` by a run of three. A message overtakes
  another, waits, is released with a run, arrives under two numbers. Datagrams have three
  numbers, so the last one is used up; that an index may come around without harm to the order
  is proved (`OrderKept`). The `fair` run has room for every resend (a resend takes a new
  number, so MaxDatagrams has to cover all of them) and wide windows, since with a window of one
  a sender can be outrun for good (`OutrunIsForGood`).
* `SplitReassembly`: four messages of two or three parts, where three are too many; three
  identifiers, so the fourth message reuses one; room for one message in parts, exceeded by the
  second. A session sends all its messages with an index or all without.
* `SessionLifecycle`: two clients, one name; one unit of time until the timeout. Two clients are
  enough for lists that differ, one name for both, a kick by one of the other. Three clients
  differ from two only in that two of them see the third.
* `ServerThreads`: no bound; the model is finite.
* `Inventory`: three slots, one of them armor, stacks of two, three items of two types to begin
  with, three acts of the client. Three acts are two moves that cross a pickup of something
  thrown before; three writes that never balance exceed `MaxPending`, and a stack splits, joins,
  overflows and leaves a rest. The acts are bounded and nothing else is: what the client does on
  a stale view piles up in `pending` otherwise.
* `Containers`: two players and one item at two chests, perhaps a double one, that face either
  of two ways, and two moves: a window that is shared, one whose other half is broken, one with
  two writes under way when the hopper changes the chest. A third chest, so that one is between
  two, is in the row while one player plays and makes one move (`SmallEnough` of `MCContainers`,
  a constraint of the run); both together take too long. One item is enough, as it can be in two
  places after a write; more items, players and chests are covered by the theorems.
* `Presence`: two players, two carts, two worlds of two spots. Two carts are what it takes to
  change from one to another; a third player sees two of whom each is seen by one. Nothing else
  is bounded: all histories are covered.
* `Rails`: seven cells, a cross and two of its corners, so a rail has up to four neighbours and
  tracks can turn; level ground, and ground with a step. Nothing else is bounded.
* `Redstone`: four cells, so a repeater has an input and an output with something beyond each; a
  current of two fades on the line; the box after a repeater was set is smaller than the one
  after other changes; a delay of two ticks, so a flip can be overtaken by a change; eight
  changes, enough to build the whole line, switch it, and replace a part while a flip is due.
* `Persistence`: two positions and one player, so an item can be saved in one file and not in
  the other, which may be his or a table; three steps of play, enough to bring an item from the
  ground through a hand to the ground again and into a hopper, or through a hopper into a chest,
  with a save and a crash between any two. A second player would be one more file of the same
  kind; the theorem is about any number. Saves, crashes, restarts and joins are not bounded.
* `PluginBridge`: three events, so a late answer meets an event of its kind and one beyond; two
  looks before the last; pipes of one line, so both can be full.

### Fairness

* `RakReliability!FairSpec`: both ends go on calling `update()` and read what arrives
  (`SessionManager::tick()` does both for every session, every pass), and a packet that was not
  lost arrives. Losses are finitely many because `MaxFaults` bounds them; a network that loses
  everything delivers nothing.
* `SessionLifecycle!FairSpec`: the network thread goes on ticking, and time passes.
* `ServerThreads!FairSpec`: a thread that can take a step does. Nothing is assumed of who gets
  the mutex when both want it. This is why `ShutdownEnds` is about a shutdown that was requested
  (and excepts a signal handler that is stuck, row 1 of section 4): that the main thread ever
  gets the mutex to read the stop command, while the network thread unlocks and locks without a
  pause, is not something `std::mutex` promises.
* `PluginBridge!FairSpec`: the server's thread is scheduled and its waits end (they are waits
  for a time, not for the process). Nothing is assumed of the process: it may read or not,
  answer or not, and die. This is why `ServerGoesOn` excepts a server that waits for ever in
  `write()` for a process that lives and does not read (`Blocked`): whether such a process ever
  reads is not in the hands of the code.
* `Presence`, `Rails`, `Redstone`, `Persistence`, `Containers`, `Inventory` state no fairness.
  For redstone there is nothing to promise: two repeaters that face each other go on for ever.

## 4. What the models show that the code's comments do not say

The modules state these as well, with the comment or document they are taken from. They do not
hold of the code, so no run has them; TLC finds the counterexample when the definition is put
in place of the properties of the run's cfg.

| | Definition | Stated in | What the code does |
|---|---|---|---|
| 1 | `ServerThreads!StopCompletes` | `Server.cpp` 4333 | `onSignal()` calls `stop()` in the signal handler, which joins the network thread and locks `game_mutex_`. When the signal hits the main thread in its tick, that thread holds the mutex: `stop()` never returns. |
| 2 | `ServerThreads!ConsoleLetGo` | `Server.cpp` 4328 | After the stop command nobody joins or detaches the console thread: `stop()` returns at its first line, and the destructor of a joinable `std::thread` terminates the process. Everything has been saved by then (`NothingUnsaved`). |
| 3 | `Containers!BrokenIsClosed` | `Server.cpp` 225 | `breakBlock()` closes the windows whose left half is broken; who views a double chest goes on viewing it when the right half is. |
| 4 | `SessionLifecycle!KickCleansUp` | `Server.cpp` 1974 | `kickPlayer()` relies on the close callback, which is not called for a session that is closed already; a packet handled after the close in the same tick can make a player that is kicked and stays. |
| 5 | `Presence!PositionIsOwned` | `Server.cpp` 2800 | A rider keeps `riding_eid` when he changes the world, and when his cart is removed by the tick; his own movement is ignored from then on until he dismounts. |
| 6 | `Redstone!DelayIsPreserved` | `Server.cpp` 136 | A flip writes back the meta that was there when it was scheduled: a repeater that was set to another delay meanwhile, or replaced by one that faces the other way, is turned back. |
| 7 | `Rails!SpecialKeepsAxis` | `Rails.hpp` 103 | `railCanAccept()` refuses to turn a powered rail off its axis, but its callers turn it all the same (193, 246). |
| 8 | `PluginBridge!NeverStalls` | `PluginManager.cpp` 574 | `write()` (600) blocks, under `game_mutex_`, once the pipe to a process that lives and does not read is full: for ever, if it never reads, for instance because it waits for the server to read what it writes. |
| 9 | `PluginBridge!DeathIsSurvived` | `docs/PLUGINS.md` 159 | Nothing ignores SIGPIPE: a line for a process that died kills the server. |
| 10 | `Containers!MovesAreDone` | `Server.cpp` 3657 | A move between a chest and the inventory comes as two writes. The one to the chest is done at once (3561-3588); the one to the player's own slot waits in `pending_txs` (3603-3642) for writes that balance it, and those to a chest are never among them (3466-3491). In survival an item that is stored is in the chest and still with the player, and one that is taken out is gone. |

Other things the modules state that a reader may not expect, and that hold: a datagram that is
overtaken is refused without an acknowledgement (`OvertakenIsRefused`); a session that loses a
whole window of datagrams in a row is deaf from then on (`OutrunIsForGood`); after 2^24
datagrams or messages it is deaf as well (`NumbersRunOut`); more abandoned split messages than
`kMaxSplitCount` end all reassembly (`CloggedForGood`). And some that the models had to take in
to be true to the code: entities that fall out of the world are never removed at the clients
(`lost`); a hopper's change that crosses a client's write leaves the client with the old
contents although nobody else looks at the chest (`crossed`); an explosion recomputes no
redstone and closes no window (`stale`, `untidy`); comparators are one recomputation behind; the
items of minecarts and those on the ground do not outlive a restart, and what a destroyed chest
held is inherited by the next chest in its place (`lost`, `tile`); a late answer of a plugin
strikes the next event of its kind (`late`); at a crossing, a rail that lost one neighbour may
give up the other (`Breaking`).

## 5. Proofs

The theorems hold for every value of the constants under the assumptions their modules
state, named `...Assumption` (numbers are numbers, the window is smaller than the range of the
numbers, the name before login is no name, what goes into a recipe is not what comes out,
cells are pairs of coordinates), and where said under a further one. Every safety property a
run checks is a theorem, state invariant or action property.

`RakReliabilityProofs`:

* `TypeCorrect`, `WindowsStayInStep`, `NothingStaleEverWaits` by the invariant `WindowInv`
  (types, finiteness of what waits, both windows in step, nothing stale waits): none of
  these is inductive alone, since where the drain ends depends on what waits.
* `OrderKept`: `InOrderOnce`, by `OrderInv`. It adds that every packet at the sender is a
  submitted message with its index, every packet on the wire and in the receiver is the
  echo of one (its index modulo the three bytes), and that no index under way is ahead of
  the receiver by more than the unambiguous range.
* `ChannelImplemented`: `Spec => Channel!Spec`, when there are no more messages than numbers.
  A step that routes messages is `Deliver`, a submission is `Submit`, all others stutter.
* `NacksMissing`, `OvertakenRefused`, `NumbersDoRunOut` by `AcceptInv`: the last number is
  noted, nothing accepted is above it, and no NACK names an accepted number.
* `NothingStranded`: `NoMessageStranded`, by `DeliveryInv`, when there are no more datagrams
  and no more messages than three-byte numbers. It adds that two datagrams the sender keeps
  have two numbers and that one on the wire is a copy of the one kept under its number
  (`Numbering`), that all packets of a number which is acknowledged, or about to be, have
  arrived (`AckedArrived`), and that what has not arrived is in some datagram kept
  (`AllSomewhere`). Both hypotheses are needed: an acknowledgement names a number, and once
  numbers come around it may name a datagram it was not meant for.
* `OutrunForGood`: `OutrunIsForGood`, when there are no more datagrams than numbers: what waits
  or will be sent has a number above the window (`SentNumbers`), and the window moves only
  when a datagram is accepted.

`SessionLifecycleProofs`:

* `InvHolds` for `LifecycleInv`: types, sessions that are closed have called back once,
  players have sessions. `TypeCorrect`, `ClosesOnce`, `PlayersKeepSessions` and
  `SessionsGoForward` follow.
* `BannedStayOut` by `NamesInv`, `ListsStayRight` by `NamesInv` and `ListInv`: the list a
  client was sent is right also while players are in the middle of their handshake.

`SessionLifecycleProofs` also has those of `ServerThreads`, as instantiated by `MCServerThreads`:

* `ThreadsTypeCorrect`, `EverythingSaved`, `NetworkThrough` by `ThreadsInv`: a thread is past the
  join only when the network thread has ended, `running_` is false from there on, and so
  the main thread, which alone could still change the game, never ticks again. The
  properties speak of the last steps only; the invariant carries the reason from the
  moment somebody asks for the stop.

`ContainersProofs` (a row of any length, any players and items; `ContainersAssumption`):

* `TypeCorrect`, `PairsStayMatched`, `SoleViewersAreRight` by `Inv`: types, `PairsMatch` and
  `ViewInv`. `PairsMatch` is inductive with the types alone, by lemmas on what placing, breaking
  and pairing do to a table. A sole viewer sees the truth, his writes under way included,
  because these are to the window he has open (`WritesAreOpen`), whoever is not alone is marked
  on both sides (`SharersKnow`), and whoever is not cut off has the left half of his window
  still there (`LeftIsThere`). A view that was shown anew agrees with the chest if no write
  crosses it.
* `ItemsAreKept`: `ItemsKept`, from the types, by what each step does to the number of places an
  item is in (`StepCount`): hands, chests, hopper and ground are counted apart, and every step
  but a client's write to a chest and despawning takes an item from one place when it puts it
  into another.

`ContainersProofs` also has those of `Rails` and `Redstone`, as instantiated by `MCRails` and
`MCRedstone`. `Rails`, for any set of columns and any ground:

* `RailsTypeCorrect`, `RailsAreShown` by `RailsInv`, both at once: after every turn the rails
  that are on the list are as they were told, and the others as they were (`Follows`). That the
  shapes exist at all needs that a rail goes by two neighbours at most.
* `TracksStayLinked`: `LinksAreKept`, by `TrackInv`: where only normal rails were laid, on level
  ground, two rails beside each other that both have an end free meet (`Snug`). So a neighbour
  with an end free goes by the rail it has a link to and by the new one, and gives up neither
  (`NeighbourCandidates`); those without one do not turn; and the new rail goes by the same
  neighbours both times (`CentreCandidates`). That neighbours of one cell do not lie beside each
  other is why they can be turned in any order (`Chequered`). Of a rail that is broken nothing
  is needed but types: a neighbour that lies next to one other rail meets it, whatever its kind
  and the ground (`PartedTurn`).

`Redstone`, for any current, delays and radius of the box, and a line of any length, of which
`CurrentStaysTrue` and `NoneLeftBehind` say something when the box covers it (`~stale`):

* `RedstoneTypeCorrect`, `CurrentStaysTrue`, `NoneLeftBehind` by `WiresInv`, all three together.
  After as many rounds as the current is strong, the wires of the box carry what their sources
  give (`StrengthSettled`, by bounds from both sides, `NoMore` and `NoLess`). The scan changes
  every cell once (`ScanFacts`) and, but for lamps, no source (`SameButLamps`), so what it read
  is still true when it is through. Whatever was before, what is left has true currents and a
  flip for every repeater that is behind (`Recomputed`, by `RecomputedFacts`). A tick recomputes
  in the same way or flips nothing, and then all entries that are wanted wait on
  (`WaitingFacts`).

`InventoryProofs` (any slots, size of stacks, types and recipes; `InventoryAssumption`):

* `TypeCorrect`, and `NothingMadeOrLost`: `Conserved`, `NothingForNothing`: `Paid`, both but for
  what despawns. A total is made of sums, over slots and over what lies on the ground, as
  recursive functions on numbers (`SumTo`); what one more or one other term does to them
  (`SumsAdd`, `SumUpdate`) is proved from the recursion, by the least counterexample. Of a group
  of writes that balances the totals before and after are the same whatever the slots
  (`BalancedUnits`).
* `SameView`: `ViewsAgree`, by `Agree`. As long as no inventory has crossed a message, either
  nothing is on its way to the client, and the messages on their way to the server lead from
  what it has and has noted to what the client shows (`Foreseen`), or an inventory is on its way
  and it is the last word (`Answered`).

`PresenceProofs` (any players, carts, worlds and spots; `ConstantsAssumption`):

* `TypeCorrect`, `LinksStayMatched`, `BodiesAreTrue`, `KnownStayHere` by `PresenceInv`. `LinksMatch`
  is not inductive: who is not spawned must ride nothing, and nobody may ride an entity
  that does not exist yet (`RideInv`). A body that is shown is right since every handler that
  changes a life or a world repairs all views of that player in the same step.

`PersistenceProofs` (any players, positions and items; `ConstantsAssumption`):

* `TypeCorrect`, `CleanStaysOnDisk`, `HoppersKeepTiles` by `FilesInv`. It adds that only loaded
  chunks are dirty: otherwise a chunk could be loaded clean while a save of it is due. A crash
  is treated by the files it leaves, each new, old or cut (`Underway`).
* `ItemsAlwaysSurvive`: `ItemsSurvive`, by `SurviveInv`, for any number of items and players;
  nothing is said of an item that a client wrote into a container or out of it. `Single` says
  that an item which is not spoilt is with one player, in one container, on the ground or lost,
  and nowhere else; `Settled` that one which did not move since the last save is in the files of
  the players and containers that have it in memory and in no other. A crash makes memory what
  the files are: of an item that is settled every mixture of old and new files has it in the
  same place, and those a cut file held are spoilt. `AloneIsOnePlace` leads to the cardinality.

`SplitReassemblyProofs` (any messages, parts, identifiers and limits; `SplitAssumption`:
`kMaxSplitCount` is at least one, as in the code, where it is 4):

* `PartsType`, `NeverMixed` and `OnlyLongAreLost` by `WholeInv`. Whole messages need that every
  part on the wire and in an entry is one that was sent (`WireGenuine`, `KeptGenuine`): parts
  in one entry have one id, and while ids are fresh that is one message. For parts that
  arrive in order it is needed that the wire is a row of messages of which the first
  may have lost its beginning to the one entry there is (`InLine`, `OneEntry`), and that the
  messages through are exactly the short ones (`Routed`).
* `StaysClogged`: `CloggedForGood`, since only a message with room fills its entry, and
  empty ones are never erased.

`PluginBridgeProofs` (any number of events, looks and lines in a pipe; `ConstantsAssumption`):

* `AnswersAreHeeded`: `PromptIsHeeded`, by `TurnInv` and `Prompt`. `TurnInv` follows a question: it
  is to be written, or in the pipe, or its answer is about to be written, or the answer is
  given, and in one of these places only (`Asked`), and at most one event is not over
  (`Turns`). `Prompt` says of a history without late answers that a verdict is in the pipe
  only while its event is waited for, that what the handler would make of the pipe and the
  flags is what was answered so far (`ReadSoFar`), and that a handler starts with nothing
  left over (`NothingLeft`).
* `LateStrikesOnce`: `AnswersCountOnce`, for answers however late, by `Counts` and `Texts`. The
  events struck, the verdicts still in the pipe and the flag that is up are together no
  more than the events the process meant to strike (`CountsOf`). Neither property is
  inductive: both forget what is in the pipe.

Only model-checked: everything about liveness and fairness, which the prover does not do
(`ImplementsFairChannel`, `RecoveryDrains`, `SilentIsDropped`, `ShutdownEnds`, `ServerGoesOn`), nor
does it do ENABLED. The library's induction theorems are out of its reach as well; where a proof
needs induction, it is over numbers, by the least counterexample (`Induction`).

Only proved, as the runs have better things to do: the types of `RakReliability`,
`SessionLifecycle`, `ServerThreads`, `Presence` and `Persistence`, `WindowsInStep`,
`NacksAreMissing`, `OvertakenIsRefused`, `NumbersRunOut`, `StateNeverRegresses` and
`ListsAreRight`.

## 6. Not modelled

Socket I/O, byte layouts of packets and streams, terrain generation, configuration, logging and
the loading of plugin libraries: no control that could go wrong in a way a model shows. Chunk
streaming: which chunk comes next is geometry; its effects on tables are in `Containers` and
`Persistence`. Furnaces: the server refuses to open them. Detector rails, and comparators at a
chest: two more sources of current, of which the first is never switched off again (`Server.cpp`
1813). The physics of minecarts, mobs and falling: floating point. Doors, beds, crops, digging
times, tool wear, creative mode: rules of a few lines each without state of their own that could
come to disagree. Commands other than `/kick`, `/ban`, `/unban` and `/goto`, and the levels of
permission. Undefined behaviour after a player record is erased under a batch (`Server.cpp`
4112): listed as a hazard, nothing after it can be said. Hazards without a property have a note
in `PROJECT.json` that says why.

## 7. Plan

1. The tick of hoppers in chains, with the cooldown, composed with `Containers`; the windows of
   hoppers and of minecarts.
2. Permissions: bans by name, address and client id, against login and commands.
