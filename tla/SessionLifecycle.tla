-------------------------- MODULE SessionLifecycle --------------------------
(***************************************************************************)
(* Sessions and players: how the RakNet sessions of SessionManager come    *)
(* and go (src/raklib/SessionManager.cpp, the state machine of             *)
(* src/raklib/Session.cpp), and what Server and PlayerManager keep for     *)
(* each of them through the open, packet and close callbacks.              *)
(*                                                                         *)
(* The network thread holds Server::game_mutex_ for one SessionManager::   *)
(* tick(): it drains the socket, one packet at a time (phase "draining"),  *)
(* then updates every session and erases the closed ones.  In between      *)
(* (phase "idle") the game thread may run console commands.  What arrives, *)
(* and from whom, is up to the clients.                                    *)
(***************************************************************************)
EXTENDS Naturals, FiniteSets, Functions

CONSTANTS Endpoints,     \* addresses packets come from
          Names,         \* player names; a client's uuid goes with its name
          NoName,        \* the name of a player before its login
          Timeout        \* 10 s: units of time a session may be silent

ASSUME LifecycleAssumption == Timeout \in Nat /\ NoName \notin Names

VARIABLES
  phase,        \* "idle" or "draining"
  sessions,     \* SessionManager::sessions_: endpoint -> session
  players,      \* PlayerManager::players_: endpoint -> player
  banned,       \* names in bans.txt
  tab,          \* the player list each client was sent, as a set of names
  ghosts,       \* history: players that a session touched after it was closed
  irregular,    \* history: a name was used by two players at once, or a
                \* spawned player logged in again under another name
  kicked        \* history: the player kickPlayer() was called for in this step

vars == <<phase, sessions, players, banned, tab, ghosts, irregular, kicked>>
-----------------------------------------------------------------------------
States == {"Unconnected", "Connecting1", "Connecting2", "Connected"}

Rank(s) == CASE s = "Unconnected" -> 0 [] s = "Connecting1" -> 1
             [] s = "Connecting2" -> 2 [] s = "Connected" -> 3

\* quiet is the time since last_update_; closes counts the calls of on_close_.
Sessions == [state : States, closed : BOOLEAN, active : BOOLEAN,
             quiet : 0 .. (Timeout + 1), closes : 0 .. 2]

Players == [name : Names \cup {NoName}, state : {"Connected", "Playing"},
            spawned : BOOLEAN]

Put(f, k, v) == [x \in DOMAIN f \cup {k} |-> IF x = k THEN v ELSE f[x]]
Without(f, S) == Restrict(f, DOMAIN f \ S)

Open(ep) == ep \in DOMAIN sessions /\ ~sessions[ep].closed

\* The players of pl that PlayerList packets are sent to: those that play, and
\* whose session is there and not closed.
Listening(ss, pl) ==
  {v \in DOMAIN pl : /\ pl[v].spawned /\ pl[v].state = "Playing"
                     /\ v \in DOMAIN ss /\ ~ss[v].closed}

Named(pl) == {pl[o].name : o \in {q \in DOMAIN pl : pl[q].spawned}} \ {NoName}

Init ==
  /\ phase = "idle"
  /\ sessions = << >> /\ players = << >>
  /\ banned = {}
  /\ tab = [ep \in Endpoints |-> {}]
  /\ ghosts = {} /\ irregular = FALSE /\ kicked = {}
-----------------------------------------------------------------------------
(***************************************************************************)
(* Closing.                                                                *)
(***************************************************************************)
\* Variant: disconnect() without the check of closed_.
ClosedAgain(ss, E) ==
  [e \in DOMAIN ss |->
     IF e \in E THEN [ss[e] EXCEPT !.closed = TRUE, !.closes = @ + 1] ELSE ss[e]]

\* Session::disconnect() of the sessions E: the flag, and on_close_ of those
\* that were open.  ss are the sessions so far.
ClosedFlag(ss, E) ==
  [e \in DOMAIN ss |->
     IF e \in E /\ ~ss[e].closed
     THEN [ss[e] EXCEPT !.closed = TRUE, !.closes = @ + 1] ELSE ss[e]]

\* Variant: on_close_ removes only the players that play.
RemovedIfPlaying(pl, E) == {e \in E \cap DOMAIN pl : Open(e) /\ pl[e].spawned}

\* The players of pl that on_close_ removes when the sessions E are
\* disconnected.
Removed(pl, E) == {e \in E : Open(e)} \cap DOMAIN pl

\* PlayerManager::remove(): the other players' lists lose the names of those
\* that leave.
TabWithout(pl, gone) ==
  LET left == Named(Restrict(pl, gone))
      staying == Listening(sessions, Without(pl, gone))
  IN [v \in Endpoints |-> IF v \in staying THEN tab[v] \ left ELSE tab[v]]

\* The sessions E of ss are disconnected while the players are pl.
Disconnect(ss, pl, E) ==
  /\ sessions' = ClosedFlag(ss, E)
  /\ players' = Without(pl, Removed(pl, E))
  /\ tab' = TabWithout(pl, Removed(pl, E))
  /\ ghosts' = ghosts \ Removed(pl, E)
-----------------------------------------------------------------------------
(***************************************************************************)
(* Packets.  handleRaw() notes the time before it looks at the packet, and *)
(* does not ask whether the session is closed.                             *)
(***************************************************************************)
NewSession == [state |-> "Unconnected", closed |-> FALSE, active |-> FALSE,
               quiet |-> 0, closes |-> 0]

\* getOrCreateSession() and the start of handleRaw().
Touched(ep) ==
  Put(sessions, ep,
      [(IF ep \in DOMAIN sessions THEN sessions[ep] ELSE NewSession)
         EXCEPT !.active = TRUE, !.quiet = 0])

InState(ep, s) == ep \in DOMAIN sessions /\ sessions[ep].state = s

To(ep, s) == [Touched(ep) EXCEPT ![ep].state = s]

Arrives == phase = "draining" /\ UNCHANGED <<phase, banned>>

\* The players haunting the server after a closed session handled a packet.
GhostsWith(ep) == IF Open(ep) THEN ghosts ELSE ghosts \cup {ep}

Quiet == kicked' = {} /\ UNCHANGED <<players, tab, ghosts, irregular>>

\* OPEN_CONNECTION_REQUEST_1.
Request1(ep) ==
  /\ Arrives /\ Quiet
  /\ ~InState(ep, "Connecting2") /\ ~InState(ep, "Connected")
  /\ sessions' = To(ep, "Connecting1")

\* OPEN_CONNECTION_REQUEST_2.
Request2(ep) ==
  /\ Arrives /\ Quiet
  /\ InState(ep, "Connecting1")
  /\ sessions' = To(ep, "Connecting2")

\* Every packet that only keeps the session alive: a request out of its turn
\* or malformed, CLIENT_CONNECT and pings, which are answered, ACK and NACK.
Chatter(ep) ==
  Arrives /\ Quiet /\ sessions' = Touched(ep)

\* CLIENT_HANDSHAKE: the session is connected and on_open_ is called, which
\* takes over a player that is already there.
ClientHandshake(ep) ==
  /\ Arrives
  /\ InState(ep, "Connecting2")
  /\ sessions' = To(ep, "Connected")
  /\ players' = Put(players, ep,
                    IF ep \in DOMAIN players
                    THEN [players[ep] EXCEPT !.state = "Connected"]
                    ELSE [name |-> NoName, state |-> "Connected", spawned |-> FALSE])
  /\ tab' = [tab EXCEPT ![ep] = {}]
  /\ ghosts' = GhostsWith(ep)
  /\ kicked' = {}
  /\ UNCHANGED irregular

\* CLIENT_DISCONNECT.
ClientDisconnect(ep) ==
  /\ Arrives
  /\ InState(ep, "Connecting2") \/ InState(ep, "Connected")
  /\ Disconnect(Touched(ep), players, {ep})
  /\ kicked' = {}
  /\ UNCHANGED irregular

\* handleMcpePayload(): a player is made up for a packet whose endpoint has
\* none.
PlayerOf(ep) ==
  IF ep \in DOMAIN players THEN players[ep]
  ELSE [name |-> NoName, state |-> "Connected", spawned |-> FALSE]

\* A game packet that changes nothing modelled here.
GamePacket(ep) ==
  /\ Arrives
  /\ InState(ep, "Connected")
  /\ sessions' = Touched(ep)
  /\ players' = Put(players, ep, PlayerOf(ep))
  /\ ghosts' = GhostsWith(ep)
  /\ kicked' = {}
  /\ UNCHANGED <<tab, irregular>>

\* Another player has the name, or the player logs in under a second one.
Clashes(ep, name) ==
  /\ name # NoName
  /\ \/ \E o \in DOMAIN players \ {ep} : players[o].name = name
     \/ PlayerOf(ep).name \notin {NoName, name}

\* A login that is refused: malformed or of another protocol, or, after the
\* name was taken over, banned.  kickPlayer() disconnects the session, which
\* does nothing if it is closed already.
LoginRefused(ep) ==
  /\ Arrives
  /\ InState(ep, "Connected")
  /\ \E name \in banned \cup {PlayerOf(ep).name} :
       LET pl == Put(players, ep, [PlayerOf(ep) EXCEPT !.name = name])
       IN /\ \/ Open(ep) /\ Disconnect(Touched(ep), pl, {ep})
             \/ /\ ~Open(ep)
                /\ sessions' = Touched(ep)
                /\ players' = pl
                /\ ghosts' = GhostsWith(ep)
                /\ UNCHANGED tab
          /\ irregular' = (irregular \/ Clashes(ep, name))
  /\ kicked' = {ep}

\* Variant: handleLogin() without the check of the ban list.
LoginUnchecked(ep, name) ==
  /\ Arrives
  /\ InState(ep, "Connected")
  /\ sessions' = Touched(ep)
  /\ players' = Put(players, ep, [name |-> name, state |-> "Playing", spawned |-> TRUE])
  /\ tab' = [v \in Endpoints |->
               IF v = ep /\ Open(ep)
               THEN tab[ep] \cup Named(Without(players, {ep})) \cup {name}
               ELSE IF v \in Listening(sessions, players) THEN tab[v] \cup {name}
               ELSE tab[v]]
  /\ irregular' = (irregular \/ Clashes(ep, name))
  /\ ghosts' = GhostsWith(ep)
  /\ kicked' = {}

\* handleLogin() of a client that is let in, with doLoginSequence() and the
\* announcement to the other players.
Login(ep, name) == name \notin banned /\ LoginUnchecked(ep, name)
-----------------------------------------------------------------------------
(***************************************************************************)
(* Commands, from a player while packets are handled or from the console   *)
(* while the game thread has the mutex.                                    *)
(***************************************************************************)
\* kickPlayer() of the player at ep.
Kick(ep) ==
  /\ Disconnect(sessions, players, {ep})
  /\ kicked' = {ep}
  /\ UNCHANGED <<phase, irregular>>

\* /kick: the first player of that name.
KickCommand(name) ==
  /\ \E ep \in DOMAIN players : players[ep].name = name /\ Kick(ep)
  /\ UNCHANGED banned

\* /ban: the name is banned, and the first player of that name is kicked.
BanCommand(name) ==
  /\ banned' = banned \cup {name}
  /\ \/ \E ep \in DOMAIN players : players[ep].name = name /\ Kick(ep)
     \/ /\ \A ep \in DOMAIN players : players[ep].name # name
        /\ kicked' = {}
        /\ UNCHANGED <<phase, sessions, players, tab, ghosts, irregular>>

\* /unban.
UnbanCommand(name) ==
  /\ name \in banned /\ banned' = banned \ {name}
  /\ kicked' = {}
  /\ UNCHANGED <<phase, sessions, players, tab, ghosts, irregular>>
-----------------------------------------------------------------------------
(***************************************************************************)
(* SessionManager::tick() and time.                                        *)
(***************************************************************************)
BeginTick ==
  /\ phase = "idle" /\ phase' = "draining"
  /\ kicked' = {}
  /\ UNCHANGED <<sessions, players, banned, tab, ghosts, irregular>>

\* Variant: update() never times a session out.
NeverTimedOut == {}

\* Session::update(): the sessions that were silent for too long.
TimedOut ==
  {e \in DOMAIN sessions :
     Open(e) /\ ~sessions[e].active /\ sessions[e].quiet > Timeout}

\* Every open session is updated, then the closed ones are erased.
EndTick ==
  LET kept == {e \in DOMAIN sessions : Open(e)} \ TimedOut
  IN /\ phase = "draining" /\ phase' = "idle"
     /\ sessions' = [e \in kept |-> [sessions[e] EXCEPT !.active = FALSE]]
     /\ players' = Without(players, Removed(players, TimedOut))
     /\ tab' = TabWithout(players, Removed(players, TimedOut))
     /\ ghosts' = ghosts \ Removed(players, TimedOut)
     /\ kicked' = {}
     /\ UNCHANGED <<banned, irregular>>

\* A unit of time passes.
Pass ==
  /\ sessions' = [e \in DOMAIN sessions |->
       [sessions[e] EXCEPT !.quiet = IF @ > Timeout THEN @ ELSE @ + 1]]
  /\ kicked' = {}
  /\ UNCHANGED <<phase, players, banned, tab, ghosts, irregular>>
-----------------------------------------------------------------------------
Packet(ep) ==
  \/ Request1(ep) \/ Request2(ep) \/ Chatter(ep)
  \/ ClientHandshake(ep) \/ ClientDisconnect(ep)
  \/ GamePacket(ep) \/ LoginRefused(ep)
  \/ \E name \in Names : Login(ep, name)

Next ==
  \/ \E ep \in Endpoints : Packet(ep)
  \/ \E name \in Names : KickCommand(name) \/ BanCommand(name) \/ UnbanCommand(name)
  \/ BeginTick \/ EndTick \/ Pass

Spec == Init /\ [][Next]_vars

\* The network thread never stops, and time passes.
FairSpec == Spec /\ WF_vars(BeginTick) /\ WF_vars(EndTick) /\ WF_vars(Pass)
-----------------------------------------------------------------------------
(***************************************************************************)
(* Properties.                                                             *)
(***************************************************************************)
TypeOK ==
  /\ phase \in {"idle", "draining"}
  /\ DOMAIN sessions \subseteq Endpoints
  /\ \A e \in DOMAIN sessions : sessions[e] \in Sessions
  /\ DOMAIN players \subseteq Endpoints
  /\ \A e \in DOMAIN players : players[e] \in Players
  /\ banned \subseteq Names
  /\ tab \in [Endpoints -> SUBSET Names]
  /\ ghosts \subseteq Endpoints /\ irregular \in BOOLEAN /\ kicked \subseteq Endpoints

\* A player and an open connected session go together: no player outlives its
\* session, whether the client left, was kicked, was refused or fell silent,
\* and no connected client is without its player.  The exception is a player
\* that a session touched after it was closed (ghosts).
PlayersHaveSessions ==
  /\ \A e \in DOMAIN players \ ghosts : Open(e) /\ sessions[e].state = "Connected"
  /\ \A e \in DOMAIN sessions :
       Open(e) /\ sessions[e].state = "Connected" => e \in DOMAIN players

\* on_close_ is called once for a session that is closed, however often and
\* however it is closed, and never for an open one.
ClosedOnce ==
  \A e \in DOMAIN sessions : sessions[e].closes = IF sessions[e].closed THEN 1 ELSE 0

\* A player whose name is banned does not play, unless two players shared the
\* name (the command kicks the first only) or the player is a ghost.
BannedAreOut ==
  ~irregular =>
    \A e \in DOMAIN players \ ghosts :
      players[e].spawned => players[e].name \notin banned

\* The player list of every client that plays is the list of those that play.
ListsAreRight ==
  ~irregular =>
    \A v \in Listening(sessions, players) :
      sessions[v].state = "Connected" => tab[v] = Named(players)

\* A retransmitted request never takes a session back to an earlier state; a
\* session starts over only as a new one.
StateNeverRegresses ==
  [][\A e \in DOMAIN sessions \cap DOMAIN sessions' :
       Rank(sessions'[e].state) >= Rank(sessions[e].state)]_vars

\* A client that falls silent is dropped: its session goes, and the player
\* with it (see PlayersHaveSessions).
SilentIsDropped ==
  \A e \in Endpoints :
    \/ []<>(e \in DOMAIN sessions /\ sessions[e].quiet = 0)
    \/ <>[](e \notin DOMAIN sessions)

\* "PlayerManager cleanup happens on session close callback."
\* (src/server/Server.cpp:1974): a kicked player is gone.
\* No run checks it, for it does not hold (README, section 4).
KickCleansUp == kicked \cap DOMAIN players = {}
=============================================================================
