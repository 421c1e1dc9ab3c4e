----------------------- MODULE SessionLifecycleProofs -----------------------
(***************************************************************************)
(* Theorems about SessionLifecycle, for every set of endpoints and names,  *)
(* and, at the end, about ServerThreads, whose network thread and game     *)
(* loop are what steps those sessions.                                     *)
(***************************************************************************)
EXTENDS SessionLifecycle, MCServerThreads, TLAPS

USE LifecycleAssumption

(***************************************************************************)
(* What the operators on sessions and players return.                      *)
(***************************************************************************)
SessionsOK(ss) ==
  /\ DOMAIN ss \subseteq Endpoints
  /\ \A e \in DOMAIN ss :
       /\ ss[e] \in Sessions
       /\ ss[e].closes = IF ss[e].closed THEN 1 ELSE 0

PlayersOK(pl) ==
  /\ DOMAIN pl \subseteq Endpoints
  /\ \A e \in DOMAIN pl : pl[e] \in Players

TabOK(t) == t \in [Endpoints -> SUBSET Names]

\* ss has the sessions of the present, in the same states, open or closed as
\* they are.
SameAs(ss) ==
  \A e \in DOMAIN sessions :
    ss[e].state = sessions[e].state /\ ss[e].closed = sessions[e].closed

\* A packet makes its session known and leaves the others alone.
LEMMA TouchedIs ==
  ASSUME SessionsOK(sessions), NEW ep \in Endpoints
  PROVE  /\ SessionsOK(Touched(ep))
         /\ DOMAIN Touched(ep) = DOMAIN sessions \cup {ep}
         /\ SameAs(Touched(ep))
         /\ ep \notin DOMAIN sessions =>
              Touched(ep)[ep].state = "Unconnected" /\ ~Touched(ep)[ep].closed
<1>1. NewSession \in Sessions /\ NewSession.closes = 0 /\ ~NewSession.closed
      /\ NewSession.state = "Unconnected"
  BY DEF NewSession, Sessions, States
<1> DEFINE old == IF ep \in DOMAIN sessions THEN sessions[ep] ELSE NewSession
           new == [old EXCEPT !.active = TRUE, !.quiet = 0]
<1>2. old \in Sessions /\ old.closes = IF old.closed THEN 1 ELSE 0
  BY <1>1 DEF SessionsOK
<1>3. new \in Sessions /\ new.closes = old.closes /\ new.closed = old.closed
      /\ new.state = old.state
  <2> HIDE DEF old
  <2>1. 0 \in 0 .. (Timeout + 1)
    OBVIOUS
  <2> QED
    BY <1>2, <2>1 DEF Sessions
<1>4. Touched(ep) = [x \in DOMAIN sessions \cup {ep} |->
                       IF x = ep THEN new ELSE sessions[x]]
  BY DEF Touched, Put
<1> HIDE DEF new, old
<1>5. DOMAIN Touched(ep) = DOMAIN sessions \cup {ep}
  BY <1>4
<1>6. Touched(ep)[ep] = new /\ \A x \in DOMAIN sessions \ {ep} : Touched(ep)[x] = sessions[x]
  BY <1>4
<1>7. SessionsOK(Touched(ep))
  BY <1>2, <1>3, <1>5, <1>6 DEF SessionsOK
<1>8. ep \in DOMAIN sessions => old = sessions[ep]
  BY DEF old
<1>9. ep \notin DOMAIN sessions => old = NewSession
  BY DEF old
<1> QED
  BY <1>1, <1>3, <1>5, <1>6, <1>7, <1>8, <1>9 DEF SameAs

\* A packet that also moves its session to the state s.
LEMMA ToIs ==
  ASSUME SessionsOK(sessions), NEW ep \in Endpoints, NEW s \in States
  PROVE  /\ SessionsOK(To(ep, s))
         /\ DOMAIN To(ep, s) = DOMAIN sessions \cup {ep}
         /\ To(ep, s)[ep].state = s
         /\ \A e \in DOMAIN sessions :
              /\ e # ep => To(ep, s)[e].state = sessions[e].state
              /\ To(ep, s)[e].closed = sessions[e].closed
<1> DEFINE t == Touched(ep)
<1>1. /\ SessionsOK(t) /\ DOMAIN t = DOMAIN sessions \cup {ep} /\ SameAs(t)
  BY TouchedIs
<1>2. To(ep, s) = [t EXCEPT ![ep].state = s]
  BY DEF To
<1> HIDE DEF t
<1>3. t[ep] \in Sessions
  BY <1>1 DEF SessionsOK
<1> DEFINE u == [t[ep] EXCEPT !.state = s]
<1>4. u \in Sessions /\ u.state = s /\ u.closed = t[ep].closed /\ u.closes = t[ep].closes
  BY <1>3 DEF Sessions
<1>5. DOMAIN To(ep, s) = DOMAIN t /\ To(ep, s)[ep] = u
      /\ \A x \in DOMAIN t \ {ep} : To(ep, s)[x] = t[x]
  BY <1>1, <1>2
<1> HIDE DEF u
<1>6. SessionsOK(To(ep, s))
  BY <1>1, <1>4, <1>5 DEF SessionsOK
<1> QED
  BY <1>1, <1>4, <1>5, <1>6 DEF SameAs

\* Closing sessions closes them and changes nothing else of them that matters.
LEMMA ClosedFlagIs ==
  ASSUME NEW ss, SessionsOK(ss), NEW E
  PROVE  /\ SessionsOK(ClosedFlag(ss, E))
         /\ DOMAIN ClosedFlag(ss, E) = DOMAIN ss
         /\ \A e \in DOMAIN ss :
              /\ ClosedFlag(ss, E)[e].state = ss[e].state
              /\ ClosedFlag(ss, E)[e].closed = (ss[e].closed \/ e \in E)
<1> DEFINE c == ClosedFlag(ss, E)
<1>1. DOMAIN c = DOMAIN ss
  BY DEF ClosedFlag
<1>2. ASSUME NEW e \in DOMAIN ss
      PROVE  /\ c[e] \in Sessions /\ c[e].closes = IF c[e].closed THEN 1 ELSE 0
             /\ c[e].state = ss[e].state /\ c[e].closed = (ss[e].closed \/ e \in E)
  <2>1. ss[e] \in Sessions /\ ss[e].closes = IF ss[e].closed THEN 1 ELSE 0
    BY DEF SessionsOK
  <2>2. CASE e \in E /\ ~ss[e].closed
    <3>1. c[e] = [ss[e] EXCEPT !.closed = TRUE, !.closes = ss[e].closes + 1]
      BY <2>2 DEF ClosedFlag
    <3>2. ss[e].closes = 0
      BY <2>1, <2>2
    <3>3. c[e] = [ss[e] EXCEPT !.closed = TRUE, !.closes = 1]
      BY <3>1, <3>2
    <3>4. \A r \in Sessions :
            LET n == [r EXCEPT !.closed = TRUE, !.closes = 1]
            IN  n \in Sessions /\ n.closed = TRUE /\ n.closes = 1 /\ n.state = r.state
      <4> HIDE DEF c
      <4>1. 1 \in 0 .. 2
        OBVIOUS
      <4> QED
        BY <4>1 DEF Sessions
    <3> HIDE DEF c
    <3> QED
      BY <2>1, <2>2, <3>3, <3>4
  <2>3. CASE ~(e \in E /\ ~ss[e].closed)
    <3>1. c[e] = ss[e]
      BY <2>3 DEF ClosedFlag
    <3>2. ss[e].closed \in BOOLEAN
      BY <2>1 DEF Sessions
    <3> QED
      BY <2>1, <2>3, <3>1, <3>2
  <2> QED
    BY <2>2, <2>3
<1> QED
  BY <1>1, <1>2 DEF SessionsOK

\* The names of players are names.
LEMMA NamedIs == \A pl : PlayersOK(pl) => Named(pl) \subseteq Names
  BY DEF PlayersOK, Players, Named

\* The player of an endpoint, made up if there is none.
LEMMA PlayerOfIs ==
  ASSUME PlayersOK(players), NEW ep \in Endpoints
  PROVE  PlayerOf(ep) \in Players
  BY DEF PlayersOK, PlayerOf, Players

LEMMA TabWithoutIs == \A pl, gone : TabOK(tab) => TabOK(TabWithout(pl, gone))
  BY DEF TabOK, TabWithout

\* What disconnecting the sessions E of ss leaves, when the players were pl.
LEMMA DisconnectIs ==
  ASSUME NEW ss, SessionsOK(ss), NEW pl, PlayersOK(pl), TabOK(tab), NEW E,
         Disconnect(ss, pl, E)
  PROVE  /\ SessionsOK(sessions') /\ PlayersOK(players') /\ TabOK(tab')
         /\ DOMAIN sessions' = DOMAIN ss
         /\ \A e \in DOMAIN ss :
              /\ sessions'[e].state = ss[e].state
              /\ sessions'[e].closed = (ss[e].closed \/ e \in E)
         /\ \A e : e \in DOMAIN players' <=> e \in DOMAIN pl /\ ~(e \in E /\ Open(e))
         /\ \A e \in DOMAIN players' : players'[e] = pl[e]
         /\ \A e : e \in ghosts' <=> e \in ghosts /\ ~(e \in E /\ e \in DOMAIN pl /\ Open(e))
<1> DEFINE gone == Removed(pl, E)
<1>1. sessions' = ClosedFlag(ss, E) /\ players' = Without(pl, gone)
      /\ tab' = TabWithout(pl, gone) /\ ghosts' = ghosts \ gone
  BY DEF Disconnect
<1>2. gone = {e \in E \cap DOMAIN pl : Open(e)}
  BY DEF Removed
<1> HIDE DEF gone
<1>3. DOMAIN players' = DOMAIN pl \ gone /\ \A e \in DOMAIN players' : players'[e] = pl[e]
  BY <1>1 DEF Without, Restrict
<1>4. PlayersOK(players')
  BY <1>3 DEF PlayersOK
<1>5. TabOK(tab')
  BY <1>1, TabWithoutIs
<1>6. \A e : e \in DOMAIN players' <=> e \in DOMAIN pl /\ ~(e \in E /\ Open(e))
  BY <1>2, <1>3
<1> QED
  BY <1>1, <1>2, <1>3, <1>4, <1>5, <1>6, ClosedFlagIs

(***************************************************************************)
(* The inductive invariant: types, the number of closings, and the players *)
(* that go with sessions.  It is inductive as it stands because the        *)
(* exception of PlayersHaveSessions, the ghosts, is part of the state.     *)
(***************************************************************************)
TablesOK ==
  /\ SessionsOK(sessions) /\ PlayersOK(players) /\ TabOK(tab)
  /\ phase \in {"idle", "draining"}
  /\ banned \subseteq Names /\ ghosts \subseteq Endpoints
  /\ irregular \in BOOLEAN /\ kicked \subseteq Endpoints

LifecycleInv == TablesOK /\ PlayersHaveSessions

LEMMA InvInit == Init => LifecycleInv
<1> SUFFICES ASSUME Init PROVE LifecycleInv
  OBVIOUS
<1>1. DOMAIN sessions = {} /\ DOMAIN players = {}
  BY DEF Init
<1>2. TabOK(tab)
  BY DEF Init, TabOK
<1> QED
  BY <1>1, <1>2 DEF Init, LifecycleInv, TablesOK, PlayersHaveSessions, SessionsOK, PlayersOK

\* A packet that is answered and changes the state of its session only.
LEMMA QuietStep ==
  ASSUME LifecycleInv, NEW ep \in Endpoints,
         Request1(ep) \/ Request2(ep) \/ Chatter(ep)
  PROVE  LifecycleInv'
<1> USE DEF LifecycleInv, TablesOK
<1>1. /\ SessionsOK(sessions') /\ DOMAIN sessions' = DOMAIN sessions \cup {ep}
      /\ \A e \in DOMAIN sessions :
           /\ sessions'[e].closed = sessions[e].closed
           /\ e # ep => sessions'[e].state = sessions[e].state
      /\ sessions'[ep].state = "Connected" <=> InState(ep, "Connected")
  <2>1. CASE Request1(ep)
    <3>1. sessions' = To(ep, "Connecting1") /\ ~InState(ep, "Connected")
      BY <2>1 DEF Request1
    <3> QED
      BY <3>1, ToIs DEF States
  <2>2. CASE Request2(ep)
    <3>1. sessions' = To(ep, "Connecting2") /\ ~InState(ep, "Connected")
      BY <2>2 DEF Request2, InState
    <3> QED
      BY <3>1, ToIs DEF States
  <2>3. CASE Chatter(ep)
    <3>1. sessions' = Touched(ep)
      BY <2>3 DEF Chatter
    <3> QED
      BY <3>1, TouchedIs DEF SameAs, InState
  <2> QED
    BY <2>1, <2>2, <2>3
<1>3. /\ UNCHANGED <<phase, banned, players, tab, ghosts, irregular>> /\ kicked' = {}
  BY DEF Request1, Request2, Chatter, Arrives, Quiet
<1>4. PlayersHaveSessions'
  BY <1>1, <1>3 DEF PlayersHaveSessions, Open, InState
<1>5. TablesOK'
  BY <1>1, <1>3
<1> QED
  BY <1>4, <1>5

\* CLIENT_HANDSHAKE.
LEMMA HandshakeStep ==
  ASSUME LifecycleInv, NEW ep \in Endpoints, ClientHandshake(ep)
  PROVE  LifecycleInv'
<1> USE DEF LifecycleInv, TablesOK
<1>1. sessions' = To(ep, "Connected") /\ InState(ep, "Connecting2")
      /\ UNCHANGED <<phase, banned, irregular>> /\ kicked' = {}
      /\ ghosts' = GhostsWith(ep)
      /\ tab' = [tab EXCEPT ![ep] = {}]
  BY DEF ClientHandshake, Arrives
<1>2. /\ SessionsOK(sessions') /\ DOMAIN sessions' = DOMAIN sessions \cup {ep}
      /\ sessions'[ep].state = "Connected"
      /\ \A e \in DOMAIN sessions :
           /\ sessions'[e].closed = sessions[e].closed
           /\ e # ep => sessions'[e].state = sessions[e].state
  BY <1>1, ToIs DEF States
<1>3. PICK v : v \in Players /\ players' = Put(players, ep, v)
  <2>1. CASE ep \in DOMAIN players
    <3>1. players[ep] \in Players
      BY <2>1 DEF PlayersOK
    <3>2. [players[ep] EXCEPT !.state = "Connected"] \in Players
      BY <3>1 DEF Players
    <3> QED
      BY <2>1, <3>2 DEF ClientHandshake
  <2>2. CASE ep \notin DOMAIN players
    BY <2>2 DEF ClientHandshake, Players
  <2> QED
    BY <2>1, <2>2
<1>4. /\ DOMAIN players' = DOMAIN players \cup {ep} /\ players'[ep] = v
      /\ \A x \in DOMAIN players \ {ep} : players'[x] = players[x]
  BY <1>3 DEF Put
<1>5. PlayersOK(players') /\ TabOK(tab')
  BY <1>1, <1>3, <1>4 DEF PlayersOK, TabOK
<1>6. ghosts' \subseteq Endpoints /\ ghosts \subseteq ghosts' /\ (Open(ep) \/ ep \in ghosts')
  BY <1>1 DEF GhostsWith
<1>7. PlayersHaveSessions'
  BY <1>1, <1>2, <1>4, <1>6 DEF PlayersHaveSessions, Open, InState
<1> QED
  BY <1>1, <1>2, <1>5, <1>6, <1>7

\* A packet that a game handler takes: the session was connected, its player
\* is put in the table and is a ghost if the session is closed.
LEMMA GameStep ==
  ASSUME LifecycleInv, NEW ep \in Endpoints, NEW v \in Players,
         InState(ep, "Connected"), sessions' = Touched(ep),
         players' = Put(players, ep, v), ghosts' = GhostsWith(ep),
         TabOK(tab'), UNCHANGED <<phase, banned>>,
         irregular' \in BOOLEAN, kicked' \subseteq Endpoints
  PROVE  LifecycleInv'
<1> USE DEF LifecycleInv, TablesOK
<1>1. /\ SessionsOK(sessions') /\ DOMAIN sessions' = DOMAIN sessions
      /\ \A e \in DOMAIN sessions :
           /\ sessions'[e].closed = sessions[e].closed
           /\ sessions'[e].state = sessions[e].state
  BY TouchedIs DEF InState, SameAs
<1>2. /\ DOMAIN players' = DOMAIN players \cup {ep} /\ players'[ep] = v
      /\ \A x \in DOMAIN players \ {ep} : players'[x] = players[x]
  BY DEF Put
<1>3. PlayersOK(players')
  BY <1>2 DEF PlayersOK
<1>4. ghosts' \subseteq Endpoints /\ ghosts \subseteq ghosts' /\ (Open(ep) \/ ep \in ghosts')
  BY DEF GhostsWith
<1>5. PlayersHaveSessions'
  BY <1>1, <1>2, <1>4 DEF PlayersHaveSessions, Open, InState
<1> QED
  BY <1>1, <1>3, <1>4, <1>5

\* The session of ep is disconnected while its player is, or may be, in the
\* table pl, which has the other players of the present.
LEMMA DisconnectStep ==
  ASSUME LifecycleInv, NEW ep \in Endpoints, NEW ss, SessionsOK(ss), SameAs(ss),
         NEW pl, PlayersOK(pl),
         ss = sessions \/ ss = Touched(ep),
         DOMAIN pl \subseteq DOMAIN players \cup {ep},
         DOMAIN players \subseteq DOMAIN pl,
         ep \in DOMAIN pl \ DOMAIN players => Open(ep),
         ep \notin DOMAIN sessions => ss = sessions,
         Disconnect(ss, pl, {ep}),
         UNCHANGED <<phase>>, banned' \subseteq Names,
         irregular' \in BOOLEAN, kicked' \subseteq Endpoints
  PROVE  LifecycleInv'
<1> USE DEF LifecycleInv, TablesOK
<1>1. DOMAIN ss = DOMAIN sessions
  BY TouchedIs
<1>2. /\ SessionsOK(sessions') /\ PlayersOK(players') /\ TabOK(tab')
      /\ DOMAIN sessions' = DOMAIN ss
      /\ \A e \in DOMAIN ss :
           /\ sessions'[e].state = ss[e].state
           /\ sessions'[e].closed = (ss[e].closed \/ e = ep)
      /\ \A e : e \in DOMAIN players' <=> e \in DOMAIN pl /\ ~(e = ep /\ Open(e))
      /\ \A e : e \in ghosts' <=> e \in ghosts /\ ~(e = ep /\ e \in DOMAIN pl /\ Open(e))
  BY DisconnectIs
<1>3. \A e \in DOMAIN sessions :
        /\ sessions'[e].state = sessions[e].state
        /\ sessions'[e].closed = (sessions[e].closed \/ e = ep)
  BY <1>1, <1>2 DEF SameAs
<1>4. ASSUME NEW e \in DOMAIN players' \ ghosts'
      PROVE  Open(e)' /\ sessions'[e].state = "Connected"
  <2>1. ~(e = ep /\ Open(ep)) /\ e \in DOMAIN pl
    BY <1>2
  <2>2. e \in DOMAIN players /\ e \notin ghosts
    BY <1>2, <2>1
  <2>3. Open(e) /\ sessions[e].state = "Connected"
    BY <2>2 DEF PlayersHaveSessions
  <2> QED
    BY <1>1, <1>2, <1>3, <2>1, <2>3 DEF Open
<1>5. ASSUME NEW e \in DOMAIN sessions', Open(e)', sessions'[e].state = "Connected"
      PROVE  e \in DOMAIN players'
  <2>1. e \in DOMAIN sessions /\ ~(sessions[e].closed \/ e = ep)
        /\ sessions[e].state = "Connected"
    BY <1>1, <1>2, <1>3, <1>5 DEF Open
  <2>2. e \in DOMAIN players
    BY <2>1 DEF PlayersHaveSessions, Open
  <2> QED
    BY <1>2, <2>1, <2>2
<1>6. PlayersHaveSessions'
  BY <1>4, <1>5 DEF PlayersHaveSessions
<1> QED
  BY <1>2, <1>6

\* A client that is let in.
LEMMA LoginStep ==
  ASSUME LifecycleInv, NEW ep \in Endpoints, NEW name \in Names, Login(ep, name)
  PROVE  LifecycleInv'
<1> DEFINE v == [name |-> name, state |-> "Playing", spawned |-> TRUE]
<1>1. /\ InState(ep, "Connected") /\ sessions' = Touched(ep)
      /\ players' = Put(players, ep, v) /\ ghosts' = GhostsWith(ep)
      /\ UNCHANGED <<phase, banned>> /\ kicked' = {}
      /\ irregular' = (irregular \/ Clashes(ep, name))
      /\ tab' = [w \in Endpoints |->
               IF w = ep /\ Open(ep)
               THEN tab[ep] \cup Named(Without(players, {ep})) \cup {name}
               ELSE IF w \in Listening(sessions, players) THEN tab[w] \cup {name}
               ELSE tab[w]]
  BY DEF Login, LoginUnchecked, Arrives
<1>2. v \in Players
  BY DEF Players
<1>3. PlayersOK(Without(players, {ep}))
  BY DEF LifecycleInv, TablesOK, PlayersOK, Without, Restrict
<1>4. Named(Without(players, {ep})) \subseteq Names
  BY <1>3, NamedIs
<1>5. TabOK(tab')
  BY <1>1, <1>4 DEF LifecycleInv, TablesOK, TabOK
<1>6. irregular' \in BOOLEAN
  BY <1>1 DEF LifecycleInv, TablesOK, Clashes
<1> HIDE DEF v
<1> QED
  BY <1>1, <1>2, <1>5, <1>6, GameStep

\* A client that is refused.
LEMMA RefusedStep ==
  ASSUME LifecycleInv, NEW ep \in Endpoints, LoginRefused(ep)
  PROVE  LifecycleInv'
<1>1. PICK name \in banned \cup {PlayerOf(ep).name} :
        LET pl == Put(players, ep, [PlayerOf(ep) EXCEPT !.name = name])
        IN /\ \/ Open(ep) /\ Disconnect(Touched(ep), pl, {ep})
              \/ /\ ~Open(ep)
                 /\ sessions' = Touched(ep)
                 /\ players' = pl
                 /\ ghosts' = GhostsWith(ep)
                 /\ UNCHANGED tab
           /\ irregular' = (irregular \/ Clashes(ep, name))
  BY DEF LoginRefused
<1>2. InState(ep, "Connected") /\ UNCHANGED <<phase, banned>> /\ kicked' = {ep}
  BY DEF LoginRefused, Arrives
<1> DEFINE v == [PlayerOf(ep) EXCEPT !.name = name]
           pl == Put(players, ep, v)
<1>3. v \in Players
  <2>1. PlayerOf(ep) \in Players
    BY PlayerOfIs DEF LifecycleInv, TablesOK
  <2>2. name \in Names \cup {NoName}
    BY <2>1 DEF Players, LifecycleInv, TablesOK
  <2> QED
    BY <2>1, <2>2 DEF Players
<1> HIDE DEF v
<1>4. irregular' \in BOOLEAN
  BY <1>1 DEF LifecycleInv, TablesOK, Clashes
<1>5. CASE ~Open(ep)
  <2>1. /\ sessions' = Touched(ep) /\ players' = Put(players, ep, v)
        /\ ghosts' = GhostsWith(ep) /\ UNCHANGED tab
    BY <1>1, <1>5 DEF v
  <2>2. TabOK(tab')
    BY <2>1 DEF LifecycleInv, TablesOK
  <2> QED
    BY <1>2, <1>3, <1>4, <2>1, <2>2, GameStep
<1>6. CASE Open(ep)
  <2>1. Disconnect(Touched(ep), pl, {ep})
    BY <1>1, <1>6 DEF v
  <2>2. DOMAIN pl = DOMAIN players \cup {ep}
    BY DEF Put
  <2>3. PlayersOK(pl)
    BY <1>3, <2>2 DEF LifecycleInv, TablesOK, PlayersOK, Put
  <2>4. SessionsOK(Touched(ep)) /\ SameAs(Touched(ep)) /\ ep \in DOMAIN sessions
    BY <1>2, TouchedIs DEF LifecycleInv, TablesOK, InState
  <2>5. banned' \subseteq Names
    BY <1>2 DEF LifecycleInv, TablesOK
  <2> HIDE DEF pl
  <2> QED
    BY <1>2, <1>4, <1>6, <2>1, <2>2, <2>3, <2>4, <2>5, DisconnectStep
<1> QED
  BY <1>5, <1>6

\* CLIENT_DISCONNECT.
LEMMA ClientDisconnectStep ==
  ASSUME LifecycleInv, NEW ep \in Endpoints, ClientDisconnect(ep)
  PROVE  LifecycleInv'
<1>1. /\ UNCHANGED <<phase, banned, irregular>> /\ kicked' = {}
      /\ Disconnect(Touched(ep), players, {ep}) /\ ep \in DOMAIN sessions
  BY DEF ClientDisconnect, Arrives, InState
<1>2. SessionsOK(Touched(ep)) /\ SameAs(Touched(ep))
  BY TouchedIs DEF LifecycleInv, TablesOK
<1> QED
  BY <1>1, <1>2, DisconnectStep DEF LifecycleInv, TablesOK

\* kickPlayer(), from whatever command.
LEMMA KickStep ==
  ASSUME LifecycleInv, NEW ep \in Endpoints, Kick(ep), banned' \subseteq Names
  PROVE  LifecycleInv'
<1>1. /\ UNCHANGED <<phase, irregular>> /\ kicked' = {ep}
      /\ Disconnect(sessions, players, {ep})
  BY DEF Kick
<1>2. SameAs(sessions)
  BY DEF SameAs
<1> QED
  BY <1>1, <1>2, DisconnectStep DEF LifecycleInv, TablesOK

LEMMA CommandStep ==
  ASSUME LifecycleInv, NEW name \in Names,
         KickCommand(name) \/ BanCommand(name) \/ UnbanCommand(name)
  PROVE  LifecycleInv'
<1>1. banned' \subseteq Names
  BY DEF KickCommand, BanCommand, UnbanCommand, LifecycleInv, TablesOK
<1>2. CASE \E ep \in DOMAIN players : Kick(ep)
  <2>1. PICK ep \in DOMAIN players : Kick(ep)
    BY <1>2
  <2>2. ep \in Endpoints
    BY DEF LifecycleInv, TablesOK, PlayersOK
  <2> QED
    BY <1>1, <2>1, <2>2, KickStep
<1>3. CASE /\ UNCHANGED <<phase, sessions, players, tab, ghosts, irregular>>
           /\ kicked' = {}
  BY <1>1, <1>3 DEF LifecycleInv, TablesOK, PlayersHaveSessions, Open
<1> QED
  BY <1>2, <1>3 DEF KickCommand, BanCommand, UnbanCommand

\* The end of SessionManager::tick().
LEMMA EndTickStep ==
  ASSUME LifecycleInv, EndTick
  PROVE  LifecycleInv'
<1> USE DEF LifecycleInv, TablesOK
<1> DEFINE kept == {e \in DOMAIN sessions : Open(e)} \ TimedOut
           gone == Removed(players, TimedOut)
<1>1. /\ sessions' = [e \in kept |-> [sessions[e] EXCEPT !.active = FALSE]]
      /\ players' = Without(players, gone)
      /\ tab' = TabWithout(players, gone)
      /\ ghosts' = ghosts \ gone
      /\ kicked' = {} /\ phase' = "idle" /\ UNCHANGED <<banned, irregular>>
  BY DEF EndTick
<1>2. gone = TimedOut \cap DOMAIN players /\ TimedOut \subseteq DOMAIN sessions
  BY DEF Removed, TimedOut
<1>3. kept \subseteq DOMAIN sessions /\ \A e \in kept : Open(e) /\ e \notin TimedOut
  OBVIOUS
<1>4. \A e \in DOMAIN sessions : Open(e) /\ e \notin TimedOut => e \in kept
  OBVIOUS
<1> HIDE DEF gone, kept
<1>5. DOMAIN players' = DOMAIN players \ gone
      /\ \A e \in DOMAIN players' : players'[e] = players[e]
  BY <1>1 DEF Without, Restrict
<1>6. DOMAIN sessions' = kept
  BY <1>1
<1>7. \A s \in Sessions :
        LET n == [s EXCEPT !.active = FALSE]
        IN  n \in Sessions /\ n.state = s.state /\ n.closed = s.closed /\ n.closes = s.closes
  BY DEF Sessions
<1>8. \A e \in kept : /\ sessions'[e] \in Sessions
                      /\ sessions'[e].state = sessions[e].state
                      /\ sessions'[e].closed = sessions[e].closed
                      /\ sessions'[e].closes = sessions[e].closes
  BY <1>1, <1>3, <1>7 DEF SessionsOK
<1>9. SessionsOK(sessions')
  BY <1>3, <1>6, <1>8 DEF SessionsOK
<1>10. PlayersOK(players') /\ TabOK(tab')
  BY <1>1, <1>5, TabWithoutIs DEF PlayersOK
<1>11. PlayersHaveSessions'
  BY <1>1, <1>2, <1>3, <1>4, <1>5, <1>6, <1>8 DEF PlayersHaveSessions, Open
<1> QED
  BY <1>1, <1>9, <1>10, <1>11

\* Time passes.
LEMMA PassStep ==
  ASSUME LifecycleInv, Pass
  PROVE  LifecycleInv'
<1> USE DEF LifecycleInv, TablesOK
<1>1. /\ UNCHANGED <<phase, players, banned, tab, ghosts, irregular>> /\ kicked' = {}
      /\ DOMAIN sessions' = DOMAIN sessions
      /\ \A e \in DOMAIN sessions :
           sessions'[e] = [sessions[e] EXCEPT
             !.quiet = IF sessions[e].quiet > Timeout THEN sessions[e].quiet
                       ELSE sessions[e].quiet + 1]
  BY DEF Pass
<1>2. \A s \in Sessions :
        LET q == IF s.quiet > Timeout THEN s.quiet ELSE s.quiet + 1
            n == [s EXCEPT !.quiet = q]
        IN  n \in Sessions /\ n.state = s.state /\ n.closed = s.closed /\ n.closes = s.closes
  <2> TAKE s \in Sessions
  <2>1. s.quiet \in 0 .. (Timeout + 1)
    BY DEF Sessions
  <2> DEFINE q == IF s.quiet > Timeout THEN s.quiet ELSE s.quiet + 1
  <2>2. q \in 0 .. (Timeout + 1)
    BY <2>1
  <2> HIDE DEF q
  <2>3. LET n == [s EXCEPT !.quiet = q]
        IN  n \in Sessions /\ n.state = s.state /\ n.closed = s.closed /\ n.closes = s.closes
    BY <2>2 DEF Sessions
  <2> QED
    BY <2>3 DEF q
<1>3. \A e \in DOMAIN sessions : /\ sessions'[e] \in Sessions
                                 /\ sessions'[e].state = sessions[e].state
                                 /\ sessions'[e].closed = sessions[e].closed
                                 /\ sessions'[e].closes = sessions[e].closes
  BY <1>1, <1>2 DEF SessionsOK
<1>4. SessionsOK(sessions')
  BY <1>1, <1>3 DEF SessionsOK
<1>5. PlayersHaveSessions'
  BY <1>1, <1>3 DEF PlayersHaveSessions, Open
<1> QED
  BY <1>1, <1>4, <1>5

LEMMA InvStep == LifecycleInv /\ [Next]_vars => LifecycleInv'
<1> SUFFICES ASSUME LifecycleInv, [Next]_vars PROVE LifecycleInv'
  OBVIOUS
<1>1. ASSUME NEW ep \in Endpoints, Packet(ep) PROVE LifecycleInv'
  <2>1. CASE Request1(ep) \/ Request2(ep) \/ Chatter(ep)
    BY <2>1, QuietStep
  <2>2. CASE ClientHandshake(ep)
    BY <2>2, HandshakeStep
  <2>3. CASE ClientDisconnect(ep)
    BY <2>3, ClientDisconnectStep
  <2>4. CASE GamePacket(ep)
    <3>1. PlayerOf(ep) \in Players
      BY PlayerOfIs DEF LifecycleInv, TablesOK
    <3> QED
      BY <2>4, <3>1, GameStep DEF GamePacket, Arrives, LifecycleInv, TablesOK
  <2>5. CASE LoginRefused(ep)
    BY <2>5, RefusedStep
  <2>6. CASE \E name \in Names : Login(ep, name)
    BY <2>6, LoginStep
  <2> QED
    BY <1>1, <2>1, <2>2, <2>3, <2>4, <2>5, <2>6 DEF Packet
<1>2. CASE \E name \in Names : KickCommand(name) \/ BanCommand(name) \/ UnbanCommand(name)
  BY <1>2, CommandStep
<1>3. CASE BeginTick
  BY <1>3 DEF BeginTick, LifecycleInv, TablesOK, PlayersHaveSessions, Open
<1>4. CASE EndTick
  BY <1>4, EndTickStep
<1>5. CASE Pass
  BY <1>5, PassStep
<1>6. CASE UNCHANGED vars
  BY <1>6 DEF vars, LifecycleInv, TablesOK, PlayersHaveSessions, Open
<1> QED
  BY <1>1, <1>2, <1>3, <1>4, <1>5, <1>6 DEF Next

THEOREM InvHolds == Spec => []LifecycleInv
  BY InvInit, InvStep, PTL DEF Spec

\* The types of TypeOK hold in every reachable state, of the tables that
\* SessionManager and PlayerManager keep and of what the clients were sent.
THEOREM TypeCorrect == Spec => []TypeOK
<1>1. LifecycleInv => TypeOK
  BY DEF LifecycleInv, TablesOK, SessionsOK, PlayersOK, TabOK, TypeOK
<1> QED
  BY <1>1, InvHolds, PTL

\* Session::disconnect() calls on_close_ once for every session that closes.
THEOREM ClosesOnce == Spec => []ClosedOnce
<1>1. LifecycleInv => ClosedOnce
  BY DEF LifecycleInv, TablesOK, SessionsOK, ClosedOnce
<1> QED
  BY <1>1, InvHolds, PTL

\* The player table follows the session table: no player without an open,
\* connected session, but for the ghosts, and no such session without player.
THEOREM PlayersKeepSessions == Spec => []PlayersHaveSessions
<1>1. LifecycleInv => PlayersHaveSessions
  BY DEF LifecycleInv
<1> QED
  BY <1>1, InvHolds, PTL

(***************************************************************************)
(* Sessions only move forward.                                             *)
(***************************************************************************)
Forward ==
  \A e \in DOMAIN sessions \cap DOMAIN sessions' :
    Rank(sessions'[e].state) >= Rank(sessions[e].state)

LEMMA RankIs ==
  /\ \A s \in States : Rank(s) \in Nat
  /\ Rank("Unconnected") = 0 /\ Rank("Connecting1") = 1
  /\ Rank("Connecting2") = 2 /\ Rank("Connected") = 3
  BY DEF States, Rank

\* A step that moves at most the session of ep, and that one forward.
LEMMA ForwardBut ==
  ASSUME LifecycleInv, NEW ep,
         \A e \in DOMAIN sessions \cap DOMAIN sessions' :
           e # ep => sessions'[e].state = sessions[e].state,
         ep \in DOMAIN sessions =>
           \/ sessions'[ep].state = sessions[ep].state
           \/ /\ sessions[ep].state \in {"Unconnected", "Connecting1"}
              /\ sessions'[ep].state \in {"Connecting1", "Connecting2"}
              /\ sessions'[ep].state = "Connecting1" \/ sessions[ep].state = "Connecting1"
           \/ sessions'[ep].state = "Connected"
  PROVE  Forward
<1>1. \A e \in DOMAIN sessions : sessions[e].state \in States
  BY DEF LifecycleInv, TablesOK, SessionsOK, Sessions
<1>2. \A s \in States : Rank(s) \in Nat /\ Rank(s) <= 3
  BY DEF States, Rank
<1> QED
  BY <1>1, <1>2, RankIs DEF Forward

LEMMA ForwardStep == LifecycleInv /\ [Next]_vars => Forward
<1> SUFFICES ASSUME LifecycleInv, [Next]_vars PROVE Forward
  OBVIOUS
<1>0. SessionsOK(sessions) /\ PlayersOK(players) /\ TabOK(tab) /\ DOMAIN players \subseteq Endpoints
  BY DEF LifecycleInv, TablesOK, PlayersOK
<1>k. ASSUME NEW ep, Kick(ep) PROVE Forward
  <2>1. sessions' = ClosedFlag(sessions, {ep})
    BY <1>k DEF Kick, Disconnect
  <2>2. \A e \in DOMAIN sessions : sessions'[e].state = sessions[e].state
    BY <1>0, <2>1, ClosedFlagIs
  <2> QED
    BY <2>2, ForwardBut
<1>1. ASSUME NEW ep \in Endpoints, Packet(ep) PROVE Forward
  <2>1. CASE Request1(ep)
    <3>1. sessions' = To(ep, "Connecting1") /\ ~InState(ep, "Connecting2") /\ ~InState(ep, "Connected")
      BY <2>1 DEF Request1
    <3>2. ep \in DOMAIN sessions => sessions[ep].state \in {"Unconnected", "Connecting1"}
      BY <1>0, <3>1 DEF SessionsOK, Sessions, States, InState
    <3>3. /\ ep \in DOMAIN To(ep, "Connecting1") /\ To(ep, "Connecting1")[ep].state = "Connecting1"
          /\ \A e \in DOMAIN sessions : e # ep => To(ep, "Connecting1")[e].state = sessions[e].state
      BY <1>0, ToIs DEF States
    <3> QED
      BY <3>1, <3>2, <3>3, ForwardBut
  <2>2. CASE Request2(ep)
    <3>1. sessions' = To(ep, "Connecting2") /\ InState(ep, "Connecting1")
      BY <2>2 DEF Request2
    <3>2. /\ ep \in DOMAIN To(ep, "Connecting2") /\ To(ep, "Connecting2")[ep].state = "Connecting2"
          /\ \A e \in DOMAIN sessions : e # ep => To(ep, "Connecting2")[e].state = sessions[e].state
      BY <1>0, ToIs DEF States
    <3> QED
      BY <3>1, <3>2, ForwardBut DEF InState
  <2>3. CASE ClientHandshake(ep)
    <3>1. sessions' = To(ep, "Connected")
      BY <2>3 DEF ClientHandshake
    <3>2. /\ ep \in DOMAIN To(ep, "Connected") /\ To(ep, "Connected")[ep].state = "Connected"
          /\ \A e \in DOMAIN sessions : e # ep => To(ep, "Connected")[e].state = sessions[e].state
      BY <1>0, ToIs DEF States
    <3> QED
      BY <3>1, <3>2, ForwardBut
  <2>4. CASE sessions' = Touched(ep)
    BY <1>0, <2>4, TouchedIs, ForwardBut DEF SameAs
  <2>5. ASSUME NEW pl, PlayersOK(pl), Disconnect(Touched(ep), pl, {ep}) PROVE Forward
    <3>1. SessionsOK(Touched(ep)) /\ SameAs(Touched(ep)) /\ DOMAIN sessions \subseteq DOMAIN Touched(ep)
      BY <1>0, TouchedIs
    <3>2. sessions' = ClosedFlag(Touched(ep), {ep})
      BY <2>5 DEF Disconnect
    <3>3. \A e \in DOMAIN Touched(ep) : sessions'[e].state = Touched(ep)[e].state
      BY <3>1, <3>2, ClosedFlagIs
    <3> QED
      BY <3>1, <3>3, ForwardBut DEF SameAs
  <2>6. CASE ClientDisconnect(ep)
    BY <1>0, <2>5, <2>6 DEF ClientDisconnect
  <2>7. CASE LoginRefused(ep)
    <3>1. PICK name \in banned \cup {PlayerOf(ep).name} :
            \/ sessions' = Touched(ep)
            \/ Disconnect(Touched(ep), Put(players, ep, [PlayerOf(ep) EXCEPT !.name = name]), {ep})
      BY <2>7 DEF LoginRefused
    <3>2. PlayerOf(ep) \in Players
      BY <1>0, PlayerOfIs
    <3>3. [PlayerOf(ep) EXCEPT !.name = name] \in Players
      <4>1. name \in Names \cup {NoName}
        BY <3>2 DEF Players, LifecycleInv, TablesOK
      <4> QED
        BY <3>2, <4>1 DEF Players
    <3>4. PlayersOK(Put(players, ep, [PlayerOf(ep) EXCEPT !.name = name]))
      BY <1>0, <3>3 DEF PlayersOK, Put
    <3> QED
      BY <2>4, <2>5, <3>1, <3>4
  <2> QED
    BY <1>1, <2>1, <2>2, <2>3, <2>4, <2>6, <2>7
       DEF Packet, Chatter, GamePacket, Login, LoginUnchecked
<1>2. ASSUME NEW name \in Names, KickCommand(name) \/ BanCommand(name) \/ UnbanCommand(name)
      PROVE Forward
  BY <1>2, <1>k, ForwardBut DEF KickCommand, BanCommand, UnbanCommand
<1>3. CASE BeginTick \/ UNCHANGED vars
  BY <1>3, ForwardBut DEF BeginTick, vars
<1>4. CASE EndTick
  <2>1. \A e \in DOMAIN sessions' : e \in DOMAIN sessions /\
          sessions'[e] = [sessions[e] EXCEPT !.active = FALSE]
    BY <1>4 DEF EndTick
  <2>2. \A e \in DOMAIN sessions : sessions[e] \in Sessions
    BY <1>0 DEF SessionsOK
  <2>3. \A s \in Sessions : [s EXCEPT !.active = FALSE].state = s.state
    BY DEF Sessions
  <2>4. \A e \in DOMAIN sessions' : sessions'[e].state = sessions[e].state /\ sessions[e].state \in States
    BY <2>1, <2>2, <2>3 DEF Sessions
  <2> QED
    BY <2>4, RankIs DEF Forward
<1>5. CASE Pass
  <2>1. DOMAIN sessions' = DOMAIN sessions /\ \A e \in DOMAIN sessions :
          sessions'[e] = [sessions[e] EXCEPT
             !.quiet = IF sessions[e].quiet > Timeout THEN sessions[e].quiet
                       ELSE sessions[e].quiet + 1]
    BY <1>5 DEF Pass
  <2>2. \A e \in DOMAIN sessions : sessions[e] \in Sessions
    BY <1>0 DEF SessionsOK
  <2>4. ASSUME NEW e \in DOMAIN sessions PROVE sessions'[e].state = sessions[e].state
    <3> DEFINE q == IF sessions[e].quiet > Timeout THEN sessions[e].quiet
                    ELSE sessions[e].quiet + 1
    <3>1. sessions'[e] = [sessions[e] EXCEPT !.quiet = q]
      BY <2>1
    <3> HIDE DEF q
    <3> QED
      BY <2>2, <3>1 DEF Sessions
  <2> QED
    BY <2>1, <2>4, ForwardBut
<1> QED
  BY <1>1, <1>2, <1>3, <1>4, <1>5 DEF Next

\* A session never goes back to an earlier state: an OPEN_CONNECTION_REQUEST_1
\* that is sent again does not undo the handshake.
THEOREM SessionsGoForward == Spec => StateNeverRegresses
<1>1. LifecycleInv /\ [Next]_vars =>
        [\A e \in DOMAIN sessions \cap DOMAIN sessions' :
           Rank(sessions'[e].state) >= Rank(sessions[e].state)]_vars
  BY ForwardStep DEF Forward
<1> QED
  BY <1>1, InvHolds, PTL DEF Spec, StateNeverRegresses

(***************************************************************************)
(* Names.  BannedAreOut is not inductive by itself: /ban kicks the first   *)
(* player of a name, so that it takes the names of the players to be       *)
(* distinct, as they are until the history is irregular; and the player    *)
(* kicked leaves the table unless it is a ghost, by PlayersHaveSessions.   *)
(***************************************************************************)
Distinct ==
  \A a, b \in DOMAIN players :
    a # b /\ players[a].name = players[b].name => players[a].name = NoName

SpawnedAreNamed ==
  \A e \in DOMAIN players : players[e].spawned => players[e].name # NoName

NamesInv ==
  /\ SpawnedAreNamed
  /\ ~irregular => Distinct
  /\ BannedAreOut

\* The players that stay keep their names.
LEMMA NamesKept ==
  ASSUME NamesInv, DOMAIN players' \subseteq DOMAIN players,
         \A e \in DOMAIN players' : /\ players'[e].name = players[e].name
                                    /\ players'[e].spawned = players[e].spawned,
         ghosts \cap DOMAIN players' \subseteq ghosts',
         irregular' = irregular, banned' \subseteq banned
  PROVE  NamesInv'
  BY DEF NamesInv, SpawnedAreNamed, Distinct, BannedAreOut

\* The player of ep is another; it is a ghost or fit to play.
LEMMA NamesPut ==
  ASSUME NamesInv, NEW ep \in Endpoints, NEW v \in Players,
         players' = Put(players, ep, v),
         ghosts \subseteq ghosts', UNCHANGED banned,
         irregular \/ Clashes(ep, v.name) => irregular',
         v.spawned => v.name # NoName,
         ep \in ghosts' \/ ~v.spawned \/ v.name \notin banned
  PROVE  NamesInv'
<1>1. /\ DOMAIN players' = DOMAIN players \cup {ep} /\ players'[ep] = v
      /\ \A x \in DOMAIN players \ {ep} : players'[x] = players[x]
  BY DEF Put
<1>2. SpawnedAreNamed'
  BY <1>1 DEF NamesInv, SpawnedAreNamed
<1>3. ASSUME ~irregular' PROVE Distinct'
  <2>1. ~irregular /\ ~Clashes(ep, v.name) /\ Distinct
    BY <1>3 DEF NamesInv
  <2>2. \A o \in DOMAIN players \ {ep} : players[o].name = v.name => v.name = NoName
    BY <2>1 DEF Clashes
  <2> QED
    BY <1>1, <2>1, <2>2 DEF Distinct
<1>4. BannedAreOut'
  BY <1>1 DEF NamesInv, BannedAreOut
<1> QED
  BY <1>2, <1>3, <1>4 DEF NamesInv

\* kickPlayer(), without a ban.
LEMMA NamesKick ==
  ASSUME LifecycleInv, NamesInv, NEW ep \in Endpoints, Kick(ep), banned' \subseteq banned
  PROVE  NamesInv'
<1>1. Disconnect(sessions, players, {ep}) /\ irregular' = irregular
  BY DEF Kick
<1>2. SessionsOK(sessions) /\ PlayersOK(players) /\ TabOK(tab)
  BY DEF LifecycleInv, TablesOK
<1>3. /\ \A e : e \in DOMAIN players' <=> e \in DOMAIN players /\ ~(e = ep /\ Open(e))
      /\ \A e \in DOMAIN players' : players'[e] = players[e]
      /\ \A e : e \in ghosts' <=> e \in ghosts /\ ~(e = ep /\ e \in DOMAIN players /\ Open(e))
  BY <1>1, <1>2, DisconnectIs
<1>4. ghosts \cap DOMAIN players' \subseteq ghosts'
  BY <1>3
<1> QED
  BY <1>1, <1>3, <1>4, NamesKept

\* /ban.
LEMMA NamesBan ==
  ASSUME LifecycleInv, NamesInv, NEW name \in Names, BanCommand(name)
  PROVE  NamesInv'
<1>1. banned' = banned \cup {name}
  BY DEF BanCommand
<1>2. CASE \A ep \in DOMAIN players : players[ep].name # name
  <2>1. UNCHANGED <<players, ghosts, irregular>>
    BY <1>2 DEF BanCommand
  <2> QED
    BY <1>1, <1>2, <2>1 DEF NamesInv, SpawnedAreNamed, Distinct, BannedAreOut
<1>3. CASE \E ep \in DOMAIN players : players[ep].name = name /\ Kick(ep)
  <2>1. PICK ep \in DOMAIN players : players[ep].name = name /\ Kick(ep)
    BY <1>3
  <2>2. SessionsOK(sessions) /\ PlayersOK(players) /\ TabOK(tab)
    BY DEF LifecycleInv, TablesOK
  <2>3. Disconnect(sessions, players, {ep}) /\ irregular' = irregular
    BY <2>1 DEF Kick
  <2>4. /\ \A e : e \in DOMAIN players' <=> e \in DOMAIN players /\ ~(e = ep /\ Open(e))
        /\ \A e \in DOMAIN players' : players'[e] = players[e]
        /\ \A e : e \in ghosts' <=> e \in ghosts /\ ~(e = ep /\ e \in DOMAIN players /\ Open(e))
    BY <2>2, <2>3, DisconnectIs
  <2>5. name # NoName
    OBVIOUS
  <2>6. ASSUME ~irregular', NEW e \in DOMAIN players' \ ghosts', players'[e].spawned
        PROVE  players'[e].name \notin banned'
    <3>1. e \in DOMAIN players \ ghosts /\ players'[e] = players[e] /\ ~(e = ep /\ Open(e))
      BY <2>4
    <3>2. players[e].name \notin banned
      BY <2>3, <2>6, <3>1 DEF NamesInv, BannedAreOut
    <3>3. e # ep
      BY <3>1 DEF LifecycleInv, PlayersHaveSessions
    <3>4. players[e].name # name
      BY <2>1, <2>3, <2>5, <2>6, <3>1, <3>3 DEF NamesInv, Distinct
    <3> QED
      BY <1>1, <3>1, <3>2, <3>4
  <2>7. SpawnedAreNamed' /\ (~irregular' => Distinct')
    BY <2>3, <2>4 DEF NamesInv, SpawnedAreNamed, Distinct
  <2> QED
    BY <2>6, <2>7 DEF NamesInv, BannedAreOut
<1> QED
  BY <1>2, <1>3 DEF BanCommand

LEMMA NamesPacket ==
  ASSUME LifecycleInv, NamesInv, NEW ep \in Endpoints, Packet(ep)
  PROVE  NamesInv'
<1>0. SessionsOK(sessions) /\ PlayersOK(players) /\ TabOK(tab) /\ banned \subseteq Names
  BY DEF LifecycleInv, TablesOK
<1>1. UNCHANGED banned
  BY DEF Packet, Request1, Request2, Chatter, ClientHandshake, ClientDisconnect, GamePacket,
         LoginRefused, Login, LoginUnchecked, Arrives
<1>2. ghosts \subseteq GhostsWith(ep)
  BY DEF GhostsWith
<1>p. /\ PlayerOf(ep) \in Players
      /\ ep \in DOMAIN players => PlayerOf(ep) = players[ep]
      /\ ep \notin DOMAIN players => PlayerOf(ep).name = NoName /\ ~PlayerOf(ep).spawned
  BY <1>0, PlayerOfIs DEF PlayerOf
<1>own. ASSUME NEW s \in {"Connected", "Playing"},
               players' = Put(players, ep, [PlayerOf(ep) EXCEPT !.state = s]),
               ghosts' = GhostsWith(ep), UNCHANGED irregular
        PROVE  NamesInv'
  <2> DEFINE v == [PlayerOf(ep) EXCEPT !.state = s]
  <2>1. v \in Players /\ v.name = PlayerOf(ep).name /\ v.spawned = PlayerOf(ep).spawned
    BY <1>p DEF Players
  <2>2. players' = Put(players, ep, v)
    BY <1>own
  <2> HIDE DEF v
  <2>3. /\ DOMAIN players' = DOMAIN players \cup {ep} /\ players'[ep] = v
        /\ \A x \in DOMAIN players \ {ep} : players'[x] = players[x]
    BY <2>2 DEF Put
  <2>4. \A x \in DOMAIN players : /\ players'[x].name = players[x].name
                                  /\ players'[x].spawned = players[x].spawned
    BY <1>p, <2>1, <2>3
  <2>5. \A x \in DOMAIN players' \ DOMAIN players :
          players'[x].name = NoName /\ ~players'[x].spawned
    BY <1>p, <2>1, <2>3
  <2>6. DOMAIN players \subseteq DOMAIN players'
    BY <2>3
  <2>7. SpawnedAreNamed'
    BY <2>4, <2>5 DEF NamesInv, SpawnedAreNamed
  <2>8. ASSUME ~irregular' PROVE Distinct'
    <3>1. Distinct
      BY <1>own, <2>8 DEF NamesInv
    <3> QED
      BY <2>4, <2>5, <3>1 DEF Distinct
  <2>9. BannedAreOut'
    BY <1>1, <1>2, <1>own, <2>4, <2>5 DEF NamesInv, BannedAreOut
  <2> QED
    BY <2>7, <2>8, <2>9 DEF NamesInv
<1>3. CASE Request1(ep) \/ Request2(ep) \/ Chatter(ep)
  <2>1. UNCHANGED <<players, ghosts, irregular>>
    BY <1>3 DEF Request1, Request2, Chatter, Quiet
  <2> QED
    BY <1>1, <2>1, NamesKept
<1>4. CASE ClientHandshake(ep)
  <2>1. [PlayerOf(ep) EXCEPT !.state = "Connected"] =
          IF ep \in DOMAIN players THEN [players[ep] EXCEPT !.state = "Connected"]
          ELSE [name |-> NoName, state |-> "Connected", spawned |-> FALSE]
    <3>1. CASE ep \in DOMAIN players
      BY <3>1 DEF PlayerOf
    <3>2. CASE ep \notin DOMAIN players
      <4>1. PlayerOf(ep) = [name |-> NoName, state |-> "Connected", spawned |-> FALSE]
        BY <3>2 DEF PlayerOf
      <4>2. PlayerOf(ep).state = "Connected"
        BY <4>1
      <4>3. [PlayerOf(ep) EXCEPT !.state = "Connected"] = PlayerOf(ep)
        BY <1>p, <4>2 DEF Players
      <4> QED
        BY <3>2, <4>1, <4>3
    <3> QED
      BY <3>1, <3>2
  <2>2. /\ players' = Put(players, ep, [PlayerOf(ep) EXCEPT !.state = "Connected"])
        /\ ghosts' = GhostsWith(ep) /\ UNCHANGED irregular
    BY <1>4, <2>1 DEF ClientHandshake
  <2> QED
    BY <1>own, <2>2
<1>5. CASE ClientDisconnect(ep)
  <2>1. Disconnect(Touched(ep), players, {ep}) /\ irregular' = irregular
    BY <1>5 DEF ClientDisconnect
  <2>2. SessionsOK(Touched(ep))
    BY <1>0, TouchedIs
  <2>3. /\ \A e : e \in DOMAIN players' <=> e \in DOMAIN players /\ ~(e = ep /\ Open(e))
        /\ \A e \in DOMAIN players' : players'[e] = players[e]
        /\ \A e : e \in ghosts' <=> e \in ghosts /\ ~(e = ep /\ e \in DOMAIN players /\ Open(e))
    BY <1>0, <2>1, <2>2, DisconnectIs
  <2>4. ghosts \cap DOMAIN players' \subseteq ghosts'
    BY <2>3
  <2> QED
    BY <1>1, <2>1, <2>3, <2>4, NamesKept
<1>6. CASE GamePacket(ep)
  <2>1. players' = Put(players, ep, PlayerOf(ep)) /\ ghosts' = GhostsWith(ep) /\ UNCHANGED irregular
    BY <1>6 DEF GamePacket
  <2>2. PlayerOf(ep).state \in {"Connected", "Playing"}
        /\ [PlayerOf(ep) EXCEPT !.state = PlayerOf(ep).state] = PlayerOf(ep)
    BY <1>p DEF Players
  <2> QED
    BY <1>own, <2>1, <2>2
<1>7. CASE LoginRefused(ep)
  <2>1. PICK name \in banned \cup {PlayerOf(ep).name} :
        LET pl == Put(players, ep, [PlayerOf(ep) EXCEPT !.name = name])
        IN /\ \/ Open(ep) /\ Disconnect(Touched(ep), pl, {ep})
              \/ /\ ~Open(ep)
                 /\ sessions' = Touched(ep)
                 /\ players' = pl
                 /\ ghosts' = GhostsWith(ep)
                 /\ UNCHANGED tab
           /\ irregular' = (irregular \/ Clashes(ep, name))
    BY <1>7 DEF LoginRefused
  <2> DEFINE v == [PlayerOf(ep) EXCEPT !.name = name]
             pl == Put(players, ep, v)
  <2>2. v \in Players /\ v.name = name /\ v.spawned = PlayerOf(ep).spawned
    <3>1. name \in Names \cup {NoName}
      BY <1>0, <1>p, <2>1 DEF Players
    <3> QED
      BY <1>p, <3>1 DEF Players
  <2>3. v.spawned => v.name # NoName
    <3>1. PlayerOf(ep).spawned => PlayerOf(ep).name # NoName
      BY <1>p DEF NamesInv, SpawnedAreNamed
    <3> QED
      BY <1>0, <2>1, <2>2, <3>1
  <2> HIDE DEF v
  <2>4. CASE ~Open(ep)
    <3>1. /\ players' = Put(players, ep, v) /\ ghosts' = GhostsWith(ep)
          /\ irregular' = (irregular \/ Clashes(ep, v.name))
      BY <2>1, <2>2, <2>4 DEF v
    <3>2. ep \in ghosts'
      BY <2>4, <3>1 DEF GhostsWith
    <3> QED
      BY <1>1, <1>2, <2>2, <2>3, <3>1, <3>2, NamesPut
  <2>5. CASE Open(ep)
    <3>1. Disconnect(Touched(ep), pl, {ep}) /\ irregular' = (irregular \/ Clashes(ep, name))
      BY <2>1, <2>5 DEF v
    <3>2. SessionsOK(Touched(ep))
      BY <1>0, TouchedIs
    <3>3. /\ DOMAIN pl = DOMAIN players \cup {ep}
          /\ \A x \in DOMAIN players \ {ep} : pl[x] = players[x]
          /\ pl[ep] = v
      BY DEF Put
    <3> HIDE DEF pl
    <3>4. PlayersOK(pl)
      BY <1>0, <2>2, <3>3 DEF PlayersOK
    <3>5. /\ \A e : e \in DOMAIN players' <=> e \in DOMAIN pl /\ ~(e = ep /\ Open(e))
          /\ \A e \in DOMAIN players' : players'[e] = pl[e]
          /\ \A e : e \in ghosts' <=> e \in ghosts /\ ~(e = ep /\ e \in DOMAIN pl /\ Open(e))
      BY <1>0, <3>1, <3>2, <3>4, DisconnectIs
    <3>6. /\ DOMAIN players' = DOMAIN players \ {ep}
          /\ \A e \in DOMAIN players' : players'[e] = players[e]
          /\ ghosts \cap DOMAIN players' \subseteq ghosts'
      BY <2>5, <3>3, <3>5
    <3> QED
      BY <1>1, <3>1, <3>6 DEF NamesInv, SpawnedAreNamed, Distinct, BannedAreOut
  <2> QED
    BY <2>4, <2>5
<1>8. ASSUME NEW name \in Names, Login(ep, name) PROVE NamesInv'
  <2> DEFINE v == [name |-> name, state |-> "Playing", spawned |-> TRUE]
  <2>1. /\ players' = Put(players, ep, v) /\ ghosts' = GhostsWith(ep)
        /\ irregular' = (irregular \/ Clashes(ep, name)) /\ name \notin banned
    BY <1>8 DEF Login, LoginUnchecked
  <2>2. v \in Players /\ v.name = name
    BY DEF Players
  <2>3. name # NoName
    OBVIOUS
  <2> HIDE DEF v
  <2> QED
    BY <1>1, <1>2, <2>1, <2>2, <2>3, NamesPut
<1> QED
  BY <1>3, <1>4, <1>5, <1>6, <1>7, <1>8 DEF Packet

LEMMA NamesStep == LifecycleInv /\ NamesInv /\ [Next]_vars => NamesInv'
<1> SUFFICES ASSUME LifecycleInv, NamesInv, [Next]_vars PROVE NamesInv'
  OBVIOUS
<1>1. CASE \E ep \in Endpoints : Packet(ep)
  BY <1>1, NamesPacket
<1>2. ASSUME NEW name \in Names, KickCommand(name) PROVE NamesInv'
  <2>1. PICK ep \in DOMAIN players : Kick(ep)
    BY <1>2 DEF KickCommand
  <2>2. ep \in Endpoints /\ banned' \subseteq banned
    BY <1>2 DEF KickCommand, LifecycleInv, TablesOK, PlayersOK
  <2> QED
    BY <2>1, <2>2, NamesKick
<1>3. CASE \E name \in Names : BanCommand(name)
  BY <1>3, NamesBan
<1>4. CASE \/ \E name \in Names : UnbanCommand(name)
           \/ BeginTick \/ Pass \/ UNCHANGED vars
  BY <1>4, NamesKept DEF UnbanCommand, BeginTick, Pass, vars
<1>5. CASE EndTick
  <2> DEFINE gone == Removed(players, TimedOut)
  <2>1. /\ players' = Without(players, gone) /\ ghosts' = ghosts \ gone
        /\ UNCHANGED <<banned, irregular>>
    BY <1>5 DEF EndTick
  <2> HIDE DEF gone
  <2>2. DOMAIN players' = DOMAIN players \ gone
        /\ \A e \in DOMAIN players' : players'[e] = players[e]
    BY <2>1 DEF Without, Restrict
  <2>3. ghosts \cap DOMAIN players' \subseteq ghosts'
    BY <2>1, <2>2
  <2> QED
    BY <2>1, <2>2, <2>3, NamesKept
<1> QED
  BY <1>1, <1>2, <1>3, <1>4, <1>5 DEF Next

\* Nobody plays under a banned name: neither does handleLogin() let it in, nor
\* does /ban leave its player, unless the name was used twice at once or the
\* session was closed already.
THEOREM BannedStayOut == Spec => []BannedAreOut
<1>1. Init => NamesInv
  <2> SUFFICES ASSUME Init PROVE NamesInv
    OBVIOUS
  <2>1. DOMAIN players = {}
    BY DEF Init
  <2> QED
    BY <2>1 DEF NamesInv, SpawnedAreNamed, Distinct, BannedAreOut
<1>2. NamesInv => BannedAreOut
  BY DEF NamesInv
<1> QED
  BY <1>1, <1>2, InvHolds, NamesStep, PTL DEF Spec

(***************************************************************************)
(* Player lists.  Between the handshake and the login the list of a client *)
(* is empty; from then on it names those that play.                        *)
(***************************************************************************)
ListInv ==
  ~irregular =>
    \A v \in DOMAIN sessions :
      Open(v) /\ sessions[v].state = "Connected" =>
        /\ v \in Listening(sessions, players) => tab[v] = Named(players)
        /\ v \notin Listening(sessions, players) => tab[v] = {}

LEMMA NamedIn ==
  \A pl, n : n \in Named(pl) <=>
    n # NoName /\ \E o \in DOMAIN pl : pl[o].spawned /\ pl[o].name = n
  BY DEF Named

\* Nothing changes for the clients that are connected after the step.
LEMMA ListKept ==
  ASSUME ListInv, irregular' = irregular,
         \A n : n \in Named(players') <=> n \in Named(players),
         \A v \in DOMAIN sessions' :
           ~sessions'[v].closed /\ sessions'[v].state = "Connected" =>
             /\ Open(v) /\ sessions[v].state = "Connected"
             /\ v \in Listening(sessions', players') <=> v \in Listening(sessions, players)
             /\ tab'[v] = tab[v]
  PROVE  ListInv'
<1>1. Named(players') = Named(players)
  OBVIOUS
<1> QED
  BY <1>1 DEF ListInv, Open

\* The players gone leave: the table was pl, which has the others as they are.
LEMMA ListGone ==
  ASSUME LifecycleInv, NamesInv, ListInv, NEW pl, NEW gone,
         players' = Without(pl, gone), tab' = TabWithout(pl, gone),
         irregular' \/ ~irregular,
         gone \subseteq DOMAIN pl,
         DOMAIN players \subseteq DOMAIN pl, DOMAIN pl \ DOMAIN players \subseteq gone,
         \A e \in DOMAIN players \ gone : pl[e] = players[e],
         ~irregular' => \A e \in gone \cap DOMAIN players :
           players[e].spawned => pl[e].spawned /\ pl[e].name = players[e].name,
         ~irregular' => \A e \in gone, o \in DOMAIN players \ gone :
           pl[e].spawned /\ pl[e].name = players[o].name => pl[e].name = NoName,
         \A v \in DOMAIN sessions' :
           ~sessions'[v].closed /\ sessions'[v].state = "Connected" =>
             Open(v) /\ sessions[v].state = "Connected" /\ v \notin gone
  PROVE  ListInv'
<1> SUFFICES ASSUME ~irregular', NEW v \in DOMAIN sessions',
                    ~sessions'[v].closed, sessions'[v].state = "Connected"
             PROVE  /\ v \in Listening(sessions', players') => tab'[v] = Named(players')
                    /\ v \notin Listening(sessions', players') => tab'[v] = {}
  BY DEF ListInv, Open
<1>1. Open(v) /\ sessions[v].state = "Connected" /\ v \notin gone /\ v \in DOMAIN players
  BY DEF LifecycleInv, PlayersHaveSessions, Open
<1>2. v \in Endpoints
  BY <1>1 DEF LifecycleInv, TablesOK, PlayersOK
<1>3. /\ DOMAIN players' = DOMAIN players \ gone
      /\ \A e \in DOMAIN players \ gone : players'[e] = players[e]
  BY DEF Without, Restrict
<1>4. /\ v \in Listening(sessions, Without(pl, gone)) <=> v \in Listening(sessions, players)
      /\ v \in Listening(sessions', players') <=> v \in Listening(sessions, players)
  <2>1. v \in Listening(sessions, players') <=> v \in Listening(sessions, players)
    BY <1>1, <1>3 DEF Listening
  <2>2. v \in Listening(sessions', players') <=> v \in Listening(sessions, players)
    BY <1>1, <1>3 DEF Listening, Open
  <2> QED
    BY <2>1, <2>2
<1> DEFINE left == Named(Restrict(pl, gone))
<1>5. tab'[v] = IF v \in Listening(sessions, Without(pl, gone)) THEN tab[v] \ left ELSE tab[v]
  BY <1>2 DEF TabWithout
<1>6. \A n : n \in left <=> n # NoName /\ \E o \in gone : pl[o].spawned /\ pl[o].name = n
  <2>1. \A n : n \in left <=>
          n # NoName /\ \E o \in DOMAIN Restrict(pl, gone) :
            Restrict(pl, gone)[o].spawned /\ Restrict(pl, gone)[o].name = n
    BY NamedIn
  <2>2. DOMAIN Restrict(pl, gone) = gone /\ \A o \in gone : Restrict(pl, gone)[o] = pl[o]
    BY DEF Restrict
  <2> HIDE DEF left
  <2> QED
    BY <2>1, <2>2
<1> HIDE DEF left
<1>7. Named(players') = Named(players) \ left
  <2>1. ASSUME NEW n, n \in Named(players') PROVE n \in Named(players) /\ n \notin left
    <3>1. PICK o \in DOMAIN players' : players'[o].spawned /\ players'[o].name = n
      BY <2>1, NamedIn
    <3>2. n # NoName
      BY <2>1, NamedIn
    <3>3. o \in DOMAIN players \ gone /\ players[o].spawned /\ players[o].name = n
      BY <1>3, <3>1
    <3>4. n \in Named(players)
      BY <3>2, <3>3, NamedIn
    <3>5. n \notin left
      BY <1>6, <3>2, <3>3
    <3> QED
      BY <3>4, <3>5
  <2>2. ASSUME NEW n, n \in Named(players), n \notin left PROVE n \in Named(players')
    <3>1. n # NoName /\ \E o \in DOMAIN players : players[o].spawned /\ players[o].name = n
      BY <2>2, NamedIn
    <3>2. PICK o \in DOMAIN players : players[o].spawned /\ players[o].name = n
      BY <3>1
    <3>3. o \notin gone
      BY <1>6, <2>2, <3>1, <3>2
    <3>4. o \in DOMAIN players' /\ players'[o].spawned /\ players'[o].name = n
      BY <1>3, <3>2, <3>3
    <3> QED
      BY <3>1, <3>4, NamedIn
  <2> QED
    BY <2>1, <2>2
<1>8. /\ v \in Listening(sessions, players) => tab[v] = Named(players)
      /\ v \notin Listening(sessions, players) => tab[v] = {}
  BY <1>1 DEF ListInv, Open
<1> QED
  BY <1>4, <1>5, <1>7, <1>8

\* The session of ep is disconnected.
LEMMA ListDisconnect ==
  ASSUME LifecycleInv, NamesInv, ListInv, NEW ep \in Endpoints,
         NEW ss, SessionsOK(ss), SameAs(ss), DOMAIN ss = DOMAIN sessions,
         Disconnect(ss, players, {ep}), irregular' = irregular
  PROVE  ListInv'
<1> DEFINE gone == Removed(players, {ep})
<1>1. /\ sessions' = ClosedFlag(ss, {ep}) /\ players' = Without(players, gone)
      /\ tab' = TabWithout(players, gone)
  BY DEF Disconnect
<1>2. \A e : e \in gone <=> e = ep /\ e \in DOMAIN players /\ Open(ep)
  BY DEF Removed
<1> HIDE DEF gone
<1>3. DOMAIN sessions' = DOMAIN sessions /\ \A e \in DOMAIN sessions :
        /\ sessions'[e].state = sessions[e].state
        /\ sessions'[e].closed = (sessions[e].closed \/ e = ep)
  <2>1. DOMAIN sessions' = DOMAIN ss /\ \A e \in DOMAIN ss :
          /\ sessions'[e].state = ss[e].state
          /\ sessions'[e].closed = (ss[e].closed \/ e \in {ep})
    BY <1>1, ClosedFlagIs
  <2> QED
    BY <2>1 DEF SameAs
<1>4. \A v \in DOMAIN sessions' :
        ~sessions'[v].closed /\ sessions'[v].state = "Connected" =>
          Open(v) /\ sessions[v].state = "Connected" /\ v \notin gone
  BY <1>2, <1>3 DEF Open
<1>5. ~irregular' => \A e \in gone, o \in DOMAIN players \ gone :
        players[e].spawned /\ players[e].name = players[o].name => players[e].name = NoName
  BY <1>2 DEF NamesInv, Distinct
<1>6. gone \subseteq DOMAIN players
  BY <1>2
<1>7. irregular' \/ ~irregular
  BY DEF LifecycleInv, TablesOK
<1> QED
  BY <1>1, <1>4, <1>5, <1>6, <1>7, ListGone

LEMMA ListKick ==
  ASSUME LifecycleInv, NamesInv, ListInv, NEW ep \in Endpoints, Kick(ep)
  PROVE  ListInv'
<1>1. SessionsOK(sessions) /\ SameAs(sessions)
  BY DEF LifecycleInv, TablesOK, SameAs
<1> QED
  BY <1>1, ListDisconnect DEF Kick

\* A login that is let in.
LEMMA ListLogin ==
  ASSUME LifecycleInv, NamesInv, ListInv, NEW ep \in Endpoints, NEW name \in Names,
         Login(ep, name)
  PROVE  ListInv'
<1> DEFINE v == [name |-> name, state |-> "Playing", spawned |-> TRUE]
           others == Named(Without(players, {ep}))
<1>1. /\ InState(ep, "Connected") /\ sessions' = Touched(ep)
      /\ players' = Put(players, ep, v)
      /\ irregular' = (irregular \/ Clashes(ep, name))
      /\ tab' = [w \in Endpoints |->
               IF w = ep /\ Open(ep) THEN tab[ep] \cup others \cup {name}
               ELSE IF w \in Listening(sessions, players) THEN tab[w] \cup {name}
               ELSE tab[w]]
  BY DEF Login, LoginUnchecked
<1>2. v.name = name /\ v.spawned /\ v.state = "Playing"
  OBVIOUS
<1> HIDE DEF v
<1>3. /\ DOMAIN players' = DOMAIN players \cup {ep} /\ players'[ep] = v
      /\ \A x \in DOMAIN players \ {ep} : players'[x] = players[x]
  BY <1>1 DEF Put
<1>4. /\ DOMAIN sessions' = DOMAIN sessions
      /\ \A e \in DOMAIN sessions : /\ sessions'[e].closed = sessions[e].closed
                                    /\ sessions'[e].state = sessions[e].state
  BY <1>1, TouchedIs DEF LifecycleInv, TablesOK, InState, SameAs
<1>5. name # NoName
  OBVIOUS
<1> SUFFICES ASSUME ~irregular', NEW w \in DOMAIN sessions',
                    Open(w), sessions[w].state = "Connected"
             PROVE  /\ w \in Listening(sessions', players') => tab'[w] = Named(players')
                    /\ w \notin Listening(sessions', players') => tab'[w] = {}
  BY <1>4 DEF ListInv, Open
<1>6. ~irregular /\ ~Clashes(ep, name)
  BY <1>1
<1>7. w \in DOMAIN players /\ w \in Endpoints
  <2>1. w \in DOMAIN players
    BY <1>4 DEF LifecycleInv, PlayersHaveSessions
  <2> QED
    BY <2>1 DEF LifecycleInv, TablesOK, PlayersOK
<1>8. /\ w \in Listening(sessions, players) => tab[w] = Named(players)
      /\ w \notin Listening(sessions, players) => tab[w] = {}
  BY <1>4, <1>6 DEF ListInv
<1>9. \A n : n \in others <=>
        n # NoName /\ \E o \in DOMAIN players \ {ep} : players[o].spawned /\ players[o].name = n
  <2>1. \A n : n \in others <=>
          n # NoName /\ \E o \in DOMAIN Without(players, {ep}) :
            Without(players, {ep})[o].spawned /\ Without(players, {ep})[o].name = n
    BY NamedIn
  <2>2. DOMAIN Without(players, {ep}) = DOMAIN players \ {ep}
        /\ \A o \in DOMAIN players \ {ep} : Without(players, {ep})[o] = players[o]
    BY DEF Without, Restrict
  <2> HIDE DEF others
  <2> QED
    BY <2>1, <2>2
<1> HIDE DEF others
<1>10. Named(players') = others \cup {name}
  <2>1. ASSUME NEW n PROVE n \in Named(players') <=> n \in others \/ n = name
    <3>1. n \in Named(players') <=>
            n # NoName /\ \E o \in DOMAIN players' : players'[o].spawned /\ players'[o].name = n
      BY NamedIn
    <3>2. (\E o \in DOMAIN players' : players'[o].spawned /\ players'[o].name = n)
            <=> \/ n = name
                \/ \E o \in DOMAIN players \ {ep} : players[o].spawned /\ players[o].name = n
      BY <1>2, <1>3
    <3> QED
      BY <1>5, <1>9, <3>1, <3>2
  <2> QED
    BY <2>1
<1>11. Named(players) \cup {name} = others \cup {name}
  <2>1. ASSUME NEW n PROVE n \in Named(players) \/ n = name <=> n \in others \/ n = name
    <3>1. n \in Named(players) <=>
            n # NoName /\ \E o \in DOMAIN players : players[o].spawned /\ players[o].name = n
      BY NamedIn
    <3>2. ep \in DOMAIN players => players[ep].name \in {NoName, name}
      BY <1>5, <1>6 DEF Clashes, PlayerOf
    <3> QED
      BY <1>9, <3>1, <3>2
  <2> QED
    BY <2>1
<1>12. CASE w = ep
  <2>1. tab'[w] = tab[ep] \cup others \cup {name}
    BY <1>1, <1>7, <1>12
  <2>2. w \in Listening(sessions', players')
    BY <1>2, <1>3, <1>4, <1>12 DEF Listening, Open
  <2> QED
    BY <1>8, <1>10, <1>11, <1>12, <2>1, <2>2
<1>13. CASE w # ep
  <2>1. w \in Listening(sessions', players') <=> w \in Listening(sessions, players)
    BY <1>3, <1>4, <1>7, <1>13 DEF Listening, Open
  <2>2. tab'[w] = IF w \in Listening(sessions, players) THEN tab[w] \cup {name} ELSE tab[w]
    BY <1>1, <1>7, <1>13
  <2> QED
    BY <1>8, <1>10, <1>11, <2>1, <2>2
<1> QED
  BY <1>12, <1>13

\* CLIENT_HANDSHAKE: the list starts empty.
LEMMA ListHandshake ==
  ASSUME LifecycleInv, ListInv, NEW ep \in Endpoints, ClientHandshake(ep)
  PROVE  ListInv'
<1>1. /\ sessions' = To(ep, "Connected") /\ InState(ep, "Connecting2")
      /\ irregular' = irregular /\ tab' = [tab EXCEPT ![ep] = {}]
  BY DEF ClientHandshake
<1>2. /\ DOMAIN sessions' = DOMAIN sessions
      /\ \A e \in DOMAIN sessions :
           /\ sessions'[e].closed = sessions[e].closed
           /\ e # ep => sessions'[e].state = sessions[e].state
  BY <1>1, ToIs DEF LifecycleInv, TablesOK, InState, States
<1>3. PICK v : /\ v.state = "Connected" /\ players' = Put(players, ep, v)
               /\ ep \in DOMAIN players =>
                    v.name = players[ep].name /\ v.spawned = players[ep].spawned
               /\ ep \notin DOMAIN players => v.name = NoName
  <2>1. CASE ep \in DOMAIN players
    <3> DEFINE r == [players[ep] EXCEPT !.state = "Connected"]
    <3>1. players' = Put(players, ep, r)
      BY <2>1 DEF ClientHandshake
    <3>2. players[ep] \in Players
      BY <2>1 DEF LifecycleInv, TablesOK, PlayersOK
    <3>3. r.state = "Connected" /\ r.name = players[ep].name /\ r.spawned = players[ep].spawned
      BY <3>2 DEF Players
    <3> HIDE DEF r
    <3> QED
      BY <2>1, <3>1, <3>3
  <2>2. CASE ep \notin DOMAIN players
    <3> DEFINE r == [name |-> NoName, state |-> "Connected", spawned |-> FALSE]
    <3>1. players' = Put(players, ep, r)
      BY <2>2 DEF ClientHandshake
    <3>2. r.state = "Connected" /\ r.name = NoName
      OBVIOUS
    <3> HIDE DEF r
    <3> QED
      BY <2>2, <3>1, <3>2
  <2> QED
    BY <2>1, <2>2
<1>4. /\ DOMAIN players' = DOMAIN players \cup {ep} /\ players'[ep] = v
      /\ \A x \in DOMAIN players \ {ep} : players'[x] = players[x]
  BY <1>3 DEF Put
<1>5. Named(players') = Named(players)
  <2>1. ASSUME NEW n, n # NoName
        PROVE  (\E o \in DOMAIN players' : players'[o].spawned /\ players'[o].name = n)
                 <=> (\E o \in DOMAIN players : players[o].spawned /\ players[o].name = n)
    BY <1>3, <1>4, <2>1
  <2>2. \A n : n \in Named(players') <=> n \in Named(players)
    BY <2>1, NamedIn
  <2> QED
    BY <2>2
<1>6. tab \in [Endpoints -> SUBSET Names]
  BY DEF LifecycleInv, TablesOK, TabOK
<1> SUFFICES ASSUME ~irregular', NEW w \in DOMAIN sessions',
                    Open(w), sessions'[w].state = "Connected"
             PROVE  /\ w \in Listening(sessions', players') => tab'[w] = Named(players')
                    /\ w \notin Listening(sessions', players') => tab'[w] = {}
  BY <1>2 DEF ListInv, Open
<1>7. CASE w = ep
  <2>1. w \notin Listening(sessions', players')
    BY <1>3, <1>4, <1>7 DEF Listening
  <2> QED
    BY <1>1, <1>6, <1>7, <2>1
<1>8. CASE w # ep
  <2>1. w \in Listening(sessions', players') <=> w \in Listening(sessions, players)
    BY <1>2, <1>4, <1>8 DEF Listening, Open
  <2>2. tab'[w] = tab[w] /\ sessions[w].state = "Connected" /\ w \in DOMAIN sessions
    BY <1>1, <1>2, <1>6, <1>8
  <2> QED
    BY <1>1, <1>5, <2>1, <2>2 DEF ListInv
<1> QED
  BY <1>7, <1>8

\* A login that is refused.
LEMMA ListRefused ==
  ASSUME LifecycleInv, NamesInv, ListInv, NEW ep \in Endpoints, LoginRefused(ep)
  PROVE  ListInv'
<1>0. SessionsOK(sessions) /\ PlayersOK(players) /\ banned \subseteq Names
  BY DEF LifecycleInv, TablesOK
<1>1. PICK name \in banned \cup {PlayerOf(ep).name} :
        LET pl == Put(players, ep, [PlayerOf(ep) EXCEPT !.name = name])
        IN /\ \/ Open(ep) /\ Disconnect(Touched(ep), pl, {ep})
              \/ /\ ~Open(ep)
                 /\ sessions' = Touched(ep)
                 /\ players' = pl
                 /\ ghosts' = GhostsWith(ep)
                 /\ UNCHANGED tab
           /\ irregular' = (irregular \/ Clashes(ep, name))
  BY DEF LoginRefused
<1> DEFINE v == [PlayerOf(ep) EXCEPT !.name = name]
           pl == Put(players, ep, v)
<1>2. v.name = name /\ v.spawned = PlayerOf(ep).spawned
  <2>1. PlayerOf(ep) \in Players
    BY <1>0, PlayerOfIs
  <2> QED
    BY <2>1 DEF Players
<1>3. /\ DOMAIN pl = DOMAIN players \cup {ep} /\ pl[ep] = v
      /\ \A x \in DOMAIN players \ {ep} : pl[x] = players[x]
  BY DEF Put
<1>4. InState(ep, "Connected")
  BY DEF LoginRefused
<1>5. /\ ep \in DOMAIN players => v.spawned = players[ep].spawned
      /\ ep \notin DOMAIN players => ~v.spawned
  BY <1>2 DEF PlayerOf
<1>6. ASSUME ~irregular' PROVE /\ \A o \in DOMAIN players \ {ep} : players[o].name = name => name = NoName
                               /\ ep \in DOMAIN players /\ players[ep].spawned => players[ep].name = name
  <2>1. ~Clashes(ep, name) /\ ~irregular
    BY <1>1, <1>6
  <2>2. \A o \in DOMAIN players \ {ep} : players[o].name = name => name = NoName
    BY <2>1 DEF Clashes
  <2>3. ASSUME ep \in DOMAIN players, players[ep].spawned PROVE players[ep].name = name
    <3>1. PlayerOf(ep) = players[ep] /\ players[ep].name # NoName
      BY <2>3 DEF PlayerOf, NamesInv, SpawnedAreNamed
    <3>2. name # NoName
      BY <1>0, <1>1, <3>1
    <3> QED
      BY <2>1, <3>1, <3>2 DEF Clashes
  <2> QED
    BY <2>2, <2>3
<1>7. irregular' \/ ~irregular
  BY <1>1
<1>8. CASE Open(ep)
  <2> DEFINE gone == Removed(pl, {ep})
  <2>1. /\ sessions' = ClosedFlag(Touched(ep), {ep}) /\ players' = Without(pl, gone)
        /\ tab' = TabWithout(pl, gone)
    BY <1>1, <1>8 DEF Disconnect
  <2>2. gone = {ep}
    BY <1>3, <1>8 DEF Removed
  <2> HIDE DEF gone, pl, v
  <2>3. SessionsOK(Touched(ep)) /\ SameAs(Touched(ep)) /\ DOMAIN Touched(ep) = DOMAIN sessions
    BY <1>0, <1>4, TouchedIs DEF InState
  <2>4. DOMAIN sessions' = DOMAIN Touched(ep) /\ \A e \in DOMAIN Touched(ep) :
          /\ sessions'[e].state = Touched(ep)[e].state
          /\ sessions'[e].closed = (Touched(ep)[e].closed \/ e \in {ep})
    BY <2>1, <2>3, ClosedFlagIs
  <2>5. \A u \in DOMAIN sessions' :
          ~sessions'[u].closed /\ sessions'[u].state = "Connected" =>
            Open(u) /\ sessions[u].state = "Connected" /\ u \notin gone
    BY <2>2, <2>3, <2>4 DEF SameAs, Open
  <2>6. gone \subseteq DOMAIN pl /\ DOMAIN players \subseteq DOMAIN pl
        /\ DOMAIN pl \ DOMAIN players \subseteq gone
        /\ \A e \in DOMAIN players \ gone : pl[e] = players[e]
    BY <1>3, <2>2
  <2>7. ~irregular' => \A e \in gone \cap DOMAIN players :
           players[e].spawned => pl[e].spawned /\ pl[e].name = players[e].name
    BY <1>2, <1>3, <1>5, <1>6, <2>2
  <2>8. ~irregular' => \A e \in gone, o \in DOMAIN players \ gone :
           pl[e].spawned /\ pl[e].name = players[o].name => pl[e].name = NoName
    BY <1>2, <1>3, <1>6, <2>2
  <2> QED
    BY <1>7, <2>1, <2>5, <2>6, <2>7, <2>8, ListGone
<1>9. CASE ~Open(ep)
  <2>1. sessions' = Touched(ep) /\ players' = pl /\ UNCHANGED tab
    BY <1>1, <1>9
  <2> HIDE DEF pl, v
  <2> SUFFICES ASSUME ~irregular' PROVE ListInv'
    BY DEF ListInv
  <2>2. irregular' = irregular
    <3>1. irregular \in BOOLEAN
      BY DEF LifecycleInv, TablesOK
    <3>2. irregular' = FALSE /\ irregular = FALSE
      BY <1>1, <3>1 DEF Clashes
    <3> QED
      BY <3>2
  <2>3. \A u \in DOMAIN sessions' :
          u \in DOMAIN sessions /\ sessions'[u].closed = sessions[u].closed
          /\ sessions'[u].state = sessions[u].state
    <3>1. DOMAIN Touched(ep) = DOMAIN sessions \cup {ep} /\ SameAs(Touched(ep))
      BY <1>0, TouchedIs
    <3> QED
      BY <1>4, <2>1, <3>1 DEF SameAs, InState
  <2>4. \A u \in DOMAIN sessions' :
          ~sessions'[u].closed /\ sessions'[u].state = "Connected" =>
            /\ Open(u) /\ sessions[u].state = "Connected"
            /\ u \in Listening(sessions', players') <=> u \in Listening(sessions, players)
            /\ tab'[u] = tab[u]
    BY <1>3, <1>9, <2>1, <2>3 DEF Listening, Open
  <2>5. ASSUME NEW n, n # NoName
        PROVE  (\E o \in DOMAIN players' : players'[o].spawned /\ players'[o].name = n)
                 <=> (\E o \in DOMAIN players : players[o].spawned /\ players[o].name = n)
    BY <1>2, <1>3, <1>5, <1>6, <2>1, <2>5
  <2>6. \A n : n \in Named(players') <=> n \in Named(players)
    BY <2>5, NamedIn
  <2> QED
    BY <2>2, <2>4, <2>6, ListKept
<1> QED
  BY <1>8, <1>9

LEMMA ListStep == LifecycleInv /\ NamesInv /\ ListInv /\ [Next]_vars => ListInv'
<1> SUFFICES ASSUME LifecycleInv, NamesInv, ListInv, [Next]_vars PROVE ListInv'
  OBVIOUS
<1>0. SessionsOK(sessions) /\ PlayersOK(players)
  BY DEF LifecycleInv, TablesOK
<1>1. ASSUME NEW ep \in Endpoints, Packet(ep) PROVE ListInv'
  <2>1. CASE Request1(ep) \/ Request2(ep) \/ Chatter(ep)
    <3>1. UNCHANGED <<players, tab, irregular>>
      BY <2>1 DEF Request1, Request2, Chatter, Quiet
    <3>2. \A u \in DOMAIN sessions' : sessions'[u].state = "Connected" =>
            /\ u \in DOMAIN sessions /\ sessions[u].state = "Connected"
            /\ sessions'[u].closed = sessions[u].closed
      <4>1. CASE Request1(ep)
        <5> DEFINE t == To(ep, "Connecting1")
        <5>1. sessions' = t
          BY <4>1 DEF Request1
        <5>2. /\ DOMAIN t = DOMAIN sessions \cup {ep} /\ t[ep].state = "Connecting1"
              /\ \A e \in DOMAIN sessions :
                   /\ e # ep => t[e].state = sessions[e].state
                   /\ t[e].closed = sessions[e].closed
          BY <1>0, ToIs DEF States
        <5> HIDE DEF t
        <5> QED
          BY <5>1, <5>2
      <4>2. CASE Request2(ep)
        <5> DEFINE t == To(ep, "Connecting2")
        <5>1. sessions' = t
          BY <4>2 DEF Request2
        <5>2. /\ DOMAIN t = DOMAIN sessions \cup {ep} /\ t[ep].state = "Connecting2"
              /\ \A e \in DOMAIN sessions :
                   /\ e # ep => t[e].state = sessions[e].state
                   /\ t[e].closed = sessions[e].closed
          BY <1>0, ToIs DEF States
        <5> HIDE DEF t
        <5> QED
          BY <5>1, <5>2
      <4>3. CASE Chatter(ep)
        <5> DEFINE t == Touched(ep)
        <5>1. sessions' = t
          BY <4>3 DEF Chatter
        <5>2. /\ DOMAIN t = DOMAIN sessions \cup {ep} /\ SameAs(t)
              /\ ep \notin DOMAIN sessions => t[ep].state = "Unconnected"
          BY <1>0, TouchedIs
        <5> HIDE DEF t
        <5> QED
          BY <5>1, <5>2 DEF SameAs
      <4> QED
        BY <2>1, <4>1, <4>2, <4>3
    <3>3. \A u \in DOMAIN sessions' :
            ~sessions'[u].closed /\ sessions'[u].state = "Connected" =>
              /\ Open(u) /\ sessions[u].state = "Connected"
              /\ u \in Listening(sessions', players') <=> u \in Listening(sessions, players)
      BY <3>1, <3>2 DEF Open, Listening
    <3> QED
      BY <3>1, <3>3, ListKept
  <2>2. CASE ClientHandshake(ep)
    BY <2>2, ListHandshake
  <2>3. CASE ClientDisconnect(ep)
    <3>1. SessionsOK(Touched(ep)) /\ SameAs(Touched(ep))
          /\ DOMAIN Touched(ep) = DOMAIN sessions \cup {ep}
      BY <1>0, TouchedIs
    <3>2. /\ ep \in DOMAIN sessions /\ irregular' = irregular
          /\ Disconnect(Touched(ep), players, {ep})
      BY <2>3 DEF ClientDisconnect, InState
    <3>3. DOMAIN Touched(ep) = DOMAIN sessions
      BY <3>1, <3>2
    <3> QED
      BY <3>1, <3>2, <3>3, ListDisconnect
  <2>4. CASE GamePacket(ep)
    <3>1. /\ sessions' = Touched(ep) /\ InState(ep, "Connected")
          /\ players' = Put(players, ep, PlayerOf(ep)) /\ UNCHANGED <<tab, irregular>>
      BY <2>4 DEF GamePacket
    <3>2. /\ DOMAIN players' = DOMAIN players \cup {ep} /\ players'[ep] = PlayerOf(ep)
          /\ \A x \in DOMAIN players \ {ep} : players'[x] = players[x]
      BY <3>1 DEF Put
    <3>3. /\ ep \in DOMAIN players => PlayerOf(ep) = players[ep]
          /\ ep \notin DOMAIN players => ~PlayerOf(ep).spawned
      BY DEF PlayerOf
    <3>4. DOMAIN Touched(ep) = DOMAIN sessions \cup {ep} /\ SameAs(Touched(ep))
      BY <1>0, TouchedIs
    <3>5. \A u \in DOMAIN sessions' :
            /\ u \in DOMAIN sessions /\ sessions'[u].closed = sessions[u].closed
            /\ sessions'[u].state = sessions[u].state
      BY <3>1, <3>4 DEF SameAs, InState
    <3>6. \A u \in DOMAIN sessions' :
            ~sessions'[u].closed /\ sessions'[u].state = "Connected" =>
              /\ Open(u) /\ sessions[u].state = "Connected"
              /\ u \in Listening(sessions', players') <=> u \in Listening(sessions, players)
      BY <3>2, <3>3, <3>5 DEF Open, Listening
    <3>7. \A n : n \in Named(players') <=> n \in Named(players)
      BY <3>2, <3>3, NamedIn
    <3> QED
      BY <3>1, <3>6, <3>7, ListKept
  <2>5. CASE LoginRefused(ep)
    BY <2>5, ListRefused
  <2>6. CASE \E name \in Names : Login(ep, name)
    BY <2>6, ListLogin
  <2> QED
    BY <1>1, <2>1, <2>2, <2>3, <2>4, <2>5, <2>6 DEF Packet
<1>2. ASSUME NEW name \in Names, KickCommand(name) \/ BanCommand(name) \/ UnbanCommand(name)
      PROVE ListInv'
  <2>1. CASE \E ep \in DOMAIN players : Kick(ep)
    BY <1>0, <2>1, ListKick DEF PlayersOK
  <2>2. CASE UNCHANGED <<sessions, players, tab, irregular>>
    BY <2>2 DEF ListInv, Open
  <2> QED
    BY <1>2, <2>1, <2>2 DEF KickCommand, BanCommand, UnbanCommand
<1>3. CASE BeginTick \/ UNCHANGED vars
  BY <1>3 DEF BeginTick, vars, ListInv, Open
<1>4. CASE EndTick
  <2> DEFINE kept == {e \in DOMAIN sessions : Open(e)} \ TimedOut
             gone == Removed(players, TimedOut)
  <2>1. /\ sessions' = [e \in kept |-> [sessions[e] EXCEPT !.active = FALSE]]
        /\ players' = Without(players, gone) /\ tab' = TabWithout(players, gone)
        /\ irregular' = irregular
    BY <1>4 DEF EndTick
  <2>2. \A e : e \in gone <=> e \in TimedOut /\ e \in DOMAIN players
    BY DEF Removed, TimedOut
  <2>3. \A e : e \in kept => e \in DOMAIN sessions /\ Open(e) /\ e \notin TimedOut
    OBVIOUS
  <2> HIDE DEF kept, gone
  <2>4. \A s \in Sessions : [s EXCEPT !.active = FALSE].state = s.state
    BY DEF Sessions
  <2>5. \A e \in DOMAIN sessions' : e \in kept /\ sessions'[e].state = sessions[e].state
    BY <1>0, <2>1, <2>3, <2>4 DEF SessionsOK
  <2>6. \A v \in DOMAIN sessions' :
          ~sessions'[v].closed /\ sessions'[v].state = "Connected" =>
            Open(v) /\ sessions[v].state = "Connected" /\ v \notin gone
    BY <2>2, <2>3, <2>5
  <2>7. ~irregular' => \A e \in gone, o \in DOMAIN players \ gone :
          players[e].spawned /\ players[e].name = players[o].name => players[e].name = NoName
    BY <2>1, <2>2 DEF NamesInv, Distinct
  <2>8. irregular' \/ ~irregular
    BY <2>1 DEF LifecycleInv, TablesOK
  <2>9. gone \subseteq DOMAIN players
    BY <2>2
  <2> QED
    BY <2>1, <2>6, <2>7, <2>8, <2>9, ListGone
<1>5. CASE Pass
  <2>1. UNCHANGED <<players, tab, irregular>> /\ DOMAIN sessions' = DOMAIN sessions
        /\ \A e \in DOMAIN sessions :
           sessions'[e] = [sessions[e] EXCEPT
             !.quiet = IF sessions[e].quiet > Timeout THEN sessions[e].quiet
                       ELSE sessions[e].quiet + 1]
    BY <1>5 DEF Pass
  <2>2. ASSUME NEW e \in DOMAIN sessions
        PROVE  sessions'[e].state = sessions[e].state /\ sessions'[e].closed = sessions[e].closed
    <3> DEFINE q == IF sessions[e].quiet > Timeout THEN sessions[e].quiet
                    ELSE sessions[e].quiet + 1
    <3>1. sessions'[e] = [sessions[e] EXCEPT !.quiet = q]
      BY <2>1
    <3>2. sessions[e] \in Sessions
      BY <1>0 DEF SessionsOK
    <3> HIDE DEF q
    <3> QED
      BY <3>1, <3>2 DEF Sessions
  <2>3. \A u \in DOMAIN sessions' :
          ~sessions'[u].closed /\ sessions'[u].state = "Connected" =>
            /\ Open(u) /\ sessions[u].state = "Connected"
            /\ u \in Listening(sessions', players') <=> u \in Listening(sessions, players)
    BY <2>1, <2>2 DEF Open, Listening
  <2> QED
    BY <2>1, <2>3, ListKept
<1> QED
  BY <1>1, <1>2, <1>3, <1>4, <1>5 DEF Next

\* The PlayerList packets that a client was sent, on its login, on the logins
\* of others and when players leave, name exactly those that play.
THEOREM ListsStayRight == Spec => []ListsAreRight
<1>1. Init => NamesInv /\ ListInv
  <2> SUFFICES ASSUME Init PROVE NamesInv /\ ListInv
    OBVIOUS
  <2>1. DOMAIN players = {} /\ DOMAIN sessions = {}
    BY DEF Init
  <2> QED
    BY <2>1 DEF NamesInv, SpawnedAreNamed, Distinct, BannedAreOut, ListInv
<1>2. ListInv => ListsAreRight
  BY DEF ListInv, ListsAreRight, Listening, Open
<1> QED
  BY <1>1, <1>2, InvHolds, NamesStep, ListStep, PTL DEF Spec
-----------------------------------------------------------------------------
(***************************************************************************)
(* Safety of the shutdown of ServerThreads.  The properties are about the  *)
(* last steps of the process; what makes them inductive is what is known   *)
(* at every place on the way there: a thread is past the join only when    *)
(* the network thread has ended, and from then on the main thread alone    *)
(* changes the game, in a tick it does not come to any more.               *)
(***************************************************************************)
\* Places of the main thread after the join, and after the last save.
Joined == {"savelock", "save", "close", "destroy", "gone"}
Saved == {"close", "destroy", "gone"}

\* Who is past the loops knows that running_ is false.
Stopped ==
  net = "ended" \/ handler # "idle" \/ main = "join" \/ main \in Joined => ~running

\* The network thread is joined only when it has ended, and everything that
\* comes after the join finds it joined.
JoinedIsEnded ==
  /\ ~net_joinable => net = "ended"
  /\ \/ main \in Joined
     \/ handler \in {"savelock", "save", "disable"}
     \/ plugins = "disabled"
     => ~net_joinable

SavedIsClean ==
  /\ main \in Saved => ~dirty
  /\ process # "up" => main = "gone"

\* stop() holds the mutex only where the code it interrupted does not.
OneSection == handler = "save" => main \notin {"tick", "save"}

ThreadsInv == OneSection /\ Threads!TypeOK /\ Stopped /\ JoinedIsEnded /\ SavedIsClean

LEMMA ThreadsInit == Threads!Init => ThreadsInv
BY DEF Threads!Init, ThreadsInv, Threads!TypeOK, Stopped, JoinedIsEnded, SavedIsClean,
       OneSection, Joined, Saved

\* The steps of the main thread.
LEMMA MainStep == ThreadsInv /\ Threads!MainNext => ThreadsInv'
<1> SUFFICES ASSUME ThreadsInv, Threads!MainNext PROVE ThreadsInv'
  OBVIOUS
<1> USE DEF ThreadsInv, Stopped, JoinedIsEnded, SavedIsClean, OneSection,
            Joined, Saved, Threads!Main, Threads!Lock, Threads!Unlock,
            Threads!JoinNet, Threads!threads
<1>1. CASE Threads!CheckRunning
  BY <1>1 DEF Threads!CheckRunning, Threads!TypeOK
<1>2. CASE Threads!BeginGameTick
  BY <1>2 DEF Threads!BeginGameTick, Threads!TypeOK
<1>3. CASE Threads!GameTick
  BY <1>3 DEF Threads!GameTick, Threads!TypeOK
<1>4. CASE Threads!Sleep
  BY <1>4 DEF Threads!Sleep, Threads!TypeOK
<1>5. CASE Threads!Join
  BY <1>5 DEF Threads!Join, Threads!TypeOK
<1>6. CASE Threads!BeginSave
  BY <1>6 DEF Threads!BeginSave, Threads!TypeOK
<1>7. CASE Threads!Save
  BY <1>7 DEF Threads!Save, Threads!TypeOK
<1>8. CASE Threads!Close
  BY <1>8 DEF Threads!Close, Threads!TypeOK
<1>9. CASE Threads!Destroy
  BY <1>9 DEF Threads!Destroy, Threads!TypeOK
<1> QED
  BY <1>1, <1>2, <1>3, <1>4, <1>5, <1>6, <1>7, <1>8, <1>9 DEF Threads!MainNext

\* The steps of stop() in the signal handler.
LEMMA StopStep == ThreadsInv /\ (Threads!Signal \/ Threads!StopNext) => ThreadsInv'
<1> SUFFICES ASSUME ThreadsInv, Threads!Signal \/ Threads!StopNext PROVE ThreadsInv'
  OBVIOUS
<1> USE DEF ThreadsInv, Stopped, JoinedIsEnded, SavedIsClean, OneSection,
            Joined, Saved, Threads!Handler, Threads!Lock, Threads!Unlock,
            Threads!JoinNet, Threads!threads
<1>1. CASE Threads!Signal
  <2>1. Threads!TypeOK'
    BY <1>1 DEF Threads!Signal, Threads!TypeOK
  <2>2. Stopped'
    BY <1>1 DEF Threads!Signal, Threads!TypeOK
  <2>3. JoinedIsEnded'
    BY <1>1 DEF Threads!Signal, Threads!TypeOK
  <2>4. SavedIsClean' /\ OneSection'
    BY <1>1 DEF Threads!Signal, Threads!TypeOK
  <2> QED
    BY <2>1, <2>2, <2>3, <2>4
<1>2. CASE Threads!StopJoin
  BY <1>2 DEF Threads!StopJoin, Threads!TypeOK
<1>3. CASE Threads!StopBeginSave
  BY <1>3 DEF Threads!StopBeginSave, Threads!TypeOK
<1>4. CASE Threads!StopSave
  <2>1. Threads!TypeOK'
    BY <1>4 DEF Threads!StopSave, Threads!TypeOK
  <2>2. Stopped'
    BY <1>4 DEF Threads!StopSave, Threads!TypeOK
  <2>3. JoinedIsEnded'
    BY <1>4 DEF Threads!StopSave, Threads!TypeOK
  <2>4. SavedIsClean' /\ OneSection'
    BY <1>4 DEF Threads!StopSave, Threads!TypeOK
  <2> QED
    BY <2>1, <2>2, <2>3, <2>4
<1>5. CASE Threads!StopDisable
  BY <1>5 DEF Threads!StopDisable, Threads!TypeOK
<1> QED
  BY <1>1, <1>2, <1>3, <1>4, <1>5 DEF Threads!StopNext

\* The steps of the network and of the console thread.
LEMMA OtherStep == ThreadsInv /\ (Threads!NetNext \/ Threads!ConsoleLine) => ThreadsInv'
<1> SUFFICES ASSUME ThreadsInv, Threads!NetNext \/ Threads!ConsoleLine PROVE ThreadsInv'
  OBVIOUS
<1> USE DEF ThreadsInv, Stopped, JoinedIsEnded, SavedIsClean, OneSection,
            Joined, Saved, Threads!Net, Threads!Lock, Threads!Unlock, Threads!threads
<1>1. CASE Threads!NetCheck
  BY <1>1 DEF Threads!NetCheck, Threads!TypeOK
<1>2. CASE Threads!BeginNetTick
  BY <1>2 DEF Threads!BeginNetTick, Threads!TypeOK
<1>3. CASE Threads!NetTick
  <2>1. Threads!TypeOK'
    BY <1>3 DEF Threads!NetTick, Threads!TypeOK
  <2>2. Stopped'
    BY <1>3 DEF Threads!NetTick, Threads!TypeOK
  <2>3. JoinedIsEnded'
    BY <1>3 DEF Threads!NetTick, Threads!TypeOK
  <2>4. SavedIsClean' /\ OneSection'
    BY <1>3 DEF Threads!NetTick, Threads!TypeOK
  <2> QED
    BY <2>1, <2>2, <2>3, <2>4
<1>4. CASE Threads!ConsoleLine
  <2>1. Threads!TypeOK'
    <3>1. /\ console' \in {"reading", "ended"} /\ stop_queued' \in BOOLEAN
          /\ UNCHANGED <<running, mutex, main, handler, net, net_joinable,
                         console_joinable, dirty, plugins, process>>
      BY <1>4 DEF Threads!ConsoleLine, Threads!TypeOK
    <3> QED
      BY <3>1 DEF Threads!TypeOK
  <2>2. Stopped'
    BY <1>4 DEF Threads!ConsoleLine, Threads!TypeOK
  <2>3. JoinedIsEnded'
    BY <1>4 DEF Threads!ConsoleLine, Threads!TypeOK
  <2>4. SavedIsClean' /\ OneSection'
    BY <1>4 DEF Threads!ConsoleLine, Threads!TypeOK
  <2> QED
    BY <2>1, <2>2, <2>3, <2>4
<1> QED
  BY <1>1, <1>2, <1>3, <1>4 DEF Threads!NetNext

LEMMA ThreadsInvHolds == Threads!Spec => []ThreadsInv
<1>1. ThreadsInv /\ UNCHANGED Threads!vars => ThreadsInv'
  BY DEF ThreadsInv, Threads!TypeOK, Stopped, JoinedIsEnded, SavedIsClean, OneSection,
         Threads!vars, Threads!threads
<1>2. ThreadsInv /\ [Threads!Next]_(Threads!vars) => ThreadsInv'
  BY <1>1, MainStep, StopStep, OtherStep DEF Threads!Next
<1> QED
  BY <1>2, ThreadsInit, PTL DEF Threads!Spec

\* The types, and that game_mutex_ is held exactly by the thread that is in a
\* section under it.
THEOREM ThreadsTypeCorrect == Threads!Spec => []Threads!TypeOK
<1>1. ThreadsInv => Threads!TypeOK
  BY DEF ThreadsInv
<1> QED
  BY <1>1, ThreadsInvHolds, PTL

\* However the server is stopped, nothing that changed is unsaved when the
\* process ends.
THEOREM EverythingSaved == Threads!Spec => []NothingUnsaved
<1>1. ThreadsInv => NothingUnsaved
  BY DEF ThreadsInv, SavedIsClean, Saved, NothingUnsaved,
         Threads!NothingUnsaved
<1> QED
  BY <1>1, ThreadsInvHolds, PTL

\* The network thread is through before the final saves and before the
\* plugins are disabled.
THEOREM NetworkThrough == Threads!Spec => []NetworkIsThrough
<1>1. ThreadsInv => NetworkIsThrough
  BY DEF ThreadsInv, JoinedIsEnded, Joined, NetworkIsThrough,
         Threads!NetworkIsThrough
<1> QED
  BY <1>1, ThreadsInvHolds, PTL
=============================================================================
