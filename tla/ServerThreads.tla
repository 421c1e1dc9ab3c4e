---------------------------- MODULE ServerThreads ----------------------------
(***************************************************************************)
(* The threads of Server (src/server/Server.cpp) and how they stop: the    *)
(* main thread in runLoop(), the network thread, the console thread that   *)
(* reads stdin, and the signal handler, which runs stop() on the main      *)
(* thread wherever that happens to be.  The main and the network thread    *)
(* work on the game under game_mutex_, a std::mutex: locking it twice from *)
(* the same thread blocks for ever.                                        *)
(***************************************************************************)
EXTENDS Naturals

VARIABLES
  running,           \* running_
  mutex,             \* holder of game_mutex_: "none", "main" or "net"
  main,              \* where the main thread is
  handler,           \* where stop() is that the signal handler called
  net,               \* where the network thread is
  net_joinable,      \* network_thread_.joinable()
  console,           \* the console thread: "reading" or "ended"
  console_joinable,  \* console_thread_.joinable()
  stop_queued,       \* a stop command waits in console_queue_
  dirty,             \* the game changed since everything was saved
  plugins,           \* "enabled" or "disabled"
  process            \* "up", "exited" or "terminated"

vars == <<running, mutex, main, handler, net, net_joinable, console,
          console_joinable, stop_queued, dirty, plugins, process>>

threads == <<net_joinable, console_joinable>>

Init ==
  /\ running = TRUE /\ mutex = "none"
  /\ main = "check" /\ handler = "idle" /\ net = "check" /\ console = "reading"
  /\ net_joinable = TRUE /\ console_joinable = TRUE
  /\ stop_queued = FALSE
  /\ dirty = FALSE /\ plugins = "enabled" /\ process = "up"
-----------------------------------------------------------------------------
\* Steps of a thread, while the process is there.  The signal handler runs on
\* the main thread: the code it interrupted waits.
Main(from, to) == process = "up" /\ handler = "idle" /\ main = from /\ main' = to
Handler(from, to) == process = "up" /\ handler = from /\ handler' = to /\ UNCHANGED main
Net(from, to) == process = "up" /\ net = from /\ net' = to

Lock(thread) == mutex = "none" /\ mutex' = thread

Unlock == mutex' = "none"

\* Variant: join() of a thread that may still run.
NotJoined == net_joinable' = FALSE

\* join() of the network thread, if it is joinable.
JoinNet == (net_joinable => net = "ended") /\ net_joinable' = FALSE
-----------------------------------------------------------------------------
(***************************************************************************)
(* The main thread: runLoop(), then ~Server().                             *)
(***************************************************************************)
CheckRunning ==
  /\ Main("check", IF running THEN "lock" ELSE "join")
  /\ UNCHANGED <<running, mutex, handler, net, threads, console, stop_queued,
                 dirty, plugins, process>>

BeginGameTick ==
  /\ Main("lock", "tick") /\ Lock("main")
  /\ UNCHANGED <<running, handler, net, threads, console, stop_queued, dirty,
                 plugins, process>>

\* The rest of the tick: the console commands, the game, perhaps an autosave.
GameTick ==
  /\ Main("tick", "sleep") /\ Unlock
  /\ running' = (running /\ ~stop_queued)
  /\ stop_queued' = FALSE
  /\ dirty' \in BOOLEAN
  /\ UNCHANGED <<handler, net, threads, console, plugins, process>>

Sleep ==
  /\ Main("sleep", "check")
  /\ UNCHANGED <<running, mutex, handler, net, threads, console, stop_queued,
                 dirty, plugins, process>>

\* runLoop() after the loop.
Join ==
  /\ Main("join", "savelock") /\ JoinNet
  /\ UNCHANGED <<running, mutex, handler, net, console, console_joinable,
                 stop_queued, dirty, plugins, process>>

BeginSave ==
  /\ Main("savelock", "save") /\ Lock("main")
  /\ UNCHANGED <<running, handler, net, threads, console, stop_queued, dirty,
                 plugins, process>>

Save ==
  /\ Main("save", "close") /\ Unlock
  /\ dirty' = FALSE
  /\ UNCHANGED <<running, handler, net, threads, console, stop_queued, plugins,
                 process>>

Close ==
  /\ Main("close", "destroy")
  /\ plugins' = "disabled"
  /\ UNCHANGED <<running, mutex, handler, net, threads, console, stop_queued,
                 dirty, process>>

\* ~Server(): stop() returns at once, and the destructor of a std::thread that
\* is still joinable calls std::terminate().
Destroy ==
  /\ Main("destroy", "gone")
  /\ process' = IF console_joinable THEN "terminated" ELSE "exited"
  /\ UNCHANGED <<running, mutex, handler, net, threads, console, stop_queued,
                 dirty, plugins>>
-----------------------------------------------------------------------------
(***************************************************************************)
(* The signal handler: stop().                                             *)
(***************************************************************************)
Signal ==
  /\ Handler("idle", IF running THEN "join" ELSE "idle")
  /\ running' = FALSE
  /\ UNCHANGED <<mutex, net, threads, console, stop_queued, dirty, plugins, process>>

\* stop() joins the network thread and detaches the console thread.
StopJoin ==
  /\ Handler("join", "savelock") /\ JoinNet
  /\ console_joinable' = FALSE
  /\ UNCHANGED <<running, mutex, net, console, stop_queued, dirty, plugins, process>>

StopBeginSave ==
  /\ Handler("savelock", "save") /\ Lock("main")
  /\ UNCHANGED <<running, net, threads, console, stop_queued, dirty, plugins, process>>

StopSave ==
  /\ Handler("save", "disable") /\ Unlock
  /\ dirty' = FALSE
  /\ UNCHANGED <<running, net, threads, console, stop_queued, plugins, process>>

StopDisable ==
  /\ Handler("disable", "idle")
  /\ plugins' = "disabled"
  /\ UNCHANGED <<running, mutex, net, threads, console, stop_queued, dirty, process>>
-----------------------------------------------------------------------------
(***************************************************************************)
(* The network thread: networkThreadMain().                                *)
(***************************************************************************)
\* Variant: a loop that does not look at running_.
NetUnchecked ==
  /\ Net("check", "lock")
  /\ UNCHANGED <<running, mutex, main, handler, threads, console, stop_queued,
                 dirty, plugins, process>>

NetCheck ==
  /\ Net("check", IF running THEN "lock" ELSE "ended")
  /\ UNCHANGED <<running, mutex, main, handler, threads, console, stop_queued,
                 dirty, plugins, process>>

BeginNetTick ==
  /\ Net("lock", "tick") /\ Lock("net")
  /\ UNCHANGED <<running, main, handler, threads, console, stop_queued, dirty,
                 plugins, process>>

\* SessionManager::tick(): packets change the game; a player may be an
\* operator and use the stop command.
NetTick ==
  /\ Net("tick", "check") /\ Unlock
  /\ running' \in {running, FALSE}
  /\ dirty' \in {dirty, TRUE}
  /\ UNCHANGED <<main, handler, threads, console, stop_queued, plugins, process>>
-----------------------------------------------------------------------------
(***************************************************************************)
(* The console thread: a line, which may be the stop command, or the end   *)
(* of the input.                                                           *)
(***************************************************************************)
ConsoleLine ==
  /\ process = "up" /\ console = "reading"
  /\ \/ running /\ stop_queued' \in {stop_queued, TRUE} /\ UNCHANGED console
     \/ console' = "ended" /\ UNCHANGED stop_queued
  /\ UNCHANGED <<running, mutex, main, handler, net, threads, dirty, plugins, process>>
-----------------------------------------------------------------------------
MainNext ==
  CheckRunning \/ BeginGameTick \/ GameTick \/ Sleep \/ Join \/ BeginSave \/ Save
    \/ Close \/ Destroy

StopNext == StopJoin \/ StopBeginSave \/ StopSave \/ StopDisable

NetNext == NetCheck \/ BeginNetTick \/ NetTick

Next == MainNext \/ Signal \/ StopNext \/ NetNext \/ ConsoleLine

Spec == Init /\ [][Next]_vars

\* A thread that can go on does.  Nothing is assumed of who gets the mutex
\* when both threads want it, and nobody has to type or to send a signal.
FairSpec == Spec /\ WF_vars(MainNext) /\ WF_vars(StopNext) /\ WF_vars(NetNext)
-----------------------------------------------------------------------------
(***************************************************************************)
(* Properties.                                                             *)
(***************************************************************************)
\* The types; and the mutex is with the thread that is in a section under it.
TypeOK ==
  /\ running \in BOOLEAN /\ mutex \in {"none", "main", "net"}
  /\ main \in {"check", "lock", "tick", "sleep", "join", "savelock", "save",
               "close", "destroy", "gone"}
  /\ handler \in {"idle", "join", "savelock", "save", "disable"}
  /\ net \in {"check", "lock", "tick", "ended"}
  /\ console \in {"reading", "ended"}
  /\ net_joinable \in BOOLEAN /\ console_joinable \in BOOLEAN
  /\ stop_queued \in BOOLEAN /\ dirty \in BOOLEAN
  /\ plugins \in {"enabled", "disabled"}
  /\ process \in {"up", "exited", "terminated"}
  /\ mutex = "main" <=> main \in {"tick", "save"} \/ handler = "save"
  /\ mutex = "net" <=> net = "tick"

\* However the server is stopped, by the stop command of the console or of a
\* player or by a signal, nothing of the game that changed is lost: what a
\* tick changed after a save is saved again before the process ends.
NothingUnsaved == process # "up" => ~dirty

\* When the plugins are told to stop, and at the final saves, the network
\* thread is through: no packet is handled any more.
NetworkIsThrough ==
  /\ plugins = "disabled" => net = "ended"
  /\ handler = "save" \/ main = "save" => net = "ended"

\* Once a shutdown was requested the process ends, whoever holds the mutex and
\* whatever waits, unless a signal arrives and stop() is still at it; when
\* stop() is through, the process ends as well.
ShutdownEnds == ~running ~> process # "up" \/ handler # "idle"

\* "if console blocked on getline, detach so stop completes"
\* (src/server/Server.cpp:4333): stop() comes to its end.
\* No run checks it, for it does not hold (README, section 4).
StopCompletes == handler = "join" ~> handler = "idle"

\* "join may block if stdin blocked; detach if needed"
\* (src/server/Server.cpp:4328): the console thread is joined or detached
\* before it is destroyed, and the process ends by itself.
\* No run checks it, for it does not hold (README, section 4).
ConsoleLetGo == process # "terminated"
=============================================================================
