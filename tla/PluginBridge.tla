---------------------------- MODULE PluginBridge ----------------------------
(***************************************************************************)
(* The server and a plugin that runs as a process of its own: one line of  *)
(* JSON per event down one pipe, one per answer up another                 *)
(* (src/src/plugin/PluginManager.cpp, class ProcessPlugin).  The events    *)
(* come from the server's handlers, one at a time under game_mutex_.       *)
(*                                                                         *)
(* A pipe holds PipeLines lines; the server blocks when it writes into a   *)
(* full one, reads without blocking, and waits for an answer by looking    *)
(* MaxPolls times and once more.  Answers carry no number: the one a line  *)
(* has here is history.  The process is modelled by what docs/PLUGINS.md   *)
(* lets it send; it may be slow, silent, dead or hung at any time.         *)
(***************************************************************************)
EXTENDS Naturals, Sequences, FiniteSets, FiniteSetsExt

CONSTANTS
  MaxEvents,    \* bound: events of a history
  MaxPolls,     \* how often drainWithWait() looks before the last time
  PipeLines     \* lines a pipe has room for

ASSUME ConstantsAssumption ==
  MaxEvents \in Nat /\ MaxPolls \in Nat /\ PipeLines \in Nat \ {0}

VARIABLES
  \* The server.
  server,       \* what it is doing
  held,         \* pid_ > 0, and the pipes are open
  line,         \* the line sendLine() has to write, or the event it waits for
  polls,        \* looks left before the last one
  replies,      \* init_ok_, init_err_ and the last_* flags
  closing,      \* the server is being stopped
  \* The process and the pipes.
  child,
  answers,      \* lines the process is about to write
  toChild, fromChild,
  \* History.
  events,       \* the events fired, in order
  given,        \* by event, what the process answered
  taken,        \* by event, what the server made of it
  late          \* an answer was written when its event was over

vars == <<server, held, line, polls, replies, closing, child, answers, toChild,
          fromChild, events, given, taken, late>>

\* Only these wait for an answer; onBlock() stands for the others.
Cancelable == {"chat", "command", "sign"}
EventKinds == Cancelable \cup {"block"}

NoVerdict == [cancelled |-> FALSE, text |-> 0]
NoReplies == [ok |-> FALSE, err |-> FALSE, chat |-> FALSE, command |-> FALSE,
              sign |-> FALSE, rewrite |-> 0]

Init ==
  /\ server = "off" /\ held = FALSE /\ polls = 0 /\ replies = NoReplies
  /\ line = [op |-> "none", id |-> 0]
  /\ closing = FALSE
  /\ child = "dead" /\ answers = << >>
  /\ toChild = << >> /\ fromChild = << >>
  /\ events = << >> /\ given = << >> /\ taken = << >>
  /\ late = FALSE
-----------------------------------------------------------------------------
\* The process.

\* What it may answer to a line.
AnswersTo(l) ==
  LET A(op) == [op |-> op, id |-> l.id]
  IN CASE l.op = "init" -> {<<A("ok")>>, <<A("error")>>, << >>}
       [] l.op = "chat" -> {<<A("log")>>, <<A("cancel_chat")>>}
       [] l.op = "command" -> {<<A("log")>>, <<A("handle_command")>>}
       [] l.op = "sign" -> {<<A("log")>>, <<A("cancel_sign")>>, <<A("rewrite_sign")>>}
       [] l.op = "block" -> {<< >>, <<A("log"), A("log")>>}

Verdicts == {"cancel_chat", "handle_command", "cancel_sign", "rewrite_sign"}

ChildReads ==
  /\ child = "reading" /\ toChild # << >>
  /\ toChild' = Tail(toChild)
  /\ IF Head(toChild).op = "shutdown"
     THEN child' = "dead" /\ UNCHANGED answers
     ELSE /\ answers' \in AnswersTo(Head(toChild))
          /\ child' = IF answers' = << >> THEN "reading" ELSE "writing"
  /\ UNCHANGED <<server, held, line, polls, replies, closing, fromChild,
                 events, given, taken, late>>

ChildWrites ==
  /\ child = "writing" /\ Len(fromChild) < PipeLines
  /\ LET a == Head(answers)
     IN /\ fromChild' = Append(fromChild, a)
        /\ IF a.op \in Verdicts
           THEN /\ given' = [given EXCEPT ![a.id] = a.op]
                /\ late' = (late \/ ~(server = "waiting" /\ line.id = a.id))
           ELSE UNCHANGED <<given, late>>
  /\ answers' = Tail(answers)
  /\ child' = IF answers' = << >> THEN "reading" ELSE "writing"
  /\ UNCHANGED <<server, held, line, polls, replies, closing, toChild, events, taken>>

\* It ends by itself: its runtime is missing, or it fails.
ChildDies ==
  /\ child # "dead"
  /\ child' = "dead" /\ answers' = << >>
  /\ UNCHANGED <<server, held, line, polls, replies, closing, toChild, fromChild,
                 events, given, taken, late>>
-----------------------------------------------------------------------------
\* drain(): handleLine() for every line that is there.  Each sets what it is
\* about, and of several texts the last one stays.
Said(op) == {n \in DOMAIN fromChild : fromChild[n].op = op}

Drained ==
  [ok |-> replies.ok \/ Said("ok") # {},
   err |-> replies.err \/ Said("error") # {},
   chat |-> replies.chat \/ Said("cancel_chat") # {},
   command |-> replies.command \/ Said("handle_command") # {},
   sign |-> replies.sign \/ Said("cancel_sign") # {},
   rewrite |-> IF Said("rewrite_sign") = {} THEN replies.rewrite
               ELSE fromChild[Max(Said("rewrite_sign"))].id]

Drain == replies' = Drained /\ fromChild' = << >>

\* Variant: the flags of the last event are left.
ClearedNever(k) == replies

\* What onChat(), onCommand() and onSignChange() reset before they ask.
Cleared(k) ==
  CASE k = "chat" -> [replies EXCEPT !.chat = FALSE]
    [] k = "command" -> [replies EXCEPT !.command = FALSE]
    [] k = "sign" -> [replies EXCEPT !.sign = FALSE, !.rewrite = 0]
    [] k = "block" -> replies

\* What they make of the answers.
Taken(k, r) ==
  CASE k = "chat" -> [NoVerdict EXCEPT !.cancelled = r.chat]
    [] k = "command" -> [NoVerdict EXCEPT !.cancelled = r.command]
    [] k = "sign" -> [cancelled |-> r.sign, text |-> r.rewrite]
    [] k = "block" -> NoVerdict

\* enable(): the process is forked, and "init" is the first line.
Enable ==
  /\ server = "off"
  /\ server' = "writing" /\ held' = TRUE
  /\ line' = [op |-> "init", id |-> 0]
  /\ child' = "reading"
  /\ UNCHANGED <<polls, replies, closing, answers, toChild, fromChild, events,
                 given, taken, late>>

\* sendLine(): it blocks while the pipe is full.
Send ==
  /\ server = "writing" /\ child # "dead" /\ Len(toChild) < PipeLines
  /\ toChild' = Append(toChild, line)
  /\ server' = CASE line.op = "init" -> "starting"
                 [] line.op = "shutdown" -> "reaping"
                 [] OTHER -> "waiting"
  /\ polls' = IF line.op \in Cancelable THEN MaxPolls ELSE 0
  /\ UNCHANGED <<held, line, replies, closing, child, answers, fromChild, events,
                 given, taken, late>>

\* Nobody reads the pipe any more: write() raises SIGPIPE, which is not caught.
BrokenPipe ==
  /\ server = "writing" /\ child = "dead"
  /\ server' = "killed"
  /\ UNCHANGED <<held, line, polls, replies, closing, child, answers, toChild,
                 fromChild, events, given, taken, late>>

\* enable(): looking for the answer to "init".
AwaitInit ==
  /\ server = "starting"
  /\ Drain
  /\ CASE replies'.ok -> server' = "idle" /\ UNCHANGED line
       [] ~replies'.ok /\ replies'.err ->
            server' = "writing" /\ line' = [op |-> "shutdown", id |-> 0]
       [] OTHER -> UNCHANGED <<server, line>>
  /\ UNCHANGED <<held, polls, closing, child, answers, toChild, events, given,
                 taken, late>>

\* enable(): two seconds are over.
InitTimesOut ==
  /\ server = "starting" /\ ~replies.ok /\ ~replies.err
  /\ server' = "idle"
  /\ IF child = "dead"
     THEN held' = FALSE /\ toChild' = << >> /\ fromChild' = << >>
     ELSE UNCHANGED <<held, toChild, fromChild>>
  /\ UNCHANGED <<line, polls, replies, closing, child, answers, events, given,
                 taken, late>>

\* One of the on...() handlers; without pipes nothing is sent or read.
Fire(k) ==
  /\ server = "idle" /\ Len(events) < MaxEvents
  /\ events' = Append(events, k)
  /\ given' = Append(given, "none")
  /\ replies' = IF held THEN Cleared(k) ELSE replies
  /\ IF held
     THEN /\ server' = "writing" /\ line' = [op |-> k, id |-> Len(events')]
          /\ UNCHANGED taken
     ELSE /\ taken' = Append(taken, NoVerdict)
          /\ UNCHANGED <<server, line>>
  /\ UNCHANGED <<held, polls, closing, child, answers, toChild, fromChild, late>>

\* Variant: the server waits until it is answered.
PollPatiently ==
  /\ server = "waiting" /\ polls > 0
  /\ Drain
  /\ polls' = IF replies' = replies THEN polls ELSE polls - 1
  /\ UNCHANGED <<server, held, line, closing, child, answers, toChild, events,
                 given, taken, late>>

\* drainWithWait(): a look, and ten milliseconds.
Poll ==
  /\ server = "waiting" /\ polls > 0
  /\ Drain
  /\ polls' = polls - 1
  /\ UNCHANGED <<server, held, line, closing, child, answers, toChild, events,
                 given, taken, late>>

\* Variant: without the last look.
ConcludeBlindly ==
  /\ server = "waiting" /\ polls = 0
  /\ taken' = Append(taken, Taken(line.op, replies))
  /\ server' = "idle"
  /\ UNCHANGED <<held, line, polls, replies, closing, child, answers, toChild,
                 fromChild, events, given, late>>

\* The last look, and the rest of the handler.
Conclude ==
  /\ server = "waiting" /\ polls = 0
  /\ Drain
  /\ taken' = Append(taken, Taken(line.op, replies'))
  /\ server' = "idle"
  /\ UNCHANGED <<held, line, polls, closing, child, answers, toChild, events,
                 given, late>>

\* stop(): disable() is for those whose process is held.
Stop ==
  /\ server = "idle"
  /\ closing' = TRUE
  /\ IF held THEN server' = "writing" /\ line' = [op |-> "shutdown", id |-> 0]
             ELSE server' = "stopped" /\ UNCHANGED line
  /\ UNCHANGED <<held, polls, replies, child, answers, toChild, fromChild, events,
                 given, taken, late>>

\* disable(): SIGTERM, a little time, SIGKILL, and the process is waited for.
Reap ==
  /\ server = "reaping"
  /\ child' = "dead" /\ answers' = << >>
  /\ held' = FALSE /\ toChild' = << >> /\ fromChild' = << >>
  /\ server' = IF closing THEN "stopped" ELSE "idle"
  /\ UNCHANGED <<line, polls, replies, closing, events, given, taken, late>>

Child == ChildReads \/ ChildWrites

\* What the server goes on with once it has turned to the plugin.
Server ==
  \/ Send \/ BrokenPipe \/ AwaitInit \/ InitTimesOut
  \/ Poll \/ Conclude \/ Reap

Next ==
  \/ Enable \/ Stop \/ Server \/ Child \/ ChildDies
  \/ \E k \in EventKinds : Fire(k)

Spec == Init /\ [][Next]_vars

\* The server's thread is scheduled and its waits end.  Nothing makes the
\* process read or write.
FairSpec == Spec /\ WF_vars(Server) /\ WF_vars(InitTimesOut)
-----------------------------------------------------------------------------
Over == DOMAIN taken

Given(e) == CASE given[e] = "none" -> NoVerdict
              [] given[e] = "rewrite_sign" -> [cancelled |-> FALSE, text |-> e]
              [] OTHER -> [cancelled |-> TRUE, text |-> 0]

\* As long as the process answers in time, each event gets the answer that was
\* meant for it and no other: a chat line is dropped, a command left to the
\* plugin, a sign refused or rewritten exactly when the plugin said so.
PromptIsHeeded == ~late => \A e \in Over : taken[e] = Given(e)

\* An answer that comes late may strike the next event of its kind, but only
\* one: the flags are reset before each event.
AnswersCountOnce ==
  /\ \A k \in Cancelable :
       Cardinality({e \in Over : events[e] = k /\ taken[e].cancelled})
         <= Cardinality({e \in DOMAIN events : events[e] = k /\ Given(e).cancelled})
  /\ \A e, f \in Over : taken[e].text = taken[f].text /\ taken[e].text # 0 => e = f

\* write() waits for room, and there is someone who could make it.
Blocked == server = "writing" /\ child # "dead" /\ Len(toChild) = PipeLines

\* A process that is silent, slow, dead or answers something else holds the
\* server up for a while only: whatever it asks or tells the plugin, it is done
\* with that in the end.  Only a process that lives and does not read holds it
\* for ever, in the write to its full pipe.
ServerGoesOn ==
  \/ server \notin {"off", "idle"} ~> server \in {"idle", "stopped", "killed"}
  \/ <>[]Blocked

\* "Python plugins are better isolated" (docs/PLUGINS.md:159, in Chinese) than
\* native ones, whose crash takes the server with it.
\* No run checks it, for it does not hold (README, section 4).
DeathIsSurvived == server # "killed"

\* "process plugins must never stall the game loop" (PluginManager.cpp:574): a
\* line is written in the end.  It is not where the process hangs, and the
\* server waits under game_mutex_.
\* No run checks it, for it does not hold (README, section 4).
NeverStalls == server = "writing" ~> server # "writing"
=============================================================================
