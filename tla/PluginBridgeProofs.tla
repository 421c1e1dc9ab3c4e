------------------------- MODULE PluginBridgeProofs -------------------------
(***************************************************************************)
(* Theorems about PluginBridge, for every value of its constants: what the *)
(* plugin's process answers is heeded when it comes in time, and strikes   *)
(* no more than one event when it does not.                                *)
(***************************************************************************)
EXTENDS PluginBridge, FiniteSetTheorems, SequenceTheorems, WellFoundedInduction, TLAPS

USE ConstantsAssumption

(***************************************************************************)
(* What the model's operators return.  Those that read variables are given *)
(* what they read, so that they can be used of the state before a step and *)
(* of the one after it.                                                    *)
(***************************************************************************)
VerdictsOf(k) ==
  CASE k = "chat" -> {"cancel_chat"}
    [] k = "command" -> {"handle_command"}
    [] k = "sign" -> {"cancel_sign", "rewrite_sign"}
    [] k = "block" -> {}

CancelOf(k) == CASE k = "chat" -> "cancel_chat"
                 [] k = "command" -> "handle_command"
                 [] k = "sign" -> "cancel_sign"

Nothing == [op |-> "none", id |-> 0]
Lines == [op : EventKinds \cup {"init", "shutdown"}, id : Nat]
Answers == [op : Verdicts \cup {"ok", "error", "log"}, id : Nat]
Replies == [ok : BOOLEAN, err : BOOLEAN, chat : BOOLEAN, command : BOOLEAN,
            sign : BOOLEAN, rewrite : Nat]

\* Said, Drained and Given.
SaidIn(s, op) == {n \in DOMAIN s : s[n].op = op}

Draining(r, s) ==
  [ok |-> r.ok \/ SaidIn(s, "ok") # {},
   err |-> r.err \/ SaidIn(s, "error") # {},
   chat |-> r.chat \/ SaidIn(s, "cancel_chat") # {},
   command |-> r.command \/ SaidIn(s, "handle_command") # {},
   sign |-> r.sign \/ SaidIn(s, "cancel_sign") # {},
   rewrite |-> IF SaidIn(s, "rewrite_sign") = {} THEN r.rewrite
               ELSE s[Max(SaidIn(s, "rewrite_sign"))].id]

VerdictOf(v, e) == CASE v = "none" -> NoVerdict
                     [] v = "rewrite_sign" -> [cancelled |-> FALSE, text |-> e]
                     [] OTHER -> [cancelled |-> TRUE, text |-> 0]

LEMMA SaidIs == \A op : Said(op) = SaidIn(fromChild, op)
  BY DEF Said, SaidIn

LEMMA DrainedIs == Drained = Draining(replies, fromChild)
<1>1. \A op : Said(op) = SaidIn(fromChild, op)
  BY SaidIs
<1> QED
  BY <1>1 DEF Drained, Draining

LEMMA GivenIs == \A e : Given(e) = VerdictOf(given[e], e)
  BY DEF Given, VerdictOf

\* A set of natural numbers that is not empty, and bounded, has a greatest
\* element.
LEMMA GreatestNat ==
  ASSUME NEW N \in Nat, NEW S, S \subseteq 1..N, S # {}
  PROVE  Max(S) \in S /\ \A y \in S : y <= Max(S)
<1> DEFINE R == {ss \in Nat \X Nat : ss[1] < ss[2]}
           T == {N - y : y \in S}
<1>1. IsWellFoundedOn(OpToRel(<, Nat), Nat)
  BY NatLessThanWellFounded
<1>2. OpToRel(<, Nat) = R
  BY DEF OpToRel
<1>3. IsWellFoundedOn(R, Nat)
  BY <1>1, <1>2
<1>4. \A x, y \in Nat : y < x => <<y, x>> \in R
  OBVIOUS
<1>5. T \subseteq Nat /\ T # {}
  <2>1. \A y \in S : N - y \in Nat
    OBVIOUS
  <2> QED
    BY <2>1
<1> HIDE DEF R
<1>6. PICK x \in T : \A y \in T : ~ (<<y, x>> \in R)
  BY <1>3, <1>5, WFMin
<1>7. PICK m \in S : x = N - m
  OBVIOUS
<1>8. ASSUME NEW y \in S PROVE y <= m
  <2>1. N - y \in T
    OBVIOUS
  <2>2. ~(N - y < x)
    BY <1>4, <1>5, <1>6, <2>1
  <2> QED
    BY <1>7, <2>2
<1>9. \E z \in S : \A y \in S : z >= y
  BY <1>8
<1> QED
  BY <1>9 DEF Max

\* What one more line adds to what was said.
LEMMA SaidMore ==
  ASSUME NEW s \in Seq(Answers), NEW a \in Answers, NEW op
  PROVE  SaidIn(Append(s, a), op) =
           IF a.op = op THEN SaidIn(s, op) \cup {Len(s) + 1} ELSE SaidIn(s, op)
<1>1. /\ Len(s) \in Nat /\ DOMAIN s = 1..Len(s)
      /\ DOMAIN Append(s, a) = 1..(Len(s) + 1)
      /\ \A n \in 1..Len(s) : Append(s, a)[n] = s[n]
      /\ Append(s, a)[Len(s) + 1] = a
  OBVIOUS
<1> QED
  BY <1>1 DEF SaidIn

\* Reading a pipe yields flags.
LEMMA DrainingType ==
  ASSUME NEW r \in Replies, NEW s \in Seq(Answers)
  PROVE  Draining(r, s) \in Replies
<1>1. CASE SaidIn(s, "rewrite_sign") = {}
  BY <1>1 DEF Draining, Replies
<1>2. CASE SaidIn(s, "rewrite_sign") # {}
  <2>1. Len(s) \in Nat /\ DOMAIN s = 1..Len(s)
    OBVIOUS
  <2>2. SaidIn(s, "rewrite_sign") \subseteq 1..Len(s)
    BY <2>1 DEF SaidIn
  <2>3. Max(SaidIn(s, "rewrite_sign")) \in 1..Len(s)
    BY <1>2, <2>1, <2>2, GreatestNat
  <2>4. s[Max(SaidIn(s, "rewrite_sign"))] \in Answers
    BY <2>1, <2>3
  <2>5. s[Max(SaidIn(s, "rewrite_sign"))].id \in Nat
    BY <2>4 DEF Answers
  <2> QED
    BY <1>2, <2>5 DEF Draining, Replies
<1> QED
  BY <1>1, <1>2

\* Reading an empty pipe changes nothing.
LEMMA DrainEmpty ==
  ASSUME NEW r \in Replies
  PROVE  Draining(r, << >>) = r
<1>1. \A op : SaidIn(<< >>, op) = {}
  BY DEF SaidIn
<1> QED
  BY <1>1 DEF Draining, Replies

\* Of one more line, the flag it is about, or the text, comes from it.
LEMMA DrainMore ==
  ASSUME NEW r \in Replies, NEW s \in Seq(Answers), NEW a \in Answers
  PROVE  /\ Draining(r, Append(s, a)).chat = (Draining(r, s).chat \/ a.op = "cancel_chat")
         /\ Draining(r, Append(s, a)).command =
              (Draining(r, s).command \/ a.op = "handle_command")
         /\ Draining(r, Append(s, a)).sign = (Draining(r, s).sign \/ a.op = "cancel_sign")
         /\ Draining(r, Append(s, a)).rewrite =
              IF a.op = "rewrite_sign" THEN a.id ELSE Draining(r, s).rewrite
<1> DEFINE t == Append(s, a)
           Old == SaidIn(s, "rewrite_sign")
           New == SaidIn(t, "rewrite_sign")
<1>1. /\ Len(s) \in Nat /\ DOMAIN s = 1..Len(s)
      /\ \A n \in 1..Len(s) : t[n] = s[n]
      /\ t[Len(s) + 1] = a
  OBVIOUS
<1>2. \A op : SaidIn(t, op) =
           IF a.op = op THEN SaidIn(s, op) \cup {Len(s) + 1} ELSE SaidIn(s, op)
  BY SaidMore
<1>3. Old \subseteq 1..Len(s)
  BY <1>1 DEF SaidIn
<1> HIDE DEF t
<1>4. t[IF New = {} THEN 0 ELSE Max(New)].id =
        IF a.op = "rewrite_sign" THEN a.id ELSE t[IF Old = {} THEN 0 ELSE Max(Old)].id
  <2>1. CASE a.op = "rewrite_sign"
    <3>1. New = Old \cup {Len(s) + 1}
      BY <1>2, <2>1
    <3>2. New \subseteq 1..(Len(s) + 1) /\ New # {} /\ Len(s) + 1 \in New
      BY <1>1, <1>3, <3>1
    <3> HIDE DEF New
    <3>3. Max(New) \in New /\ \A y \in New : y <= Max(New)
      BY <1>1, <3>2, GreatestNat
    <3>4. Max(New) \in 1..(Len(s) + 1) /\ Len(s) + 1 <= Max(New)
      BY <3>2, <3>3
    <3>5. Max(New) = Len(s) + 1
      BY <1>1, <3>4
    <3> QED
      BY <1>1, <2>1, <3>2, <3>5
  <2>2. CASE a.op # "rewrite_sign"
    BY <1>2, <2>2
  <2> QED
    BY <2>1, <2>2
<1>5. Draining(r, t).rewrite =
        IF a.op = "rewrite_sign" THEN a.id ELSE Draining(r, s).rewrite
  <2>1. CASE a.op = "rewrite_sign"
    <3>1. New # {}
      BY <1>2, <2>1
    <3> QED
      BY <1>4, <2>1, <3>1 DEF Draining
  <2>2. CASE a.op # "rewrite_sign" /\ Old = {}
    <3>1. New = {}
      BY <1>2, <2>2
    <3> QED
      BY <2>2, <3>1 DEF Draining
  <2>3. CASE a.op # "rewrite_sign" /\ Old # {}
    <3>1. New = Old
      BY <1>2, <2>3
    <3>2. Max(Old) \in 1..Len(s)
      <4> HIDE DEF Old
      <4> QED
        BY <1>1, <1>3, <2>3, GreatestNat
    <3>3. t[Max(Old)] = s[Max(Old)]
      BY <1>1, <3>2
    <3> QED
      BY <2>3, <3>1, <3>3 DEF Draining
  <2> QED
    BY <2>1, <2>2, <2>3
<1>6. /\ Draining(r, t).chat = (Draining(r, s).chat \/ a.op = "cancel_chat")
      /\ Draining(r, t).command = (Draining(r, s).command \/ a.op = "handle_command")
      /\ Draining(r, t).sign = (Draining(r, s).sign \/ a.op = "cancel_sign")
  BY <1>2 DEF Draining, Replies
<1> QED
  BY <1>5, <1>6 DEF t

\* What a process may answer: verdicts of the line's own kind, one at most.
LEMMA AnswersForm ==
  ASSUME NEW l \in Lines, l.op # "shutdown", NEW as \in AnswersTo(l)
  PROVE  /\ as \in Seq(Answers)
         /\ \A m \in DOMAIN as : as[m].op \in Verdicts =>
              /\ Len(as) = 1 /\ as[m].id = l.id
              /\ l.op \in EventKinds /\ as[m].op \in VerdictsOf(l.op)
<1> DEFINE A(op) == [op |-> op, id |-> l.id]
<1>0. l.id \in Nat /\ l.op \in EventKinds \cup {"init"}
  BY DEF Lines
<1>1. CASE as = << >>
  BY <1>1
<1>2. \A op : A(op).id = l.id
  OBVIOUS
<1>3. \A op \in Verdicts \cup {"ok", "error", "log"} : A(op) \in Answers /\ A(op).op = op
  BY <1>0 DEF Answers
<1> HIDE DEF A
<1>4. /\ l.op = "init" => as \in {<<A("ok")>>, <<A("error")>>, << >>}
      /\ l.op = "chat" => as \in {<<A("log")>>, <<A("cancel_chat")>>}
      /\ l.op = "command" => as \in {<<A("log")>>, <<A("handle_command")>>}
      /\ l.op = "sign" => as \in {<<A("log")>>, <<A("cancel_sign")>>, <<A("rewrite_sign")>>}
      /\ l.op = "block" => as \in {<< >>, <<A("log"), A("log")>>}
  BY DEF AnswersTo, A
<1>5. << >> \in Seq(Answers)
  OBVIOUS
<1>6. ASSUME NEW a \in Answers
      PROVE  /\ <<a>> \in Seq(Answers) /\ Len(<<a>>) = 1 /\ DOMAIN <<a>> = {1} /\ <<a>>[1] = a
             /\ <<a, a>> \in Seq(Answers) /\ DOMAIN <<a, a>> = {1, 2}
             /\ <<a, a>>[1] = a /\ <<a, a>>[2] = a
  OBVIOUS
<1>7. CASE as = << >>
  BY <1>5, <1>7
<1>8. CASE as = <<A("log"), A("log")>>
  <2>1. A("log") \in Answers /\ A("log").op = "log" /\ "log" \notin Verdicts
    BY <1>3 DEF Verdicts
  <2> QED
    BY <1>6, <1>8, <2>1
<1>9. CASE \E op \in Verdicts \cup {"ok", "error", "log"} :
             /\ as = <<A(op)>>
             /\ op \in Verdicts => l.op \in EventKinds /\ op \in VerdictsOf(l.op)
  <2>1. PICK op \in Verdicts \cup {"ok", "error", "log"} :
             /\ as = <<A(op)>>
             /\ op \in Verdicts => l.op \in EventKinds /\ op \in VerdictsOf(l.op)
    BY <1>9
  <2>2. A(op) \in Answers /\ A(op).op = op /\ A(op).id = l.id
    BY <1>2, <1>3
  <2> QED
    BY <1>6, <2>1, <2>2
<1> DEFINE Good(op) == /\ op \in Verdicts \cup {"ok", "error", "log"}
                       /\ op \in Verdicts => l.op \in EventKinds /\ op \in VerdictsOf(l.op)
<1>10. Good("ok") /\ Good("error") /\ Good("log")
  BY DEF Verdicts
<1>11. /\ l.op = "chat" => Good("cancel_chat")
       /\ l.op = "command" => Good("handle_command")
       /\ l.op = "sign" => Good("cancel_sign") /\ Good("rewrite_sign")
  BY DEF EventKinds, Cancelable, Verdicts, VerdictsOf
<1>12. as = << >> \/ as = <<A("log"), A("log")>> \/ \E op : Good(op) /\ as = <<A(op)>>
  <2> HIDE DEF Good
  <2>1. l.op \in {"init", "chat", "command", "sign", "block"}
    BY <1>0 DEF EventKinds, Cancelable
  <2> QED
    BY <1>4, <1>10, <1>11, <2>1
<1> QED
  BY <1>7, <1>8, <1>9, <1>12

\* A verdict is two fields.
VerdictSet == [cancelled : BOOLEAN, text : Nat]

LEMMA TakenType ==
  ASSUME NEW k \in EventKinds, NEW r \in Replies
  PROVE  Taken(k, r) \in VerdictSet
BY DEF Taken, EventKinds, Cancelable, Replies, NoVerdict, VerdictSet

\* What a handler has reset before it asks says nothing.
LEMMA ClearedSaysNothing ==
  ASSUME NEW k \in EventKinds, replies \in Replies
  PROVE  Cleared(k) \in Replies /\ Taken(k, Cleared(k)) = NoVerdict
BY DEF Taken, EventKinds, Cancelable, Replies, NoVerdict, Cleared

(***************************************************************************)
(* What the lines, answers and events look like.                           *)
(***************************************************************************)
\* The server is in one of the on...() handlers, its event not over.
Asking == server \in {"writing", "waiting"} /\ line.op \in EventKinds

\* The two pipes.
PipesOK ==
  /\ toChild \in Seq(Lines)
  /\ answers \in Seq(Answers)
  /\ fromChild \in Seq(Answers)
  /\ replies \in Replies
  /\ late \in BOOLEAN
  /\ line \in Lines \cup {Nothing}
  /\ server = "writing" => line \in Lines
  /\ server = "waiting" => line.op \in EventKinds
  /\ child = "writing" => answers # << >>

\* One event at a time: those before it are over, unless SIGPIPE struck.
Turns ==
  /\ events \in Seq(EventKinds)
  /\ given \in Seq(Verdicts \cup {"none"})
  /\ taken \in Seq(VerdictSet)
  /\ Len(given) = Len(events)
  /\ Asking => /\ line.id = Len(events)
               /\ Len(events) = Len(taken) + 1
               /\ line.op = events[line.id]
  /\ ~Asking /\ server # "killed" => Len(taken) = Len(events)
  /\ Len(taken) <= Len(events)

LEMMA PipesInit == Init => PipesOK /\ Turns
<1> SUFFICES ASSUME Init PROVE PipesOK /\ Turns
  OBVIOUS
<1>1. \A S : << >> \in Seq(S) /\ Len(<< >>) = 0
  OBVIOUS
<1>2. NoReplies \in Replies
  BY DEF NoReplies, Replies
<1>3. PipesOK
  BY <1>1, <1>2 DEF Init, PipesOK, Nothing
<1>4. Turns
  BY <1>1 DEF Init, Turns, Asking
<1> QED
  BY <1>3, <1>4

LEMMA PipesStep == PipesOK /\ [Next]_vars => PipesOK'
<1> SUFFICES ASSUME PipesOK, [Next]_vars PROVE PipesOK'
  OBVIOUS
<1>0. \A S : << >> \in Seq(S)
  OBVIOUS
<1>1. /\ \A k \in EventKinds \cup {"init", "shutdown"}, i \in Nat : [op |-> k, id |-> i] \in Lines
      /\ \A l \in Lines : l.op \in EventKinds \cup {"init", "shutdown"} /\ l.id \in Nat
  BY DEF Lines
<1>2. ASSUME Drain PROVE replies' \in Replies /\ fromChild' \in Seq(Answers)
  <2>1. Draining(replies, fromChild) \in Replies
    BY DrainingType DEF PipesOK
  <2> QED
    BY <1>0, <1>2, <2>1, DrainedIs DEF Drain
<1>3. CASE Enable
  BY <1>1, <1>3 DEF Enable, PipesOK
<1>4. CASE Stop
  BY <1>1, <1>4 DEF Stop, PipesOK
<1>5. CASE Send
  <2>1. Append(toChild, line) \in Seq(Lines)
    BY <1>5 DEF Send, PipesOK
  <2>2. server' = "waiting" => line.op \in EventKinds
    BY <1>1, <1>5 DEF Send, PipesOK
  <2>3. server' # "writing"
    BY <1>5 DEF Send
  <2> QED
    BY <1>5, <2>1, <2>2, <2>3 DEF Send, PipesOK
<1>6. CASE BrokenPipe
  BY <1>6 DEF BrokenPipe, PipesOK
<1>7. CASE AwaitInit
  BY <1>1, <1>2, <1>7 DEF AwaitInit, PipesOK
<1>8. CASE InitTimesOut
  BY <1>0, <1>8 DEF InitTimesOut, PipesOK
<1>9. CASE Poll
  BY <1>2, <1>9 DEF Poll, PipesOK
<1>10. CASE Conclude
  BY <1>2, <1>10 DEF Conclude, PipesOK
<1>11. CASE Reap
  BY <1>0, <1>11 DEF Reap, PipesOK
<1>12. CASE ChildReads
  <2>1. Tail(toChild) \in Seq(Lines) /\ Head(toChild) \in Lines
    BY <1>12 DEF ChildReads, PipesOK
  <2>2. CASE Head(toChild).op = "shutdown"
    BY <1>12, <2>1, <2>2 DEF ChildReads, PipesOK
  <2>3. CASE Head(toChild).op # "shutdown"
    <3>1. answers' \in Seq(Answers)
      BY <1>12, <2>1, <2>3, AnswersForm DEF ChildReads
    <3> QED
      BY <1>12, <2>1, <2>3, <3>1 DEF ChildReads, PipesOK
  <2> QED
    BY <2>2, <2>3
<1>13. CASE ChildWrites
  <2>1. /\ answers # << >> /\ Tail(answers) \in Seq(Answers) /\ Head(answers) \in Answers
        /\ Append(fromChild, Head(answers)) \in Seq(Answers)
    BY <1>13 DEF ChildWrites, PipesOK
  <2>2. late' \in BOOLEAN
    BY <1>13 DEF ChildWrites, PipesOK
  <2> QED
    BY <1>13, <2>1, <2>2 DEF ChildWrites, PipesOK
<1>14. CASE ChildDies
  BY <1>0, <1>14 DEF ChildDies, PipesOK
<1>15. ASSUME NEW k \in EventKinds, Fire(k) PROVE PipesOK'
  <2>1. replies' \in Replies
    BY <1>15, ClearedSaysNothing DEF Fire, PipesOK
  <2>2. CASE held
    <3>1. server' = "writing" /\ line' = [op |-> k, id |-> Len(events')] /\ events' = Append(events, k)
      BY <1>15, <2>2 DEF Fire
    <3> QED
      BY <1>1, <1>15, <2>1, <3>1 DEF Fire, PipesOK
  <2>3. CASE ~held
    BY <1>15, <2>1, <2>3 DEF Fire, PipesOK
  <2> QED
    BY <2>2, <2>3
<1>16. CASE UNCHANGED vars
  BY <1>16 DEF vars, PipesOK
<1> QED
  BY <1>3, <1>4, <1>5, <1>6, <1>7, <1>8, <1>9, <1>10, <1>11, <1>12, <1>13, <1>14, <1>15,
     <1>16 DEF Next, Server, Child

(***************************************************************************)
(* How a question travels.  Each event is asked for once: its line is to   *)
(* be written, or in the pipe, or its answer is about to be written, or    *)
(* the answer is given.                                                    *)
(***************************************************************************)
\* The event e is one of kind k, and was not answered.
Awaits(ev, gv, e, k) == e \in DOMAIN ev /\ ev[e] = k /\ gv[e] = "none"

IsQuestion(l) == l.op \in EventKinds
IsVerdict(a) == a.op \in Verdicts

\* In the pipe to the process.
AskedLines ==
  /\ \A n \in DOMAIN toChild :
       IsQuestion(toChild[n]) => Awaits(events, given, toChild[n].id, toChild[n].op)
  /\ \A m, n \in DOMAIN toChild :
       IsQuestion(toChild[m]) /\ IsQuestion(toChild[n]) /\ toChild[m].id = toChild[n].id
         => m = n

\* In the process.
AskedAnswers ==
  \A m \in DOMAIN answers :
    IsVerdict(answers[m]) =>
      /\ Len(answers) = 1
      /\ \E k \in EventKinds :
           Awaits(events, given, answers[m].id, k) /\ answers[m].op \in VerdictsOf(k)
      /\ \A n \in DOMAIN toChild : IsQuestion(toChild[n]) => toChild[n].id # answers[m].id

\* In the server.
AskedNow ==
  server = "writing" /\ IsQuestion(line) =>
    /\ given[line.id] = "none"
    /\ \A n \in DOMAIN toChild : IsQuestion(toChild[n]) => toChild[n].id # line.id
    /\ \A m \in DOMAIN answers : IsVerdict(answers[m]) => answers[m].id # line.id

\* What is answered is of the event's kind, and written once.
Answered ==
  /\ \A e \in DOMAIN events : given[e] = "none" \/ given[e] \in VerdictsOf(events[e])
  /\ \A n \in DOMAIN fromChild :
       IsVerdict(fromChild[n]) =>
         fromChild[n].id \in DOMAIN events /\ given[fromChild[n].id] = fromChild[n].op
  /\ \A m, n \in DOMAIN fromChild :
       IsVerdict(fromChild[m]) /\ IsVerdict(fromChild[n]) /\ fromChild[m].id = fromChild[n].id
         => m = n

Asked == AskedLines /\ AskedAnswers /\ AskedNow /\ Answered

TurnInv == PipesOK /\ Turns /\ Asked

LEMMA TurnsStep == TurnInv /\ [Next]_vars => Turns'
<1> SUFFICES ASSUME TurnInv, [Next]_vars PROVE Turns'
  OBVIOUS
<1>0. PipesOK /\ Turns /\ Asked
  BY DEF TurnInv
<1>1. Len(events) \in Nat /\ Len(given) \in Nat /\ Len(taken) \in Nat
  BY <1>0 DEF Turns
<1>2. \A k \in EventKinds : k # "init" /\ k # "shutdown" /\ k # "none"
  BY DEF EventKinds, Cancelable
<1>3. CASE Enable
  BY <1>0, <1>2, <1>3 DEF Enable, Turns, Asking
<1>4. CASE Stop
  BY <1>0, <1>2, <1>4 DEF Stop, Turns, Asking
<1>5. CASE Send
  BY <1>0, <1>2, <1>5 DEF Send, Turns, Asking, PipesOK, Lines
<1>6. CASE BrokenPipe
  BY <1>0, <1>6 DEF BrokenPipe, Turns, Asking
<1>7. CASE AwaitInit
  BY <1>0, <1>2, <1>7 DEF AwaitInit, Turns, Asking
<1>8. CASE InitTimesOut
  BY <1>0, <1>8 DEF InitTimesOut, Turns, Asking
<1>9. CASE Poll
  BY <1>0, <1>9 DEF Poll, Turns, Asking
<1>10. CASE Conclude
  <2>1. replies' \in Replies
    <3>1. Draining(replies, fromChild) \in Replies
      BY <1>0, DrainingType DEF PipesOK
    <3> QED
      BY <1>10, <3>1, DrainedIs DEF Conclude, Drain
  <2>2. line.op \in EventKinds /\ Asking
    BY <1>0, <1>10 DEF Conclude, PipesOK, Asking
  <2>3. Taken(line.op, replies') \in VerdictSet
    BY <2>1, <2>2, TakenType
  <2>4. Append(taken, Taken(line.op, replies')) \in Seq(VerdictSet)
        /\ Len(Append(taken, Taken(line.op, replies'))) = Len(taken) + 1
    BY <1>0, <2>3 DEF Turns
  <2> QED
    BY <1>0, <1>1, <1>10, <2>2, <2>4 DEF Conclude, Turns, Asking
<1>11. CASE Reap
  BY <1>0, <1>11 DEF Reap, Turns, Asking
<1>12. CASE ChildReads
  BY <1>0, <1>12 DEF ChildReads, Turns, Asking
<1>13. CASE ChildWrites
  <2>1. given' \in Seq(Verdicts \cup {"none"}) /\ Len(given') = Len(given)
    <3>1. CASE IsVerdict(Head(answers))
      <4>1. 1 \in DOMAIN answers /\ Head(answers) = answers[1]
        BY <1>0, <1>13 DEF ChildWrites, PipesOK
      <4>2. Head(answers).id \in DOMAIN events
        BY <1>0, <3>1, <4>1 DEF Asked, AskedAnswers, Awaits
      <4>3. Head(answers).id \in 1..Len(given)
        BY <1>0, <4>2 DEF Turns
      <4>4. given' = [given EXCEPT ![Head(answers).id] = Head(answers).op]
        BY <1>13, <3>1 DEF ChildWrites, IsVerdict
      <4> QED
        BY <1>0, <3>1, <4>3, <4>4, ExceptSeq DEF Turns, IsVerdict
    <3>2. CASE ~IsVerdict(Head(answers))
      BY <1>0, <1>13, <3>2 DEF ChildWrites, IsVerdict, Turns
    <3> QED
      BY <3>1, <3>2
  <2> QED
    BY <1>0, <1>13, <2>1 DEF ChildWrites, Turns, Asking
<1>14. CASE ChildDies
  BY <1>0, <1>14 DEF ChildDies, Turns, Asking
<1>15. ASSUME NEW k \in EventKinds, Fire(k) PROVE Turns'
  <2>1. /\ events' = Append(events, k) /\ events' \in Seq(EventKinds)
        /\ Len(events') = Len(events) + 1 /\ events'[Len(events) + 1] = k
        /\ given' \in Seq(Verdicts \cup {"none"}) /\ Len(given') = Len(given) + 1
    BY <1>0, <1>15 DEF Fire, Turns
  <2>2. Len(taken) = Len(events)
    BY <1>0, <1>15 DEF Fire, Turns, Asking
  <2>3. CASE held
    <3>1. server' = "writing" /\ line' = [op |-> k, id |-> Len(events')] /\ taken' = taken
      BY <1>15, <2>3 DEF Fire
    <3>2. line'.op = k /\ line'.id = Len(events) + 1
      BY <2>1, <3>1
    <3> QED
      BY <1>0, <1>1, <2>1, <2>2, <3>1, <3>2 DEF Turns, Asking
  <2>4. CASE ~held
    <3>1. NoVerdict \in VerdictSet
      BY DEF NoVerdict, VerdictSet
    <3>2. taken' \in Seq(VerdictSet) /\ Len(taken') = Len(taken) + 1
      <4>1. taken' = Append(taken, NoVerdict)
        BY <1>15, <2>4 DEF Fire
      <4>2. taken \in Seq(VerdictSet)
        BY <1>0 DEF Turns
      <4> QED
        BY <3>1, <4>1, <4>2
    <3>3. server' = "idle"
      BY <1>15, <2>4 DEF Fire
    <3> QED
      BY <1>0, <1>1, <2>1, <2>2, <3>2, <3>3 DEF Turns, Asking
  <2> QED
    BY <2>3, <2>4
<1>16. CASE UNCHANGED vars
  BY <1>0, <1>16 DEF vars, Turns, Asking
<1> QED
  BY <1>3, <1>4, <1>5, <1>6, <1>7, <1>8, <1>9, <1>10, <1>11, <1>12, <1>13, <1>14, <1>15,
     <1>16 DEF Next, Server, Child

LEMMA AskedInit == Init => Asked
<1> SUFFICES ASSUME Init PROVE Asked
  OBVIOUS
<1>1. DOMAIN << >> = {}
  OBVIOUS
<1>2. /\ DOMAIN toChild = {} /\ DOMAIN answers = {} /\ DOMAIN fromChild = {}
      /\ DOMAIN events = {} /\ server = "off"
  BY <1>1 DEF Init
<1> QED
  BY <1>2 DEF Asked, AskedLines, AskedAnswers, AskedNow, Answered

\* What an event was, and that it was not answered, stays while no answer to it
\* is written and as further events are fired.
LEMMA AskedStep == TurnInv /\ [Next]_vars => Asked'
<1> SUFFICES ASSUME TurnInv, [Next]_vars PROVE Asked'
  OBVIOUS
<1>0. PipesOK /\ Turns /\ AskedLines /\ AskedAnswers /\ AskedNow /\ Answered
  BY DEF TurnInv, Asked
<1>1. /\ Len(taken) \in Nat /\ Len(events) \in Nat
      /\ DOMAIN events = 1..Len(events) /\ DOMAIN given = 1..Len(events)
      /\ Len(answers) \in Nat /\ DOMAIN answers = 1..Len(answers)
      /\ Len(toChild) \in Nat /\ DOMAIN toChild = 1..Len(toChild)
      /\ Len(fromChild) \in Nat /\ DOMAIN fromChild = 1..Len(fromChild)
  BY <1>0 DEF Turns, PipesOK
<1>2. DOMAIN << >> = {}
  OBVIOUS
<1>3. "init" \notin EventKinds /\ "shutdown" \notin EventKinds
  BY DEF EventKinds, Cancelable
\* Steps that ask and answer nothing, and may empty a pipe.
<1>4. ASSUME answers' = answers \/ answers' = << >>, toChild' = toChild \/ toChild' = << >>,
             fromChild' = fromChild \/ fromChild' = << >>, UNCHANGED <<events, given>>,
             server' = "writing" /\ IsQuestion(line)' =>
               server = "writing" /\ UNCHANGED line
      PROVE  Asked'
  <2>1. /\ \A m \in DOMAIN answers' : m \in DOMAIN answers /\ answers'[m] = answers[m]
                                      /\ Len(answers') = Len(answers)
        /\ \A m \in DOMAIN toChild' : m \in DOMAIN toChild /\ toChild'[m] = toChild[m]
        /\ \A m \in DOMAIN fromChild' : m \in DOMAIN fromChild /\ fromChild'[m] = fromChild[m]
    BY <1>2, <1>4
  <2>2. AskedLines'
    BY <1>0, <1>4, <2>1 DEF AskedLines, IsQuestion, Awaits
  <2>3. AskedAnswers'
    BY <1>0, <1>4, <2>1 DEF AskedAnswers, IsQuestion, IsVerdict, Awaits
  <2>4. AskedNow'
    BY <1>0, <1>4, <2>1 DEF AskedNow, IsQuestion, IsVerdict
  <2>5. Answered'
    BY <1>0, <1>4, <2>1 DEF Answered, IsVerdict
  <2> QED
    BY <2>2, <2>3, <2>4, <2>5 DEF Asked
<1>5. CASE InitTimesOut
  BY <1>4, <1>5 DEF InitTimesOut
<1>6. CASE Enable
  BY <1>3, <1>4, <1>6 DEF Enable, IsQuestion
<1>7. CASE Stop
  BY <1>3, <1>4, <1>7 DEF Stop, IsQuestion
<1>8. CASE BrokenPipe
  BY <1>4, <1>8 DEF BrokenPipe
<1>9. CASE AwaitInit
  BY <1>3, <1>4, <1>9 DEF AwaitInit, Drain, IsQuestion
<1>10. CASE Poll
  BY <1>4, <1>10 DEF Poll, Drain
<1>11. CASE Conclude
  BY <1>4, <1>11 DEF Conclude, Drain
<1>12. CASE Reap
  BY <1>4, <1>12 DEF Reap
<1>13. CASE ChildDies
  BY <1>4, <1>13 DEF ChildDies
<1>14. CASE UNCHANGED vars
  BY <1>4, <1>14 DEF vars
<1>15. CASE Send
  <2>1. /\ toChild' = Append(toChild, line) /\ DOMAIN toChild' = 1..(Len(toChild) + 1)
        /\ \A n \in 1..Len(toChild) : toChild'[n] = toChild[n]
        /\ toChild'[Len(toChild) + 1] = line
    BY <1>0, <1>15 DEF Send, PipesOK
  <2>2. UNCHANGED <<line, answers, fromChild, events, given>> /\ server = "writing"
        /\ server' # "writing"
    BY <1>15 DEF Send
  <2>3. IsQuestion(line) =>
          /\ Awaits(events, given, line.id, line.op)
          /\ \A n \in DOMAIN toChild : IsQuestion(toChild[n]) => toChild[n].id # line.id
          /\ \A m \in DOMAIN answers : IsVerdict(answers[m]) => answers[m].id # line.id
    <3> SUFFICES ASSUME IsQuestion(line)
                 PROVE  /\ Awaits(events, given, line.id, line.op)
                        /\ \A n \in DOMAIN toChild : IsQuestion(toChild[n]) => toChild[n].id # line.id
                        /\ \A m \in DOMAIN answers : IsVerdict(answers[m]) => answers[m].id # line.id
      OBVIOUS
    <3>1. Asking
      BY <2>2 DEF Asking, IsQuestion
    <3>2. line.id = Len(events) /\ Len(events) = Len(taken) + 1 /\ line.op = events[line.id]
      BY <1>0, <3>1 DEF Turns
    <3>3. line.id \in DOMAIN events
      BY <1>1, <3>2
    <3> QED
      BY <1>0, <2>2, <3>2, <3>3 DEF AskedNow, Awaits
  <2>4. AskedLines'
    BY <1>0, <1>1, <2>1, <2>2, <2>3 DEF AskedLines
  <2>5. AskedAnswers'
    BY <1>0, <1>1, <2>1, <2>2, <2>3 DEF AskedAnswers
  <2>6. AskedNow' /\ Answered'
    BY <1>0, <2>2 DEF AskedNow, Answered
  <2> QED
    BY <2>4, <2>5, <2>6 DEF Asked
<1>16. CASE ChildReads
  <2>1. /\ toChild # << >> /\ toChild' = Tail(toChild)
        /\ UNCHANGED <<server, line, fromChild, events, given>>
    BY <1>16 DEF ChildReads
  <2>2. /\ 1 \in DOMAIN toChild /\ Head(toChild) = toChild[1] /\ Head(toChild) \in Lines
        /\ \A n \in DOMAIN toChild' : n + 1 \in DOMAIN toChild /\ toChild'[n] = toChild[n + 1]
                                      /\ n \in Nat \ {0}
    BY <1>0, <2>1 DEF PipesOK
  <2>3. AskedLines'
    BY <1>0, <1>1, <2>1, <2>2 DEF AskedLines
  <2>4. CASE Head(toChild).op = "shutdown"
    <3>1. answers' = answers
      BY <1>16, <2>4 DEF ChildReads
    <3>2. AskedAnswers' /\ AskedNow' /\ Answered'
      BY <1>0, <2>1, <2>2, <3>1 DEF AskedAnswers, AskedNow, Answered
    <3> QED
      BY <2>3, <3>2 DEF Asked
  <2>5. CASE Head(toChild).op # "shutdown"
    <3>1. answers' \in AnswersTo(Head(toChild))
      BY <1>16, <2>5 DEF ChildReads
    <3>2. \A m \in DOMAIN answers' : IsVerdict(answers'[m]) =>
            /\ Len(answers') = 1 /\ answers'[m].id = toChild[1].id
            /\ IsQuestion(toChild[1]) /\ answers'[m].op \in VerdictsOf(toChild[1].op)
      BY <2>2, <2>5, <3>1, AnswersForm DEF IsVerdict, IsQuestion
    <3>3. AskedAnswers'
      <4> SUFFICES ASSUME NEW m \in DOMAIN answers', IsVerdict(answers'[m])
                   PROVE  /\ Len(answers') = 1
                          /\ \E k \in EventKinds : Awaits(events, given, answers'[m].id, k)
                                                   /\ answers'[m].op \in VerdictsOf(k)
                          /\ \A n \in DOMAIN toChild' :
                               IsQuestion(toChild'[n]) => toChild'[n].id # answers'[m].id
        BY <2>1 DEF AskedAnswers
      <4>1. /\ Len(answers') = 1 /\ answers'[m].id = toChild[1].id
            /\ IsQuestion(toChild[1]) /\ answers'[m].op \in VerdictsOf(toChild[1].op)
        BY <3>2
      <4>2. Awaits(events, given, toChild[1].id, toChild[1].op) /\ toChild[1].op \in EventKinds
        BY <1>0, <2>2, <4>1 DEF AskedLines, IsQuestion
      <4>3. \A n \in DOMAIN toChild' : IsQuestion(toChild'[n]) => toChild'[n].id # toChild[1].id
        BY <1>0, <2>2, <4>1 DEF AskedLines
      <4> QED
        BY <4>1, <4>2, <4>3
    <3>4. AskedNow'
      BY <1>0, <2>1, <2>2, <3>2 DEF AskedNow
    <3>5. Answered'
      BY <1>0, <2>1 DEF Answered
    <3> QED
      BY <2>3, <3>3, <3>4, <3>5 DEF Asked
  <2> QED
    BY <2>4, <2>5
<1>17. ASSUME NEW k \in EventKinds, Fire(k) PROVE Asked'
  <2>1. /\ events' = Append(events, k) /\ given' = Append(given, "none")
        /\ UNCHANGED <<answers, toChild, fromChild>>
        /\ server = "idle"
        /\ server' = "writing" => line' = [op |-> k, id |-> Len(events')]
    BY <1>17 DEF Fire
  <2>2. /\ DOMAIN events' = 1..(Len(events) + 1) /\ Len(events') = Len(events) + 1
        /\ \A e \in 1..Len(events) : events'[e] = events[e] /\ given'[e] = given[e]
        /\ events'[Len(events) + 1] = k /\ given'[Len(events) + 1] = "none"
    BY <1>0, <2>1 DEF Turns
  <2>3. \A e, j : Awaits(events, given, e, j) => Awaits(events', given', e, j)
                                                /\ e # Len(events) + 1
    BY <1>1, <2>2 DEF Awaits
  <2>4. AskedLines'
    BY <1>0, <2>1, <2>3 DEF AskedLines
  <2>5. AskedAnswers'
    BY <1>0, <2>1, <2>3 DEF AskedAnswers
  <2>6. AskedNow'
    <3>1. \A m \in DOMAIN answers : IsVerdict(answers[m]) => answers[m].id # Len(events) + 1
      BY <1>0, <2>3 DEF AskedAnswers
    <3>2. \A n \in DOMAIN toChild : IsQuestion(toChild[n]) => toChild[n].id # Len(events) + 1
      BY <1>0, <2>3 DEF AskedLines
    <3>3. server' = "writing" => line'.id = Len(events) + 1
      BY <2>1, <2>2
    <3>4. given'[Len(events) + 1] = "none"
      BY <2>2
    <3> HIDE DEF IsQuestion, IsVerdict
    <3> QED
      BY <2>1, <3>1, <3>2, <3>3, <3>4 DEF AskedNow
  <2>7. Answered'
    BY <1>0, <1>1, <2>1, <2>2 DEF Answered
  <2> QED
    BY <2>4, <2>5, <2>6, <2>7 DEF Asked
<1>18. CASE ChildWrites
  <2> DEFINE a == Head(answers)
  <2>1. /\ answers # << >> /\ 1 \in DOMAIN answers /\ a = answers[1]
        /\ UNCHANGED <<server, line, toChild, events>>
        /\ fromChild' = Append(fromChild, a) /\ answers' = Tail(answers)
    BY <1>0, <1>18 DEF ChildWrites, PipesOK
  <2>2. /\ DOMAIN fromChild' = 1..(Len(fromChild) + 1)
        /\ \A n \in 1..Len(fromChild) : fromChild'[n] = fromChild[n]
        /\ fromChild'[Len(fromChild) + 1] = a
        /\ \A m \in DOMAIN answers' : m + 1 \in DOMAIN answers /\ answers'[m] = answers[m + 1]
        /\ Len(answers) = 1 => DOMAIN answers' = {}
    <3>1. answers \in Seq(Answers) /\ fromChild \in Seq(Answers) /\ a \in Answers
      BY <1>0, <2>1 DEF PipesOK
    <3> HIDE DEF a
    <3>2. /\ DOMAIN fromChild' = 1..(Len(fromChild) + 1)
          /\ \A n \in 1..Len(fromChild) : fromChild'[n] = fromChild[n]
          /\ fromChild'[Len(fromChild) + 1] = a
      BY <2>1, <3>1
    <3>3. /\ DOMAIN answers' = 1..(Len(answers) - 1)
          /\ \A m \in 1..(Len(answers) - 1) : answers'[m] = answers[m + 1]
      BY <2>1, <3>1
    <3>4. Len(answers) \in Nat /\ DOMAIN answers = 1..Len(answers)
      BY <1>1
    <3>5. \A m \in DOMAIN answers' : m + 1 \in DOMAIN answers /\ answers'[m] = answers[m + 1]
      <4> SUFFICES ASSUME NEW m \in 1..(Len(answers) - 1)
                   PROVE  m + 1 \in 1..Len(answers) /\ answers'[m] = answers[m + 1]
        BY <3>3, <3>4
      <4> QED
        BY <3>3, <3>4
    <3>6. Len(answers) = 1 => DOMAIN answers' = {}
      BY <3>3
    <3> QED
      BY <3>2, <3>5, <3>6
  <2>3. CASE IsVerdict(a)
    <3>1. given' = [given EXCEPT ![a.id] = a.op]
      BY <1>18, <2>3 DEF ChildWrites, IsVerdict
    <3>2. PICK k \in EventKinds : Awaits(events, given, a.id, k) /\ a.op \in VerdictsOf(k)
      BY <1>0, <2>1, <2>3 DEF AskedAnswers
    <3>3. /\ DOMAIN answers' = {}
          /\ \A n \in DOMAIN toChild : IsQuestion(toChild[n]) => toChild[n].id # a.id
      BY <1>0, <2>1, <2>2, <2>3 DEF AskedAnswers
    <3> HIDE DEF a
    <3>4. /\ \A e \in DOMAIN events : e # a.id => given'[e] = given[e]
          /\ given'[a.id] = a.op /\ a.id \in DOMAIN events /\ events[a.id] = k
          /\ given[a.id] = "none"
      BY <1>1, <3>1, <3>2 DEF Awaits
    <3>5. \A e, j : Awaits(events, given, e, j) /\ e # a.id => Awaits(events, given', e, j)
      BY <3>4 DEF Awaits
    <3>6. AskedLines'
      BY <1>0, <2>1, <3>3, <3>5 DEF AskedLines
    <3>7. AskedAnswers'
      BY <3>3 DEF AskedAnswers
    <3>8. AskedNow'
      <4> SUFFICES ASSUME server = "writing", IsQuestion(line)
                   PROVE  /\ given'[line.id] = "none"
                          /\ \A n \in DOMAIN toChild : IsQuestion(toChild[n]) => toChild[n].id # line.id
        BY <2>1, <3>3 DEF AskedNow
      <4>1. line.id \in DOMAIN events /\ line.id # a.id
        <5>1. Asking
          BY DEF Asking, IsQuestion
        <5>2. line.id = Len(events) /\ Len(events) = Len(taken) + 1
          BY <1>0, <5>1 DEF Turns
        <5> QED
          BY <1>0, <1>1, <2>1, <2>3, <5>2 DEF AskedNow
      <4> QED
        BY <1>0, <3>4, <4>1 DEF AskedNow
    <3>9. Answered'
      <4>1. \A e \in DOMAIN events : given'[e] = "none" \/ given'[e] \in VerdictsOf(events[e])
        BY <1>0, <3>2, <3>4 DEF Answered
      <4>2. \A n \in 1..Len(fromChild) : IsVerdict(fromChild[n]) => fromChild[n].id # a.id
        BY <1>0, <1>1, <3>4 DEF Answered, IsVerdict, Verdicts
      <4>3. \A n \in DOMAIN fromChild' :
               IsVerdict(fromChild'[n]) =>
                 fromChild'[n].id \in DOMAIN events /\ given'[fromChild'[n].id] = fromChild'[n].op
        BY <1>0, <1>1, <2>2, <3>4, <4>2 DEF Answered
      <4>4. \A m, n \in DOMAIN fromChild' :
              IsVerdict(fromChild'[m]) /\ IsVerdict(fromChild'[n]) /\ fromChild'[m].id = fromChild'[n].id
                => m = n
        BY <1>0, <1>1, <2>2, <4>2 DEF Answered
      <4> QED
        BY <2>1, <4>1, <4>3, <4>4 DEF Answered
    <3> QED
      BY <3>6, <3>7, <3>8, <3>9 DEF Asked
  <2>4. CASE ~IsVerdict(a)
    <3>1. given' = given
      BY <1>18, <2>4 DEF ChildWrites, IsVerdict
    <3> HIDE DEF a
    <3>2. AskedLines' /\ AskedNow'
      BY <1>0, <2>1, <2>2, <3>1 DEF AskedLines, AskedNow
    <3>3. AskedAnswers'
      <4>1. \A m \in DOMAIN answers' : ~IsVerdict(answers'[m])
        <5>1. ASSUME NEW m \in DOMAIN answers', IsVerdict(answers'[m]) PROVE FALSE
          <6>1. Len(answers) = 1
            BY <1>0, <2>2, <5>1 DEF AskedAnswers
          <6> QED
            BY <2>2, <5>1, <6>1
        <5> QED
          BY <5>1
      <4> QED
        BY <4>1 DEF AskedAnswers
    <3>4. Answered'
      <4>1. \A n \in DOMAIN fromChild' :
              IsVerdict(fromChild'[n]) => n \in DOMAIN fromChild /\ fromChild'[n] = fromChild[n]
        BY <1>1, <2>2, <2>4
      <4> QED
        BY <1>0, <2>1, <3>1, <4>1 DEF Answered
    <3> QED
      BY <3>2, <3>3, <3>4 DEF Asked
  <2> QED
    BY <2>3, <2>4
<1> QED
  BY <1>5, <1>6, <1>7, <1>8, <1>9, <1>10, <1>11, <1>12, <1>13, <1>14, <1>15, <1>16, <1>17,
     <1>18 DEF Next, Server, Child

\* Every event is asked for once, and what is answered is a verdict of its kind.
THEOREM TurnsHold == Spec => []TurnInv
<1>1. Init => TurnInv
  BY PipesInit, AskedInit DEF TurnInv
<1>2. TurnInv /\ [Next]_vars => TurnInv'
  BY PipesStep, TurnsStep, AskedStep DEF TurnInv
<1> QED
  BY <1>1, <1>2, PTL DEF Spec

(***************************************************************************)
(* What is heeded.                                                         *)
(***************************************************************************)
Silent(s) == \A n \in DOMAIN s : ~IsVerdict(s[n])

\* Lines that are no verdicts make none.
LEMMA SilenceSaysNothing ==
  ASSUME NEW r \in Replies, NEW s \in Seq(Answers), Silent(s), NEW k \in EventKinds
  PROVE  Taken(k, Draining(r, s)) = Taken(k, r)
<1>1. \A op \in Verdicts : SaidIn(s, op) = {}
  BY DEF Silent, IsVerdict, SaidIn
<1>2. /\ Draining(r, s).chat = r.chat /\ Draining(r, s).command = r.command
      /\ Draining(r, s).sign = r.sign /\ Draining(r, s).rewrite = r.rewrite
  BY <1>1 DEF Verdicts, Draining, Replies
<1> QED
  BY <1>2 DEF Taken

\* One more line that is no verdict changes none.
LEMMA LogSaysNothing ==
  ASSUME NEW r \in Replies, NEW s \in Seq(Answers), NEW a \in Answers, ~IsVerdict(a),
         NEW k \in EventKinds
  PROVE  Taken(k, Draining(r, Append(s, a))) = Taken(k, Draining(r, s))
<1>1. Draining(r, s) \in Replies /\ Draining(r, Append(s, a)) \in Replies
  <2>1. Append(s, a) \in Seq(Answers)
    OBVIOUS
  <2> QED
    BY <2>1, DrainingType
<1>2. /\ Draining(r, Append(s, a)).chat = Draining(r, s).chat
      /\ Draining(r, Append(s, a)).command = Draining(r, s).command
      /\ Draining(r, Append(s, a)).sign = Draining(r, s).sign
      /\ Draining(r, Append(s, a)).rewrite = Draining(r, s).rewrite
  BY <1>1, DrainMore DEF IsVerdict, Verdicts, Replies
<1> QED
  BY <1>2 DEF Taken

\* The first verdict on an event is what the handler makes of it.
LEMMA VerdictIsRead ==
  ASSUME NEW r \in Replies, NEW s \in Seq(Answers), NEW a \in Answers,
         NEW k \in EventKinds, a.op \in VerdictsOf(k),
         Taken(k, Draining(r, s)) = NoVerdict
  PROVE  Taken(k, Draining(r, Append(s, a))) = VerdictOf(a.op, a.id)
<1> DEFINE d == Draining(r, s)
           e == Draining(r, Append(s, a))
<1>1. /\ e.chat = (d.chat \/ a.op = "cancel_chat")
      /\ e.command = (d.command \/ a.op = "handle_command")
      /\ e.sign = (d.sign \/ a.op = "cancel_sign")
      /\ e.rewrite = IF a.op = "rewrite_sign" THEN a.id ELSE d.rewrite
  BY DrainMore
<1>2. d \in Replies /\ Taken(k, d) = NoVerdict
  BY DrainingType
<1> HIDE DEF d, e
<1>3. Taken(k, e) = VerdictOf(a.op, a.id)
  <2>1. CASE k = "chat"
    <3>1. a.op = "cancel_chat" /\ e.chat = TRUE
      BY <1>1, <2>1 DEF VerdictsOf
    <3>2. Taken(k, e) = [cancelled |-> TRUE, text |-> 0]
      BY <2>1, <3>1 DEF Taken, NoVerdict
    <3>3. VerdictOf(a.op, a.id) = [cancelled |-> TRUE, text |-> 0]
      BY <3>1 DEF VerdictOf
    <3> QED
      BY <3>2, <3>3
  <2>2. CASE k = "command"
    <3>1. a.op = "handle_command" /\ e.command = TRUE
      BY <1>1, <2>2 DEF VerdictsOf
    <3>2. Taken(k, e) = [cancelled |-> TRUE, text |-> 0]
      BY <2>2, <3>1 DEF Taken, NoVerdict
    <3>3. VerdictOf(a.op, a.id) = [cancelled |-> TRUE, text |-> 0]
      BY <3>1 DEF VerdictOf
    <3> QED
      BY <3>2, <3>3
  <2>3. CASE k = "sign"
    <3>1. d.sign = FALSE /\ d.rewrite = 0
      BY <1>2, <2>3 DEF Taken, NoVerdict
    <3>2. CASE a.op = "cancel_sign"
      <4>1. e.sign = TRUE /\ e.rewrite = 0
        BY <1>1, <3>1, <3>2
      <4> QED
        BY <2>3, <3>2, <4>1 DEF Taken, VerdictOf
    <3>3. CASE a.op = "rewrite_sign"
      <4>1. e.sign = FALSE /\ e.rewrite = a.id
        BY <1>1, <3>1, <3>3
      <4> QED
        BY <2>3, <3>3, <4>1 DEF Taken, VerdictOf
    <3> QED
      BY <2>3, <3>2, <3>3 DEF VerdictsOf
  <2>4. CASE k = "block"
    BY <2>4 DEF VerdictsOf
  <2> QED
    BY <2>1, <2>2, <2>3, <2>4 DEF EventKinds, Cancelable
<1> QED
  BY <1>3 DEF e

\* While no answer came late: verdicts are in the pipe only while their event
\* is waited for, what the handler would make of them is what was answered,
\* and nothing is left over from earlier events.
PipeIsPrompt ==
  \A n \in DOMAIN fromChild :
    IsVerdict(fromChild[n]) => server = "waiting" /\ fromChild[n].id = line.id
ReadSoFar ==
  server = "waiting" =>
    Taken(line.op, Draining(replies, fromChild)) = VerdictOf(given[line.id], line.id)
NothingLeft == server = "writing" /\ IsQuestion(line) => Taken(line.op, replies) = NoVerdict
Heeded == \A e \in DOMAIN taken : taken[e] = VerdictOf(given[e], e)

Prompt == ~late => PipeIsPrompt /\ ReadSoFar /\ NothingLeft /\ Heeded

LEMMA PromptInit == Init => Prompt
<1> SUFFICES ASSUME Init PROVE PipeIsPrompt /\ ReadSoFar /\ NothingLeft /\ Heeded
  BY DEF Prompt
<1>1. DOMAIN fromChild = {} /\ DOMAIN taken = {} /\ server = "off"
  BY DEF Init
<1> QED
  BY <1>1 DEF PipeIsPrompt, ReadSoFar, NothingLeft, Heeded

LEMMA PromptStep == TurnInv /\ Prompt /\ [Next]_vars => Prompt'
<1> SUFFICES ASSUME TurnInv, Prompt, [Next]_vars, ~late'
             PROVE  PipeIsPrompt' /\ ReadSoFar' /\ NothingLeft' /\ Heeded'
  BY DEF Prompt
<1>0. PipesOK /\ Turns /\ AskedLines /\ AskedAnswers /\ AskedNow /\ Answered
  BY DEF TurnInv, Asked
<1>1. ~late
  <2>1. late' = late \/ ChildWrites
    BY DEF Next, Server, Child, vars, Enable, Stop, Send, BrokenPipe, AwaitInit, InitTimesOut,
           Poll, Conclude, Reap, ChildReads, ChildDies, Fire
  <2>2. CASE ChildWrites
    BY <1>0, <2>2 DEF ChildWrites, PipesOK
  <2> QED
    BY <2>1, <2>2
<1>2. PipeIsPrompt /\ ReadSoFar /\ NothingLeft /\ Heeded
  BY <1>1 DEF Prompt
<1>3. /\ Len(events) \in Nat /\ Len(taken) \in Nat
      /\ DOMAIN events = 1..Len(events) /\ DOMAIN given = 1..Len(events)
      /\ DOMAIN taken = 1..Len(taken) /\ DOMAIN fromChild = 1..Len(fromChild)
      /\ Len(fromChild) \in Nat
  BY <1>0 DEF Turns, PipesOK
<1>4. DOMAIN << >> = {}
  OBVIOUS
\* Steps outside of the handlers.
<1>5. ASSUME fromChild' = fromChild \/ fromChild' = << >>, UNCHANGED <<given, taken>>,
             server # "waiting", server' # "waiting",
             server' = "writing" /\ IsQuestion(line)' =>
               server = "writing" /\ UNCHANGED <<line, replies>>
      PROVE  PipeIsPrompt' /\ ReadSoFar' /\ NothingLeft' /\ Heeded'
  <2>1. \A n \in DOMAIN fromChild' : n \in DOMAIN fromChild /\ fromChild'[n] = fromChild[n]
    BY <1>4, <1>5
  <2>2. PipeIsPrompt'
    BY <1>2, <1>5, <2>1 DEF PipeIsPrompt, IsVerdict
  <2>3. ReadSoFar'
    BY <1>5 DEF ReadSoFar
  <2>4. NothingLeft'
    BY <1>2, <1>5 DEF NothingLeft, IsQuestion
  <2>5. Heeded'
    BY <1>2, <1>5 DEF Heeded
  <2> QED
    BY <2>2, <2>3, <2>4, <2>5
\* Steps that do not concern the server's side of the pipes.
<1>6. ASSUME UNCHANGED <<server, line, replies, fromChild, given, taken>>
      PROVE  PipeIsPrompt' /\ ReadSoFar' /\ NothingLeft' /\ Heeded'
  BY <1>2, <1>6 DEF PipeIsPrompt, ReadSoFar, NothingLeft, Heeded, IsQuestion, IsVerdict
<1>7. "init" \notin EventKinds /\ "shutdown" \notin EventKinds
  BY DEF EventKinds, Cancelable
<1>8. CASE Enable
  BY <1>5, <1>7, <1>8 DEF Enable, IsQuestion
<1>9. CASE Stop
  BY <1>5, <1>7, <1>9 DEF Stop, IsQuestion
<1>10. CASE BrokenPipe
  BY <1>5, <1>10 DEF BrokenPipe
<1>11. CASE AwaitInit
  BY <1>5, <1>7, <1>11 DEF AwaitInit, Drain, IsQuestion
<1>12. CASE InitTimesOut
  BY <1>5, <1>12 DEF InitTimesOut
<1>13. CASE Reap
  BY <1>5, <1>13 DEF Reap
<1>14. CASE ChildReads
  BY <1>6, <1>14 DEF ChildReads
<1>15. CASE ChildDies
  BY <1>6, <1>15 DEF ChildDies
<1>16. CASE UNCHANGED vars
  BY <1>6, <1>16 DEF vars
<1>17. CASE Send
  <2>1. /\ server = "writing" /\ UNCHANGED <<line, replies, fromChild, given, taken>>
        /\ server' # "writing"
        /\ server' = "waiting" => IsQuestion(line)
    BY <1>0, <1>17 DEF Send, PipesOK, Lines, IsQuestion
  <2>2. Silent(fromChild)
    BY <1>2, <2>1 DEF PipeIsPrompt, Silent
  <2>3. PipeIsPrompt'
    BY <2>1, <2>2 DEF PipeIsPrompt, Silent
  <2>4. ReadSoFar'
    <3> SUFFICES ASSUME IsQuestion(line)
                 PROVE  Taken(line.op, Draining(replies, fromChild)) = VerdictOf(given[line.id], line.id)
      BY <2>1 DEF ReadSoFar
    <3>1. Taken(line.op, Draining(replies, fromChild)) = Taken(line.op, replies)
      BY <1>0, <2>2, SilenceSaysNothing DEF PipesOK, IsQuestion
    <3>2. given[line.id] = "none"
      BY <1>0, <2>1 DEF AskedNow
    <3> QED
      BY <1>2, <2>1, <3>1, <3>2 DEF NothingLeft, VerdictOf
  <2>5. NothingLeft' /\ Heeded'
    BY <1>2, <2>1 DEF NothingLeft, Heeded
  <2> QED
    BY <2>3, <2>4, <2>5
<1>18. ASSUME NEW k \in EventKinds, Fire(k) PROVE PipeIsPrompt' /\ ReadSoFar' /\ NothingLeft' /\ Heeded'
  <2>1. /\ server = "idle" /\ server' # "waiting" /\ UNCHANGED fromChild
        /\ given' = Append(given, "none")
    BY <1>18 DEF Fire
  <2>2. PipeIsPrompt' /\ ReadSoFar'
    BY <1>2, <2>1 DEF PipeIsPrompt, ReadSoFar
  <2>3. Len(taken) = Len(events)
    BY <1>0, <2>1 DEF Turns, Asking
  <2>4. /\ \A e \in DOMAIN taken : given'[e] = given[e]
        /\ given'[Len(taken) + 1] = "none"
    <3>1. given \in Seq(Verdicts \cup {"none"}) /\ Len(given) = Len(taken)
      BY <1>0, <2>3 DEF Turns
    <3>2. \A e \in 1..Len(given) : given'[e] = given[e]
      BY <2>1, <3>1
    <3>3. given'[Len(given) + 1] = "none"
      BY <2>1, <3>1
    <3> QED
      BY <1>3, <3>1, <3>2, <3>3
  <2>5. CASE held
    <3>1. /\ UNCHANGED taken /\ replies' = Cleared(k)
          /\ line' = [op |-> k, id |-> Len(events')]
      BY <1>18, <2>5 DEF Fire
    <3>2. line'.op = k
      BY <3>1
    <3>3. NothingLeft'
      BY <1>0, <3>1, <3>2, ClearedSaysNothing DEF NothingLeft, PipesOK
    <3>4. Heeded'
      BY <1>2, <2>4, <3>1 DEF Heeded
    <3> QED
      BY <2>2, <3>3, <3>4
  <2>6. CASE ~held
    <3>1. taken' = Append(taken, NoVerdict) /\ server' = "idle"
      BY <1>18, <2>1, <2>6 DEF Fire
    <3>2. /\ DOMAIN taken' = 1..(Len(taken) + 1)
          /\ \A e \in 1..Len(taken) : taken'[e] = taken[e]
          /\ taken'[Len(taken) + 1] = NoVerdict
      BY <1>0, <3>1 DEF Turns
    <3>3. NothingLeft'
      BY <3>1 DEF NothingLeft
    <3>4. \A e : VerdictOf("none", e) = NoVerdict
      BY DEF VerdictOf
    <3>5. Heeded'
      BY <1>2, <1>3, <2>4, <3>2, <3>4 DEF Heeded
    <3> QED
      BY <2>2, <3>3, <3>5
  <2> QED
    BY <2>5, <2>6
<1>19. CASE Poll
  <2>1. /\ server = "waiting" /\ UNCHANGED <<server, line, given, taken>>
        /\ replies' = Draining(replies, fromChild) /\ fromChild' = << >>
    BY <1>19, DrainedIs DEF Poll, Drain
  <2>2. Draining(replies', << >>) = replies'
    BY <1>0, <2>1, DrainingType, DrainEmpty DEF PipesOK
  <2>3. PipeIsPrompt' /\ NothingLeft' /\ Heeded'
    BY <1>2, <1>4, <2>1 DEF PipeIsPrompt, NothingLeft, Heeded
  <2>4. ReadSoFar'
    BY <1>2, <2>1, <2>2 DEF ReadSoFar
  <2> QED
    BY <2>3, <2>4
<1>20. CASE Conclude
  <2>1. /\ server = "waiting" /\ server' = "idle" /\ UNCHANGED <<line, given>>
        /\ fromChild' = << >>
        /\ taken' = Append(taken, Taken(line.op, Draining(replies, fromChild)))
    BY <1>20, DrainedIs DEF Conclude, Drain
  <2>2. PipeIsPrompt' /\ NothingLeft' /\ ReadSoFar'
    BY <1>4, <2>1 DEF PipeIsPrompt, NothingLeft, ReadSoFar
  <2>3. line.id = Len(taken) + 1
    <3>1. Asking
      BY <1>0, <2>1 DEF Asking, PipesOK
    <3> QED
      BY <1>0, <3>1 DEF Turns
  <2>4. /\ DOMAIN taken' = 1..(Len(taken) + 1)
        /\ \A e \in 1..Len(taken) : taken'[e] = taken[e]
        /\ taken'[Len(taken) + 1] = Taken(line.op, Draining(replies, fromChild))
    BY <1>0, <2>1 DEF Turns
  <2>5. Taken(line.op, Draining(replies, fromChild)) = VerdictOf(given[line.id], line.id)
    BY <1>2, <2>1 DEF ReadSoFar
  <2>6. Heeded'
    BY <1>2, <1>3, <2>1, <2>3, <2>4, <2>5 DEF Heeded
  <2> QED
    BY <2>2, <2>6
<1>21. CASE ChildWrites
  <2> DEFINE a == Head(answers)
  <2>1. /\ UNCHANGED <<server, line, replies, taken>> /\ fromChild' = Append(fromChild, a)
        /\ 1 \in DOMAIN answers /\ a = answers[1] /\ a \in Answers
    BY <1>0, <1>21 DEF ChildWrites, PipesOK
  <2>2. CASE IsVerdict(a)
    <3>1. /\ given' = [given EXCEPT ![a.id] = a.op]
          /\ late' = (late \/ ~(server = "waiting" /\ line.id = a.id))
      BY <1>21, <2>2 DEF ChildWrites, IsVerdict
    <3>2. server = "waiting" /\ line.id = a.id
      BY <3>1
    <3>3. PICK k \in EventKinds : Awaits(events, given, a.id, k) /\ a.op \in VerdictsOf(k)
      BY <1>0, <2>1, <2>2 DEF AskedAnswers
    <3> HIDE DEF a
    <3>4. /\ DOMAIN fromChild' = 1..(Len(fromChild) + 1)
          /\ \A n \in 1..Len(fromChild) : fromChild'[n] = fromChild[n]
          /\ fromChild'[Len(fromChild) + 1] = a
      BY <1>0, <2>1 DEF PipesOK
    <3>5. PipeIsPrompt'
      BY <1>2, <1>3, <2>1, <3>2, <3>4 DEF PipeIsPrompt
    <3>6. Asking /\ line.op \in EventKinds
      BY <1>0, <3>2 DEF Asking, PipesOK
    <3>7. line.id = Len(taken) + 1 /\ line.op = events[line.id]
      BY <1>0, <3>6 DEF Turns
    <3>8. k = line.op /\ given[a.id] = "none" /\ a.id \in DOMAIN given
      BY <1>3, <3>2, <3>3, <3>7 DEF Awaits
    <3>9. given'[a.id] = a.op /\ \A e \in DOMAIN taken : given'[e] = given[e]
      BY <1>3, <3>1, <3>2, <3>7, <3>8
    <3>10. ReadSoFar'
      <4>1. Taken(line.op, Draining(replies, fromChild)) = NoVerdict
        BY <1>2, <3>2, <3>8 DEF ReadSoFar, VerdictOf
      <4>2. Taken(k, Draining(replies, Append(fromChild, a))) = VerdictOf(a.op, a.id)
        BY <1>0, <2>1, <3>3, <3>8, <4>1, VerdictIsRead DEF PipesOK
      <4> QED
        BY <2>1, <3>2, <3>8, <3>9, <4>2 DEF ReadSoFar
    <3>11. NothingLeft' /\ Heeded'
      BY <1>2, <2>1, <3>2, <3>9 DEF NothingLeft, Heeded
    <3> QED
      BY <3>5, <3>10, <3>11
  <2>3. CASE ~IsVerdict(a)
    <3>1. given' = given
      BY <1>21, <2>3 DEF ChildWrites, IsVerdict
    <3> HIDE DEF a
    <3>2. /\ DOMAIN fromChild' = 1..(Len(fromChild) + 1)
          /\ \A n \in 1..Len(fromChild) : fromChild'[n] = fromChild[n]
          /\ fromChild'[Len(fromChild) + 1] = a
      BY <1>0, <2>1 DEF PipesOK
    <3>3. PipeIsPrompt'
      BY <1>2, <1>3, <2>1, <2>3, <3>2 DEF PipeIsPrompt
    <3>4. ReadSoFar'
      <4> SUFFICES ASSUME server = "waiting"
                   PROVE  Taken(line.op, Draining(replies, Append(fromChild, a)))
                            = VerdictOf(given[line.id], line.id)
        BY <2>1, <3>1 DEF ReadSoFar
      <4>1. Taken(line.op, Draining(replies, Append(fromChild, a)))
              = Taken(line.op, Draining(replies, fromChild))
        BY <1>0, <2>1, <2>3, LogSaysNothing DEF PipesOK
      <4> QED
        BY <1>2, <4>1 DEF ReadSoFar
    <3>5. NothingLeft' /\ Heeded'
      BY <1>2, <2>1, <3>1 DEF NothingLeft, Heeded
    <3> QED
      BY <3>3, <3>4, <3>5
  <2> QED
    BY <2>2, <2>3
<1> QED
  BY <1>8, <1>9, <1>10, <1>11, <1>12, <1>13, <1>14, <1>15, <1>16, <1>17, <1>18, <1>19,
     <1>20, <1>21 DEF Next, Server, Child

\* While no answer comes late, each event gets the verdict that was meant for it
\* and no other.
THEOREM AnswersAreHeeded == Spec => []PromptIsHeeded
<1>1. Init => TurnInv /\ Prompt
  BY PipesInit, AskedInit, PromptInit DEF TurnInv
<1>2. (TurnInv /\ Prompt) /\ [Next]_vars => (TurnInv /\ Prompt)'
  BY PipesStep, TurnsStep, AskedStep, PromptStep DEF TurnInv
<1>3. Prompt => PromptIsHeeded
  BY GivenIs DEF Prompt, Heeded, PromptIsHeeded, Over
<1> QED
  BY <1>1, <1>2, <1>3, PTL DEF Spec

(***************************************************************************)
(* What a late answer can do.  A verdict that strikes an event is one the  *)
(* process gave: between them the events struck, the verdicts in the pipe  *)
(* and the flag that is up are no more than the events it gave one for.    *)
(***************************************************************************)
\* Before the next question the flag of its kind comes down, so that each
\* verdict is counted in one place.
StruckBy(tk, ev, k) == {e \in DOMAIN tk : ev[e] = k /\ tk[e].cancelled}
MeantBy(gv, ev, k) == {e \in DOMAIN ev : ev[e] = k /\ VerdictOf(gv[e], e).cancelled}
FlagUp(k) == IF Asking /\ line.op = k /\ Taken(k, replies).cancelled THEN 1 ELSE 0

Covers(S, D, n, M) == Cardinality(S) + Cardinality(D) + n <= Cardinality(M)

CountsOf(k) == Covers(StruckBy(taken, events, k), SaidIn(fromChild, CancelOf(k)), FlagUp(k),
                      MeantBy(given, events, k))

Counts == \A k \in Cancelable : CountsOf(k)

\* The same of the texts, which are told apart by the event they answer.
Written(x) == x \in DOMAIN events /\ given[x] = "rewrite_sign"

Texts ==
  /\ \A e \in DOMAIN taken : taken[e].text # 0 => Written(taken[e].text)
  /\ \A e \in DOMAIN taken, n \in DOMAIN fromChild :
       fromChild[n].op = "rewrite_sign" => taken[e].text # fromChild[n].id
  /\ \A e, f \in DOMAIN taken : taken[e].text = taken[f].text /\ taken[e].text # 0 => e = f

TextLeft ==
  Asking /\ line.op = "sign" /\ replies.rewrite # 0 =>
    /\ Written(replies.rewrite)
    /\ \A e \in DOMAIN taken : taken[e].text # replies.rewrite
    /\ \A n \in DOMAIN fromChild :
         fromChild[n].op = "rewrite_sign" => fromChild[n].id # replies.rewrite

\* A flag is up after a look when it was up before, or when the pipe held a
\* verdict that raises it.
LEMMA DrainCancels ==
  ASSUME NEW r \in Replies, NEW s \in Seq(Answers), NEW k \in Cancelable
  PROVE  Taken(k, Draining(r, s)).cancelled
           => Taken(k, r).cancelled \/ SaidIn(s, CancelOf(k)) # {}
<1>1. CASE k = "chat"
  BY <1>1 DEF Taken, Draining, CancelOf, NoVerdict
<1>2. CASE k = "command"
  BY <1>2 DEF Taken, Draining, CancelOf, NoVerdict
<1>3. CASE k = "sign"
  BY <1>3 DEF Taken, Draining, CancelOf
<1> QED
  BY <1>1, <1>2, <1>3 DEF Cancelable

\* The text after a look is that before it, or one of those in the pipe.
LEMMA DrainRewrite ==
  ASSUME NEW r \in Replies, NEW s \in Seq(Answers)
  PROVE  \/ Draining(r, s).rewrite = r.rewrite
         \/ \E n \in DOMAIN s : s[n].op = "rewrite_sign" /\ Draining(r, s).rewrite = s[n].id
<1> DEFINE S == SaidIn(s, "rewrite_sign")
<1>1. CASE S = {}
  BY <1>1 DEF Draining
<1>2. CASE S # {}
  <2>1. Len(s) \in Nat /\ S \subseteq 1..Len(s)
    BY DEF SaidIn
  <2>2. Max(S) \in S
    <3> HIDE DEF S
    <3> QED
      BY <1>2, <2>1, GreatestNat
  <2>3. Draining(r, s).rewrite = s[Max(S)].id
    BY <1>2 DEF Draining
  <2>4. Max(S) \in DOMAIN s /\ s[Max(S)].op = "rewrite_sign"
    BY <2>2 DEF SaidIn
  <2> QED
    BY <2>3, <2>4
<1> QED
  BY <1>1, <1>2

\* The sets that are counted are finite.
LEMMA CountedAreFinite ==
  ASSUME NEW tk \in Seq(VerdictSet), NEW ev \in Seq(EventKinds), NEW gv,
         NEW s \in Seq(Answers), NEW k
  PROVE  /\ IsFiniteSet(StruckBy(tk, ev, k)) /\ IsFiniteSet(SaidIn(s, CancelOf(k)))
         /\ IsFiniteSet(MeantBy(gv, ev, k))
<1>1. /\ Len(tk) \in Nat /\ DOMAIN tk = 1..Len(tk)
      /\ Len(ev) \in Nat /\ DOMAIN ev = 1..Len(ev)
      /\ Len(s) \in Nat /\ DOMAIN s = 1..Len(s)
  OBVIOUS
<1>2. /\ IsFiniteSet(DOMAIN tk) /\ IsFiniteSet(DOMAIN ev) /\ IsFiniteSet(DOMAIN s)
  BY <1>1, FS_Interval
<1>3. /\ StruckBy(tk, ev, k) \subseteq DOMAIN tk
      /\ SaidIn(s, CancelOf(k)) \subseteq DOMAIN s
      /\ MeantBy(gv, ev, k) \subseteq DOMAIN ev
  BY DEF StruckBy, SaidIn, MeantBy
<1> QED
  BY <1>2, <1>3, FS_Subset

\* What happens to the count when a step strikes no event, puts no verdict into
\* the pipe, raises no flag and takes no verdict back; when it empties the pipe
\* and strikes an event or raises a flag instead, for a flag that was up or a
\* verdict that was in the pipe; when a verdict is given and written.
LEMMA CoversQuiet ==
  ASSUME NEW S, NEW D, NEW n \in Nat, NEW M, IsFiniteSet(S), IsFiniteSet(D), IsFiniteSet(M),
         NEW SS, NEW DD, NEW nn \in Nat, NEW MM, IsFiniteSet(MM),
         SS \subseteq S, DD \subseteq D, nn <= n, M \subseteq MM, Covers(S, D, n, M)
  PROVE  Covers(SS, DD, nn, MM)
<1>1. /\ Cardinality(SS) <= Cardinality(S) /\ Cardinality(DD) <= Cardinality(D)
      /\ Cardinality(M) <= Cardinality(MM) /\ IsFiniteSet(SS) /\ IsFiniteSet(DD)
  BY FS_Subset
<1>2. /\ Cardinality(SS) \in Nat /\ Cardinality(S) \in Nat /\ Cardinality(DD) \in Nat
      /\ Cardinality(D) \in Nat /\ Cardinality(M) \in Nat /\ Cardinality(MM) \in Nat
  BY <1>1, FS_CardinalityType
<1> QED
  BY <1>1, <1>2 DEF Covers

LEMMA CoversRead ==
  ASSUME NEW S, NEW D, NEW n \in Nat, NEW M, IsFiniteSet(S), IsFiniteSet(D), IsFiniteSet(M),
         NEW SS, NEW nn \in Nat, NEW x, Covers(S, D, n, M),
         \/ SS \subseteq S /\ nn <= 1
         \/ SS \subseteq S \cup {x} /\ nn = 0,
         n # 0 \/ D # {}
  PROVE  Covers(SS, {}, nn, M)
<1>1. Cardinality(S) + 1 <= Cardinality(M) /\ Cardinality(S) \in Nat /\ Cardinality(M) \in Nat
  <2>1. D # {} => Cardinality(D) # 0
    BY FS_EmptySet
  <2>2. /\ Cardinality(S) \in Nat /\ Cardinality(D) \in Nat /\ Cardinality(M) \in Nat
    BY FS_CardinalityType
  <2> QED
    BY <2>1, <2>2 DEF Covers
<1>2. Cardinality({}) = 0
  BY FS_EmptySet
<1>3. CASE SS \subseteq S /\ nn <= 1
  <2>1. Cardinality(SS) <= Cardinality(S) /\ Cardinality(SS) \in Nat
    BY <1>3, FS_Subset, FS_CardinalityType
  <2> QED
    BY <1>1, <1>2, <1>3, <2>1 DEF Covers
<1>4. CASE SS \subseteq S \cup {x} /\ nn = 0
  <2>1. IsFiniteSet(S \cup {x}) /\ Cardinality(S \cup {x}) <= Cardinality(S) + 1
    <3>1. CASE x \in S
      <4>1. S \cup {x} = S
        BY <3>1
      <4> QED
        BY <1>1, <4>1
    <3>2. CASE x \notin S
      <4>1. IsFiniteSet(S \cup {x}) /\ Cardinality(S \cup {x}) = Cardinality(S) + 1
        BY <3>2, FS_AddElement
      <4> QED
        BY <1>1, <4>1
    <3> QED
      BY <3>1, <3>2
  <2>2. Cardinality(SS) <= Cardinality(S \cup {x}) /\ Cardinality(SS) \in Nat
        /\ Cardinality(S \cup {x}) \in Nat
    BY <1>4, <2>1, FS_Subset, FS_CardinalityType
  <2> QED
    BY <1>1, <1>2, <1>4, <2>1, <2>2 DEF Covers
<1> QED
  BY <1>3, <1>4

LEMMA CoversGiven ==
  ASSUME NEW S, NEW D, NEW n \in Nat, NEW M, IsFiniteSet(S), IsFiniteSet(D), IsFiniteSet(M),
         NEW x, x \notin D, NEW y, y \notin M, Covers(S, D, n, M)
  PROVE  Covers(S, D \cup {x}, n, M \cup {y})
<1>1. /\ Cardinality(S) \in Nat /\ Cardinality(D) \in Nat /\ Cardinality(M) \in Nat
  BY FS_CardinalityType
<1>2. /\ Cardinality(D \cup {x}) = Cardinality(D) + 1
      /\ Cardinality(M \cup {y}) = Cardinality(M) + 1
  BY FS_AddElement
<1> QED
  BY <1>1, <1>2 DEF Covers

LEMMA CountsStep == TurnInv /\ TurnInv' /\ Counts /\ [Next]_vars => Counts'
<1> SUFFICES ASSUME TurnInv, TurnInv', [Next]_vars, NEW k \in Cancelable, CountsOf(k)
             PROVE  CountsOf(k)'
  BY DEF Counts
<1>0. PipesOK /\ Turns /\ AskedAnswers /\ PipesOK' /\ Turns'
  BY DEF TurnInv, Asked
<1>1. /\ Len(events) \in Nat /\ Len(taken) \in Nat /\ Len(fromChild) \in Nat
      /\ DOMAIN events = 1..Len(events) /\ DOMAIN given = 1..Len(events)
      /\ DOMAIN taken = 1..Len(taken) /\ DOMAIN fromChild = 1..Len(fromChild)
      /\ Len(taken) <= Len(events)
  BY <1>0 DEF PipesOK, Turns
<1> DEFINE S == StruckBy(taken, events, k)
           D == SaidIn(fromChild, CancelOf(k))
           M == MeantBy(given, events, k)
           SS == StruckBy(taken', events', k)
           DD == SaidIn(fromChild', CancelOf(k))
           MM == MeantBy(given', events', k)
<1>2. IsFiniteSet(S) /\ IsFiniteSet(D) /\ IsFiniteSet(M)
  BY <1>0, CountedAreFinite DEF PipesOK, Turns
<1>3. IsFiniteSet(SS) /\ IsFiniteSet(DD) /\ IsFiniteSet(MM)
  BY <1>0, CountedAreFinite DEF PipesOK, Turns
<1>4. FlagUp(k) \in {0, 1} /\ FlagUp(k)' \in {0, 1}
  BY DEF FlagUp
<1>5. Covers(S, D, FlagUp(k), M) /\ (CountsOf(k)' <=> Covers(SS, DD, FlagUp(k)', MM))
  BY DEF CountsOf
<1>6. \A op : SaidIn(<< >>, op) = {}
  BY DEF SaidIn
\* Steps that leave the events, and what was answered, alone.
<1>7. ASSUME fromChild' = fromChild \/ fromChild' = << >>,
             UNCHANGED <<events, given, taken>>,
             Asking' => Asking /\ UNCHANGED <<line, replies>>
      PROVE  CountsOf(k)'
  <2>1. SS = S /\ MM = M /\ DD \subseteq D
    BY <1>6, <1>7
  <2>2. FlagUp(k)' <= FlagUp(k)
    BY <1>4, <1>7 DEF FlagUp
  <2> HIDE DEF S, D, M, SS, DD, MM
  <2> QED
    BY <1>2, <1>3, <1>4, <1>5, <2>1, <2>2, CoversQuiet
<1>8. "init" \notin EventKinds /\ "shutdown" \notin EventKinds
  BY DEF EventKinds, Cancelable
<1>9. CASE Enable
  BY <1>7, <1>8, <1>9 DEF Enable, Asking
<1>10. CASE Stop
  BY <1>7, <1>8, <1>10 DEF Stop, Asking
<1>11. CASE BrokenPipe
  BY <1>7, <1>11 DEF BrokenPipe, Asking
<1>12. CASE AwaitInit
  BY <1>7, <1>8, <1>12 DEF AwaitInit, Drain, Asking
<1>13. CASE InitTimesOut
  BY <1>7, <1>13 DEF InitTimesOut, Asking
<1>14. CASE Reap
  BY <1>7, <1>14 DEF Reap, Asking
<1>15. CASE ChildReads
  BY <1>7, <1>15 DEF ChildReads, Asking
<1>16. CASE ChildDies
  BY <1>7, <1>16 DEF ChildDies, Asking
<1>17. CASE UNCHANGED vars
  BY <1>7, <1>17 DEF vars, Asking
<1>18. CASE Send
  BY <1>7, <1>8, <1>18 DEF Send, Asking
\* A look: what was in the pipe is in the flag.
<1>19. ASSUME server = "waiting", Drain, UNCHANGED <<line, events, given>>
       PROVE  /\ line.op \in EventKinds /\ DD = {} /\ replies' = Draining(replies, fromChild)
              /\ line.op = k /\ Taken(k, replies').cancelled => FlagUp(k) # 0 \/ D # {}
  <2>1. replies' = Draining(replies, fromChild) /\ DD = {}
    BY <1>6, <1>19, DrainedIs DEF Drain
  <2>2. Asking /\ line.op \in EventKinds
    BY <1>0, <1>19 DEF Asking, PipesOK
  <2>3. Taken(k, replies').cancelled => Taken(k, replies).cancelled \/ D # {}
    BY <1>0, <2>1, DrainCancels DEF PipesOK
  <2>4. line.op = k /\ Taken(k, replies).cancelled => FlagUp(k) # 0
    BY <2>2 DEF FlagUp
  <2> QED
    BY <2>1, <2>2, <2>3, <2>4
<1>20. CASE Poll
  <2>1. server = "waiting" /\ Drain /\ UNCHANGED <<server, line, events, given, taken>>
    BY <1>20 DEF Poll
  <2>2. SS = S /\ MM = M
    BY <2>1
  <2>3. DD = {} /\ (FlagUp(k)' # 0 => FlagUp(k) # 0 \/ D # {})
    BY <1>19, <2>1 DEF FlagUp
  <2> HIDE DEF S, D, M, SS, DD, MM
  <2>4. CASE FlagUp(k) # 0 \/ D # {}
    BY <1>2, <1>4, <1>5, <2>2, <2>3, <2>4, CoversRead
  <2>5. CASE FlagUp(k)' = 0
    BY <1>2, <1>3, <1>4, <1>5, <2>2, <2>3, <2>5, CoversQuiet
  <2> QED
    BY <2>3, <2>4, <2>5
<1>21. CASE Conclude
  <2>1. /\ server = "waiting" /\ Drain /\ UNCHANGED <<line, events, given>>
        /\ server' = "idle" /\ taken' = Append(taken, Taken(line.op, replies'))
    BY <1>21 DEF Conclude
  <2>2. MM = M /\ FlagUp(k)' = 0
    BY <2>1 DEF FlagUp, Asking
  <2>3. DD = {} /\ (line.op = k /\ Taken(k, replies').cancelled => FlagUp(k) # 0 \/ D # {})
    BY <1>19, <2>1
  <2>4. line.id = Len(taken) + 1 /\ line.op = events[line.id]
    <3>1. Asking
      BY <1>19, <2>1 DEF Asking
    <3> QED
      BY <1>0, <3>1 DEF Turns
  <2>5. /\ DOMAIN taken' = 1..(Len(taken) + 1)
        /\ \A e \in 1..Len(taken) : taken'[e] = taken[e]
        /\ taken'[Len(taken) + 1] = Taken(line.op, replies')
    BY <1>0, <2>1 DEF Turns
  <2>6. SS \subseteq S \cup {Len(taken) + 1}
    BY <1>1, <2>1, <2>5 DEF StruckBy
  <2>7. Len(taken) + 1 \in SS => FlagUp(k) # 0 \/ D # {}
    BY <2>1, <2>3, <2>4, <2>5 DEF StruckBy
  <2> HIDE DEF S, D, M, SS, DD, MM
  <2>8. CASE FlagUp(k) # 0 \/ D # {}
    <3> DEFINE x == Len(taken) + 1
               n == FlagUp(k)
    <3>1. n \in Nat /\ (n # 0 \/ D # {}) /\ Covers(S, D, n, M) /\ SS \subseteq S \cup {x}
      BY <1>4, <1>5, <2>6, <2>8
    <3> HIDE DEF x, n
    <3>2. Covers(SS, {}, 0, M)
      BY <1>2, <3>1, CoversRead
    <3> QED
      BY <1>5, <2>2, <2>3, <3>2
  <2>9. CASE Len(taken) + 1 \notin SS
    <3>1. SS \subseteq S /\ DD \subseteq D /\ FlagUp(k)' <= FlagUp(k)
      BY <1>4, <2>2, <2>3, <2>6, <2>9
    <3> QED
      BY <1>2, <1>3, <1>4, <1>5, <2>2, <3>1, CoversQuiet
  <2> QED
    BY <2>7, <2>8, <2>9
<1>22. ASSUME NEW j \in EventKinds, Fire(j) PROVE CountsOf(k)'
  <2>1. /\ server = "idle" /\ UNCHANGED fromChild
        /\ events' = Append(events, j) /\ given' = Append(given, "none")
        /\ taken' = taken \/ taken' = Append(taken, NoVerdict)
        /\ Len(taken) = Len(events)
    BY <1>0, <1>22 DEF Fire, Turns, Asking
  <2>2. /\ DOMAIN events' = 1..(Len(events) + 1)
        /\ \A e \in 1..Len(events) : events'[e] = events[e] /\ given'[e] = given[e]
    <3>1. events \in Seq(EventKinds) /\ given \in Seq(Verdicts \cup {"none"})
          /\ Len(given) = Len(events)
      BY <1>0 DEF Turns
    <3> QED
      BY <2>1, <3>1
  <2>3. \A e \in DOMAIN taken' : taken'[e].cancelled => e \in DOMAIN taken /\ taken'[e] = taken[e]
    <3>1. taken \in Seq(VerdictSet) /\ ~NoVerdict.cancelled
      BY <1>0 DEF Turns, NoVerdict
    <3> QED
      BY <1>1, <2>1, <3>1
  <2>4. SS \subseteq S
    BY <1>1, <2>2, <2>3 DEF StruckBy
  <2>5. M \subseteq MM
    BY <1>1, <2>2 DEF MeantBy
  <2>6. DD = D
    BY <2>1
  <2>7. FlagUp(k)' = 0
    <3>1. CASE held
      <4>1. replies' = Cleared(j) /\ line' = [op |-> j, id |-> Len(events')]
        BY <1>22, <3>1 DEF Fire
      <4>2. line'.op = j /\ Taken(j, replies') = NoVerdict
        BY <1>0, <4>1, ClearedSaysNothing DEF PipesOK
      <4>3. ~NoVerdict.cancelled
        BY DEF NoVerdict
      <4> QED
        BY <4>2, <4>3 DEF FlagUp
    <3>2. CASE ~held
      BY <1>22, <2>1, <3>2 DEF Fire, FlagUp, Asking
    <3> QED
      BY <3>1, <3>2
  <2> HIDE DEF S, D, M, SS, DD, MM
  <2> QED
    BY <1>2, <1>3, <1>4, <1>5, <2>4, <2>5, <2>6, <2>7, CoversQuiet
<1>23. CASE ChildWrites
  <2> DEFINE a == Head(answers)
  <2>1. /\ UNCHANGED <<server, line, replies, events, taken>> /\ fromChild' = Append(fromChild, a)
        /\ 1 \in DOMAIN answers /\ a = answers[1] /\ a \in Answers
    BY <1>0, <1>23 DEF ChildWrites, PipesOK
  <2>2. SS = S /\ FlagUp(k)' = FlagUp(k)
    BY <2>1 DEF FlagUp, Asking
  <2>3. DD = IF a.op = CancelOf(k) THEN D \cup {Len(fromChild) + 1} ELSE D
    BY <1>0, <2>1, SaidMore DEF PipesOK
  <2>4. Len(fromChild) + 1 \notin D
    BY <1>1 DEF SaidIn
  <2>5. CASE IsVerdict(a)
    <3>1. given' = [given EXCEPT ![a.id] = a.op]
      BY <1>23, <2>5 DEF ChildWrites, IsVerdict
    <3>2. PICK j \in EventKinds : Awaits(events, given, a.id, j) /\ a.op \in VerdictsOf(j)
      BY <1>0, <2>1, <2>5 DEF AskedAnswers
    <3> HIDE DEF a
    <3>3. /\ \A e \in DOMAIN events : e # a.id => given'[e] = given[e]
          /\ given'[a.id] = a.op /\ a.id \in DOMAIN events /\ events[a.id] = j
          /\ given[a.id] = "none"
      BY <1>1, <3>1, <3>2 DEF Awaits
    <3>4. a.id \notin M
      BY <3>3 DEF MeantBy, VerdictOf, NoVerdict
    <3>5. M \subseteq MM
      BY <2>1, <3>3, <3>4 DEF MeantBy
    <3>6. CASE a.op = CancelOf(k)
      <4>1. j = k /\ VerdictOf(a.op, a.id).cancelled
        BY <3>2, <3>6 DEF VerdictsOf, CancelOf, EventKinds, Cancelable, VerdictOf
      <4>2. M \cup {a.id} \subseteq MM
        BY <2>1, <3>3, <3>5, <4>1 DEF MeantBy
      <4> HIDE DEF S, D, M, SS, DD, MM
      <4>3. Covers(S, D \cup {Len(fromChild) + 1}, FlagUp(k), M \cup {a.id})
        <5> DEFINE x == Len(fromChild) + 1
                   y == a.id
                   n == FlagUp(k)
        <5>1. n \in Nat /\ x \notin D /\ y \notin M /\ Covers(S, D, n, M)
          BY <1>4, <1>5, <2>4, <3>4
        <5> HIDE DEF x, y, n
        <5>2. Covers(S, D \cup {x}, n, M \cup {y})
          BY <1>2, <5>1, CoversGiven
        <5> QED
          BY <5>2 DEF x, y, n
      <4>4. IsFiniteSet(D \cup {Len(fromChild) + 1}) /\ IsFiniteSet(M \cup {a.id})
        BY <1>2, FS_AddElement
      <4> QED
        BY <1>2, <1>3, <1>4, <1>5, <2>2, <2>3, <3>6, <4>2, <4>3, <4>4, CoversQuiet
    <3>7. CASE a.op # CancelOf(k)
      <4> HIDE DEF S, D, M, SS, DD, MM
      <4> QED
        BY <1>2, <1>3, <1>4, <1>5, <2>2, <2>3, <3>5, <3>7, CoversQuiet
    <3> QED
      BY <3>6, <3>7
  <2>6. CASE ~IsVerdict(a)
    <3>1. MM = M
      BY <1>23, <2>1, <2>6 DEF ChildWrites, IsVerdict
    <3>2. a.op # CancelOf(k)
      BY <2>6 DEF IsVerdict, Verdicts, CancelOf, Cancelable
    <3> HIDE DEF a, S, D, M, SS, DD, MM
    <3> QED
      BY <1>2, <1>3, <1>4, <1>5, <2>2, <2>3, <3>1, <3>2, CoversQuiet
  <2> QED
    BY <2>5, <2>6
<1> QED
  BY <1>9, <1>10, <1>11, <1>12, <1>13, <1>14, <1>15, <1>16, <1>17, <1>18, <1>20, <1>21, <1>22,
     <1>23 DEF Next, Server, Child

LEMMA CountsInit == Init => Counts /\ Texts /\ TextLeft
<1> SUFFICES ASSUME Init PROVE Counts /\ Texts /\ TextLeft
  OBVIOUS
<1>1. DOMAIN fromChild = {} /\ DOMAIN taken = {} /\ server = "off" /\ taken = << >>
  BY DEF Init
<1>2. Texts /\ TextLeft
  BY <1>1 DEF Texts, TextLeft, Asking
<1>3. ASSUME NEW k \in Cancelable PROVE CountsOf(k)
  <2>1. /\ StruckBy(taken, events, k) = {} /\ SaidIn(fromChild, CancelOf(k)) = {}
        /\ FlagUp(k) = 0 /\ MeantBy(given, events, k) = {}
    BY DEF Init, StruckBy, SaidIn, MeantBy, FlagUp, Asking
  <2>2. Cardinality({}) = 0
    BY FS_EmptySet
  <2> QED
    BY <2>1, <2>2 DEF CountsOf, Covers
<1> QED
  BY <1>2, <1>3 DEF Counts

LEMMA TextsStep == TurnInv /\ Texts /\ TextLeft /\ [Next]_vars => Texts' /\ TextLeft'
<1> SUFFICES ASSUME TurnInv, Texts, TextLeft, [Next]_vars PROVE Texts' /\ TextLeft'
  OBVIOUS
<1>0. PipesOK /\ Turns /\ AskedAnswers /\ Answered
  BY DEF TurnInv, Asked
<1>1. /\ Len(events) \in Nat /\ Len(taken) \in Nat /\ Len(fromChild) \in Nat
      /\ DOMAIN events = 1..Len(events) /\ DOMAIN given = 1..Len(events)
      /\ DOMAIN taken = 1..Len(taken) /\ DOMAIN fromChild = 1..Len(fromChild)
      /\ Len(taken) <= Len(events)
  BY <1>0 DEF PipesOK, Turns
<1>2. DOMAIN << >> = {}
  OBVIOUS
\* Steps that leave the events, and what was answered, alone.
<1>3. ASSUME fromChild' = fromChild \/ fromChild' = << >>,
             UNCHANGED <<events, given, taken>>,
             Asking' => Asking /\ UNCHANGED <<line, replies>>
      PROVE  Texts' /\ TextLeft'
  <2>1. \A n \in DOMAIN fromChild' : n \in DOMAIN fromChild /\ fromChild'[n] = fromChild[n]
    BY <1>2, <1>3
  <2>2. \A x : Written(x)' <=> Written(x)
    BY <1>3 DEF Written
  <2>3. Texts'
    BY <1>3, <2>1, <2>2 DEF Texts
  <2>4. TextLeft'
    BY <1>3, <2>1, <2>2 DEF TextLeft
  <2> QED
    BY <2>3, <2>4
<1>4. "init" \notin EventKinds /\ "shutdown" \notin EventKinds
  BY DEF EventKinds, Cancelable
<1>5. CASE Enable
  BY <1>3, <1>4, <1>5 DEF Enable, Asking
<1>6. CASE Stop
  BY <1>3, <1>4, <1>6 DEF Stop, Asking
<1>7. CASE BrokenPipe
  BY <1>3, <1>7 DEF BrokenPipe, Asking
<1>8. CASE AwaitInit
  BY <1>3, <1>4, <1>8 DEF AwaitInit, Drain, Asking
<1>9. CASE InitTimesOut
  BY <1>3, <1>9 DEF InitTimesOut, Asking
<1>10. CASE Reap
  BY <1>3, <1>10 DEF Reap, Asking
<1>11. CASE ChildReads
  BY <1>3, <1>11 DEF ChildReads, Asking
<1>12. CASE ChildDies
  BY <1>3, <1>12 DEF ChildDies, Asking
<1>13. CASE UNCHANGED vars
  BY <1>3, <1>13 DEF vars, Asking
<1>14. CASE Send
  BY <1>3, <1>4, <1>14 DEF Send, Asking
\* A look: the text is the one there was, or one that was in the pipe; either
\* way it was given, and no event has it yet.
<1>15. ASSUME server = "waiting", Drain, line.op = "sign", replies'.rewrite # 0
       PROVE  /\ Written(replies'.rewrite)
              /\ \A e \in DOMAIN taken : taken[e].text # replies'.rewrite
  <2>1. replies' = Draining(replies, fromChild)
    BY <1>15, DrainedIs DEF Drain
  <2>2. \/ replies'.rewrite = replies.rewrite
        \/ \E n \in DOMAIN fromChild :
             fromChild[n].op = "rewrite_sign" /\ replies'.rewrite = fromChild[n].id
    BY <1>0, <2>1, DrainRewrite DEF PipesOK
  <2>3. CASE replies'.rewrite = replies.rewrite
    BY <1>0, <1>15, <2>3 DEF TextLeft, Asking, PipesOK
  <2>4. ASSUME NEW n \in DOMAIN fromChild, fromChild[n].op = "rewrite_sign",
               replies'.rewrite = fromChild[n].id
        PROVE  /\ Written(replies'.rewrite)
               /\ \A e \in DOMAIN taken : taken[e].text # replies'.rewrite
    <3>1. IsVerdict(fromChild[n])
      BY <2>4 DEF IsVerdict, Verdicts
    <3>2. Written(fromChild[n].id)
      BY <1>0, <2>4, <3>1 DEF Answered, Written
    <3> QED
      BY <2>4, <3>2 DEF Texts
  <2> QED
    BY <2>2, <2>3, <2>4
<1>16. CASE Poll
  <2>1. /\ server = "waiting" /\ Drain /\ UNCHANGED <<server, line, events, given, taken>>
        /\ fromChild' = << >>
    BY <1>16 DEF Poll, Drain
  <2>2. \A x : Written(x)' <=> Written(x)
    BY <2>1 DEF Written
  <2>3. Texts'
    BY <1>2, <2>1, <2>2 DEF Texts
  <2>4. TextLeft'
    BY <1>2, <1>15, <2>1, <2>2 DEF TextLeft
  <2> QED
    BY <2>3, <2>4
<1>17. CASE Conclude
  <2>1. /\ server = "waiting" /\ Drain /\ UNCHANGED <<line, events, given>>
        /\ server' = "idle" /\ taken' = Append(taken, Taken(line.op, replies'))
        /\ fromChild' = << >>
    BY <1>17 DEF Conclude, Drain
  <2>2. TextLeft'
    BY <2>1 DEF TextLeft, Asking
  <2>3. /\ DOMAIN taken' = 1..(Len(taken) + 1)
        /\ \A e \in 1..Len(taken) : taken'[e] = taken[e]
        /\ taken'[Len(taken) + 1] = Taken(line.op, replies')
    BY <1>0, <2>1 DEF Turns
  <2>4. line.op \in EventKinds
    BY <1>0, <2>1 DEF PipesOK
  <2>5. Taken(line.op, replies').text # 0 =>
          line.op = "sign" /\ Taken(line.op, replies').text = replies'.rewrite
    BY <2>4 DEF Taken, NoVerdict, EventKinds, Cancelable
  <2> DEFINE x == Taken(line.op, replies').text
  <2>6. x # 0 => Written(x) /\ \A e \in DOMAIN taken : taken[e].text # x
    BY <1>15, <2>1, <2>5
  <2>7. taken'[Len(taken) + 1].text = x
    BY <2>3
  <2>8. \A y : Written(y)' <=> Written(y)
    BY <2>1 DEF Written
  <2> HIDE DEF x
  <2>9. Texts'
    <3>1. \A e \in DOMAIN taken' : taken'[e].text # 0 => Written(taken'[e].text)
      BY <1>1, <2>3, <2>6, <2>7 DEF Texts
    <3>2. \A e, f \in DOMAIN taken' :
            taken'[e].text = taken'[f].text /\ taken'[e].text # 0 => e = f
      BY <1>1, <2>3, <2>6, <2>7 DEF Texts
    <3> QED
      BY <1>2, <2>1, <2>8, <3>1, <3>2 DEF Texts
  <2> QED
    BY <2>2, <2>9
<1>18. ASSUME NEW k \in EventKinds, Fire(k) PROVE Texts' /\ TextLeft'
  <2>1. /\ server = "idle" /\ UNCHANGED fromChild
        /\ events' = Append(events, k) /\ given' = Append(given, "none")
        /\ taken' = taken \/ taken' = Append(taken, NoVerdict)
    BY <1>18 DEF Fire
  <2>2. \A x : Written(x) => Written(x)'
    <3>1. events \in Seq(EventKinds) /\ given \in Seq(Verdicts \cup {"none"})
          /\ Len(given) = Len(events)
      BY <1>0 DEF Turns
    <3>2. DOMAIN events' = 1..(Len(events) + 1) /\ \A e \in 1..Len(events) : given'[e] = given[e]
      BY <2>1, <3>1
    <3> QED
      BY <1>1, <3>2 DEF Written
  <2>3. \A e \in DOMAIN taken' : (e \in DOMAIN taken /\ taken'[e] = taken[e])
                                    \/ taken'[e].text = 0
    <3>1. taken \in Seq(VerdictSet) /\ NoVerdict.text = 0
      BY <1>0 DEF Turns, NoVerdict
    <3> QED
      BY <1>1, <2>1, <3>1
  <2>4. \A n \in DOMAIN fromChild : fromChild[n].op = "rewrite_sign" => fromChild[n].id # 0
    BY <1>0, <1>1 DEF Answered, IsVerdict, Verdicts
  <2>5. Texts'
    BY <2>1, <2>2, <2>3, <2>4 DEF Texts
  <2>6. TextLeft'
    <3>1. CASE held
      <4>1. replies' = Cleared(k) /\ line' = [op |-> k, id |-> Len(events')]
        BY <1>18, <3>1 DEF Fire
      <4>2. line'.op = k
        BY <4>1
      <4>3. k = "sign" => replies'.rewrite = 0
        BY <1>0, <4>1 DEF Cleared, PipesOK, Replies
      <4> QED
        BY <4>2, <4>3 DEF TextLeft
    <3>2. CASE ~held
      BY <1>18, <2>1, <3>2 DEF Fire, TextLeft, Asking
    <3> QED
      BY <3>1, <3>2
  <2> QED
    BY <2>5, <2>6
<1>19. CASE ChildWrites
  <2> DEFINE a == Head(answers)
  <2>1. /\ UNCHANGED <<server, line, replies, events, taken>> /\ fromChild' = Append(fromChild, a)
        /\ 1 \in DOMAIN answers /\ a = answers[1] /\ a \in Answers
    BY <1>0, <1>19 DEF ChildWrites, PipesOK
  <2>2. CASE IsVerdict(a)
    <3>1. given' = [given EXCEPT ![a.id] = a.op]
      BY <1>19, <2>2 DEF ChildWrites, IsVerdict
    <3>2. PICK j \in EventKinds : Awaits(events, given, a.id, j)
      BY <1>0, <2>1, <2>2 DEF AskedAnswers
    <3> HIDE DEF a
    <3>3. \A x : Written(x) => Written(x)' /\ x # a.id
      BY <1>1, <2>1, <3>1, <3>2 DEF Awaits, Written
    <3>4. a.id # 0
      BY <1>1, <3>2 DEF Awaits
    <3>5. /\ DOMAIN fromChild' = 1..(Len(fromChild) + 1)
          /\ \A n \in 1..Len(fromChild) : fromChild'[n] = fromChild[n]
          /\ fromChild'[Len(fromChild) + 1] = a
      BY <1>0, <2>1 DEF PipesOK
    <3>6. \A e \in DOMAIN taken : taken[e].text # a.id
      BY <3>3, <3>4 DEF Texts
    <3>7. Texts'
      BY <1>1, <2>1, <3>3, <3>5, <3>6 DEF Texts
    <3>8. TextLeft'
      BY <1>1, <2>1, <3>3, <3>5 DEF TextLeft, Asking
    <3> QED
      BY <3>7, <3>8
  <2>3. CASE ~IsVerdict(a)
    <3>1. given' = given
      BY <1>19, <2>3 DEF ChildWrites, IsVerdict
    <3>2. a.op # "rewrite_sign"
      BY <2>3 DEF IsVerdict, Verdicts
    <3> HIDE DEF a
    <3>3. \A n \in DOMAIN fromChild' : fromChild'[n].op = "rewrite_sign" =>
            n \in DOMAIN fromChild /\ fromChild'[n] = fromChild[n]
      BY <1>0, <1>1, <2>1, <3>2 DEF PipesOK
    <3>4. \A x : Written(x)' <=> Written(x)
      BY <2>1, <3>1 DEF Written
    <3>5. Texts'
      BY <2>1, <3>3, <3>4 DEF Texts
    <3>6. TextLeft'
      BY <2>1, <3>3, <3>4 DEF TextLeft, Asking
    <3> QED
      BY <3>5, <3>6
  <2> QED
    BY <2>2, <2>3
<1> QED
  BY <1>5, <1>6, <1>7, <1>8, <1>9, <1>10, <1>11, <1>12, <1>13, <1>14, <1>16, <1>17, <1>18,
     <1>19 DEF Next, Server, Child

\* An answer that comes late strikes one event at most: of each kind no more
\* events are cancelled than the process meant to cancel, and no text of a sign
\* is used twice.
THEOREM LateStrikesOnce == Spec => []AnswersCountOnce
<1> DEFINE I == TurnInv /\ Counts /\ Texts /\ TextLeft
<1>1. Init => I
  BY PipesInit, AskedInit, CountsInit DEF TurnInv
<1>2. I /\ [Next]_vars => I'
  BY PipesStep, TurnsStep, AskedStep, CountsStep, TextsStep DEF TurnInv
<1>3. I => AnswersCountOnce
  <2> SUFFICES ASSUME I PROVE AnswersCountOnce
    OBVIOUS
  <2>1. ASSUME NEW k \in Cancelable
        PROVE  Cardinality({e \in Over : events[e] = k /\ taken[e].cancelled})
                 <= Cardinality({e \in DOMAIN events : events[e] = k /\ Given(e).cancelled})
    <3> DEFINE S == StruckBy(taken, events, k)
               D == SaidIn(fromChild, CancelOf(k))
               M == MeantBy(given, events, k)
    <3>1. S = {e \in Over : events[e] = k /\ taken[e].cancelled}
      BY DEF StruckBy, Over
    <3>2. M = {e \in DOMAIN events : events[e] = k /\ Given(e).cancelled}
      BY GivenIs DEF MeantBy
    <3>3. IsFiniteSet(S) /\ IsFiniteSet(D) /\ IsFiniteSet(M)
      BY CountedAreFinite DEF TurnInv, PipesOK, Turns
    <3>4. Cardinality(S) \in Nat /\ Cardinality(D) \in Nat /\ Cardinality(M) \in Nat
      BY <3>3, FS_CardinalityType
    <3>5. FlagUp(k) \in {0, 1}
      BY DEF FlagUp
    <3>6. Cardinality(S) + Cardinality(D) + FlagUp(k) <= Cardinality(M)
      BY DEF Counts, CountsOf, Covers
    <3> HIDE DEF S, D, M
    <3>7. Cardinality(S) <= Cardinality(M)
      BY <3>4, <3>5, <3>6
    <3> QED
      BY <3>1, <3>2, <3>7
  <2>2. \A e, f \in Over : taken[e].text = taken[f].text /\ taken[e].text # 0 => e = f
    BY DEF Texts, Over
  <2> QED
    BY <2>1, <2>2 DEF AnswersCountOnce
<1> QED
  BY <1>1, <1>2, <1>3, PTL DEF Spec
=============================================================================
