------------------------------- MODULE Server -------------------------------
(***************************************************************************)
(* The server process: main and Start in one goroutine, the signal handler *)
(* with Stop in another, one goroutine per session, and the two background *)
(* writers.  Statements are what matters of them here: whether they change *)
(* pages, whether the change is in the buffer pool or in the files, and    *)
(* what the client is told.  The goroutines meet in the flag `running',    *)
(* the listener, the wait group and the buffer pool.                       *)
(***************************************************************************)
EXTENDS Integers, Sequences, FiniteSets

CONSTANTS
  Clients,     \* connections, one per client
  MaxLines,    \* bound: request lines each client sends
  MaxFaults,   \* bound: failed flushes and failed calls of Accept
  NoId         \* the empty request id of an answer to a line that is no JSON

ASSUME ClientsAssumption == IsFiniteSet(Clients)
ASSUME BoundsAssumption == MaxLines \in [Clients -> Nat] /\ MaxFaults \in Nat
ASSUME NoIdAssumption == NoId \notin Nat

\* A line is a statement that changes pages and marks them dirty, any other
\* request (SELECT, EXPLAIN, an unsupported type, empty SQL), or no JSON.
Kinds == {"change", "query", "badjson"}

\* Of a response only its request id matters, and whether it is the ok of a
\* change.
Responses == [id : Nat \cup {NoId}, acks : BOOLEAN]

VARIABLES
  exit,        \* "up", or how the process ended
  running,     \* Server.running
  main,        \* where the main goroutine is, in main and Start
  stop,        \* where the signal goroutine is, in main and Stop
  listener,    \* Server.listener: "nil", "open" or "closed"
  backlog,     \* connections the kernel holds for Accept, in order
  accepted,    \* the connection Accept returned last
  background,  \* dirtyWriter's two goroutines run
  wg,          \* Server.wg: its counter
  session,     \* per client, where handleClient is
  reply,       \* per client, the response about to be written
  peer,        \* per client, its end of the connection
  lines,       \* per client, the kinds of the request lines it sent
  taken,       \* per client, how many of them the session has read
  answers,     \* per client, the responses written to the connection
  dirty,       \* changes in the pool that are not in the files
  disk,        \* changes in the files
  faults

startVars == <<running, main, accepted, background>>
netVars == <<listener, backlog>>
sessionVars == <<session, reply, taken, answers>>
clientVars == <<peer, lines>>
poolVars == <<dirty, disk, faults>>
vars == <<exit, startVars, stop, netVars, wg, sessionVars, clientVars, poolVars>>

NoReply == [id |-> NoId, acks |-> FALSE]

Live(c) == session[c] \notin {"none", "ended"}

\* The change of pages made by request i of client c.
Changes == UNION {{c} \X (1 .. MaxLines[c]) : c \in Clients}

TypeOK ==
  /\ exit \in {"up", "clean", "failed", "panic"}
  /\ running \in BOOLEAN
  /\ main \in {"start", "listen", "writers", "loop", "accept", "add"}
  /\ stop \in {"wait", "cancel", "close", "wait_group", "blocked",
               "final_flush", "stopped", "flush_failed", "ignored"}
  /\ listener \in {"nil", "open", "closed"}
  /\ backlog \in Seq(Clients)
  /\ accepted \in Clients \cup {NoId}
  /\ background \in BOOLEAN
  /\ wg \in Int
  /\ session \in [Clients -> {"none", "read", "flush", "write", "close",
                              "release", "ended"}]
  /\ reply \in [Clients -> Responses]
  /\ peer \in [Clients -> {"none", "open", "gone"}]
  /\ lines \in [Clients -> Seq(Kinds)]
  /\ taken \in [Clients -> Nat]
  /\ answers \in [Clients -> Seq(Responses)]
  /\ dirty \in SUBSET Changes
  /\ disk \in SUBSET Changes
  /\ faults \in Nat

Init ==
  /\ exit = "up" /\ running = FALSE /\ main = "start" /\ stop = "wait"
  /\ listener = "nil" /\ backlog = <<>> /\ accepted = NoId
  /\ background = FALSE /\ wg = 0
  /\ session = [c \in Clients |-> "none"]
  /\ reply = [c \in Clients |-> NoReply]
  /\ peer = [c \in Clients |-> "none"]
  /\ lines = [c \in Clients |-> <<>>]
  /\ taken = [c \in Clients |-> 0]
  /\ answers = [c \in Clients |-> <<>>]
  /\ dirty = {} /\ disk = {} /\ faults = 0

(***************************************************************************)
(* The buffer pool as this module sees it.  FlushAllPages holds the pool's *)
(* mutex; it writes every dirty page or, if a write fails, those it got to *)
(* before (BufferPool has the details).                                    *)
(***************************************************************************)
FlushSucceeds ==
  /\ dirty' = {}
  /\ disk' = disk \cup dirty
  /\ UNCHANGED faults

FlushFails ==
  /\ faults < MaxFaults
  /\ faults' = faults + 1
  /\ \E written \in SUBSET dirty :
       /\ written # dirty
       /\ dirty' = dirty \ written
       /\ disk' = disk \cup written

\* The ticker of flushBatch writes some of the dirty pages; a write that fails
\* leaves its page dirty.
FlushTick ==
  /\ background
  /\ \E written \in SUBSET dirty :
       dirty' = dirty \ written /\ disk' = disk \cup written
  /\ UNCHANGED <<exit, startVars, stop, netVars, wg, sessionVars, clientVars,
                 faults>>

\* The ticker of the checkpointer calls FlushAllPages and drops its error.
CheckPointTick ==
  /\ background
  /\ FlushSucceeds \/ FlushFails
  /\ UNCHANGED <<exit, startVars, stop, netVars, wg, sessionVars, clientVars>>

(***************************************************************************)
(* Start, in the main goroutine.                                           *)
(***************************************************************************)
\* The only call of Start: its CompareAndSwap succeeds.
StartCAS ==
  /\ main = "start"
  /\ running' = TRUE
  /\ main' = "listen"
  /\ UNCHANGED <<exit, accepted, background, stop, netVars, wg, sessionVars,
                 clientVars, poolVars>>

Listen ==
  /\ main = "listen"
  /\ listener' = "open"
  /\ main' = "writers"
  /\ UNCHANGED <<exit, running, accepted, background, stop, backlog, wg,
                 sessionVars, clientVars, poolVars>>

\* net.Listen fails: Start returns the error and main ends with log.Fatalf.
ListenFails ==
  /\ main = "listen"
  /\ running' = FALSE
  /\ exit' = "failed"
  /\ UNCHANGED <<main, accepted, background, stop, netVars, wg, sessionVars,
                 clientVars, poolVars>>

\* As when dirtyWriter is nil.
StartWritersNever ==
  /\ main = "writers"
  /\ main' = "loop"
  /\ UNCHANGED <<exit, running, accepted, background, stop, netVars, wg,
                 sessionVars, clientVars, poolVars>>

\* StartBackgroundWriter and StartCheckPointer; cancelFlush and cancelCheckpt
\* are known to Stop from here on.
StartWriters ==
  /\ main = "writers"
  /\ background' = TRUE
  /\ main' = "loop"
  /\ UNCHANGED <<exit, running, accepted, stop, netVars, wg, sessionVars,
                 clientVars, poolVars>>

\* for server.running.Load(): when it ends, Start returns and so does main,
\* and with main the process ends, whatever the other goroutines are doing.
LoopCheck ==
  /\ main = "loop"
  /\ IF running THEN main' = "accept" /\ UNCHANGED exit
                ELSE exit' = "clean" /\ UNCHANGED main
  /\ UNCHANGED <<running, accepted, background, stop, netVars, wg, sessionVars,
                 clientVars, poolVars>>

Accept ==
  /\ main = "accept" /\ listener = "open" /\ backlog # <<>>
  /\ accepted' = Head(backlog)
  /\ backlog' = Tail(backlog)
  /\ main' = "add"
  /\ UNCHANGED <<exit, running, background, stop, listener, wg, sessionVars,
                 clientVars, poolVars>>

\* The listener is closed, or Accept fails for a reason of its own (too many
\* open files): after 50 ms, if still running, the loop tries again.
AcceptFails ==
  /\ main = "accept"
  /\ \/ listener = "closed" /\ UNCHANGED faults
     \/ listener = "open" /\ faults < MaxFaults /\ faults' = faults + 1
  /\ main' = "loop"
  /\ UNCHANGED <<exit, running, accepted, background, stop, netVars, wg,
                 sessionVars, clientVars, dirty, disk>>

\* The session adds itself to wg only later, if at all.
AddSessionUncounted ==
  /\ main = "add"
  /\ session' = [session EXCEPT ![accepted] = "read"]
  /\ main' = "loop"
  /\ UNCHANGED <<exit, wg, running, accepted, background, stop, netVars, reply,
                 taken, answers, clientVars, poolVars>>

\* wg.Add(1) and go handleClient.  sync.WaitGroup panics when the counter leaves
\* zero while a Wait has not been released yet.
AddSession ==
  /\ main = "add"
  /\ IF wg = 0 /\ stop = "blocked"
     THEN exit' = "panic" /\ UNCHANGED <<main, wg, session>>
     ELSE /\ wg' = wg + 1
          /\ session' = [session EXCEPT ![accepted] = "read"]
          /\ main' = "loop"
          /\ UNCHANGED exit
  /\ UNCHANGED <<running, accepted, background, stop, netVars, reply, taken,
                 answers, clientVars, poolVars>>

(***************************************************************************)
(* The signal goroutine of main, and Stop.  It receives one signal; later  *)
(* ones stay in the channel.                                               *)
(***************************************************************************)
\* Stop returns at once when Start has not set `running' yet.
StopCAS ==
  /\ stop = "wait"
  /\ running' = FALSE
  /\ stop' = IF running THEN "cancel" ELSE "ignored"
  /\ UNCHANGED <<exit, main, accepted, background, netVars, wg, sessionVars,
                 clientVars, poolVars>>

\* cancelFlush and cancelCheckpt, if Start has stored them by now: writers that
\* start later run on.  A tick under way counts as one before.
CancelWriters ==
  /\ stop = "cancel"
  /\ background' = FALSE
  /\ stop' = "close"
  /\ UNCHANGED <<exit, running, main, accepted, netVars, wg, sessionVars,
                 clientVars, poolVars>>

\* Stop leaves the listener open.
CloseListenerNever ==
  /\ stop = "close"
  /\ stop' = "wait_group"
  /\ UNCHANGED <<exit, startVars, netVars, wg, sessionVars, clientVars, poolVars>>

\* listener.Close, if there is a listener; the kernel resets what is queued.
CloseListener ==
  /\ stop = "close"
  /\ IF listener = "open" THEN listener' = "closed" /\ backlog' = <<>>
                          ELSE UNCHANGED netVars
  /\ stop' = "wait_group"
  /\ UNCHANGED <<exit, startVars, wg, sessionVars, clientVars, poolVars>>

\* Stop flushes without waiting.
WaitGroupSkipped ==
  /\ stop = "wait_group"
  /\ stop' = "final_flush"
  /\ UNCHANGED <<exit, startVars, netVars, wg, sessionVars, clientVars, poolVars>>

\* wg.Wait returns at once, or blocks until the counter is back at zero.
WaitGroup ==
  /\ stop = "wait_group"
  /\ stop' = IF wg = 0 THEN "final_flush" ELSE "blocked"
  /\ UNCHANGED <<exit, startVars, netVars, wg, sessionVars, clientVars, poolVars>>

FinalFlush ==
  /\ stop = "final_flush"
  /\ \/ FlushSucceeds /\ stop' = "stopped"
     \/ FlushFails /\ stop' = "flush_failed"
  /\ UNCHANGED <<exit, startVars, netVars, wg, sessionVars, clientVars>>

(***************************************************************************)
(* handleClient, one goroutine per session.                                *)
(***************************************************************************)
Goto(c, place) == session' = [session EXCEPT ![c] = place]

Reply(c, id, acks) == reply' = [reply EXCEPT ![c] = [id |-> id, acks |-> acks]]

SessionFrame == UNCHANGED <<exit, startVars, netVars, clientVars>>

TakeLine(c, kind) ==
  /\ session[c] = "read" /\ taken[c] < Len(lines[c])
  /\ lines[c][taken[c] + 1] = kind
  /\ taken' = [taken EXCEPT ![c] = @ + 1]
  /\ UNCHANGED <<stop, wg, answers, disk, faults>>
  /\ SessionFrame

\* The session skips a line that is no JSON.
AnswerBadJSONSilently(c) ==
  /\ TakeLine(c, "badjson")
  /\ UNCHANGED <<session, reply, dirty>>

\* The session ends at a line that is no JSON.
AnswerBadJSONLeaves(c) ==
  /\ TakeLine(c, "badjson")
  /\ Goto(c, "close")
  /\ UNCHANGED <<reply, dirty>>

\* A line that is no JSON is answered without a request id, and the session
\* goes on.
AnswerBadJSON(c) ==
  /\ TakeLine(c, "badjson")
  /\ Reply(c, NoId, FALSE)
  /\ Goto(c, "write")
  /\ UNCHANGED dirty

\* processRequest: a request that changes nothing, refused, failed or not.
ProcessQuery(c) ==
  /\ TakeLine(c, "query")
  /\ Reply(c, taken[c] + 1, FALSE)
  /\ Goto(c, "write")
  /\ UNCHANGED dirty

\* The statement is answered before its pages are flushed.
ProcessChangeUnflushed(c) ==
  /\ TakeLine(c, "change")
  /\ dirty' = dirty \cup {<<c, taken[c] + 1>>}
  /\ Reply(c, taken[c] + 1, TRUE)
  /\ Goto(c, "write")

\* processRequest: a statement that changes pages.  It goes on to FlushAllPages
\* or fails, before or after it has changed something.
ProcessChange(c) ==
  LET change == <<c, taken[c] + 1>> IN
  /\ TakeLine(c, "change")
  /\ \/ dirty' = dirty \cup {change} /\ Goto(c, "flush") /\ UNCHANGED reply
     \/ /\ dirty' \in {dirty, dirty \cup {change}}
        /\ Reply(c, taken[c] + 1, FALSE)
        /\ Goto(c, "write")

\* ExecuteWithContext drops the result of FlushAllPages.
FlushStatement(c) ==
  /\ session[c] = "flush"
  /\ FlushSucceeds \/ FlushFails
  /\ Reply(c, taken[c], TRUE)
  /\ Goto(c, "write")
  /\ UNCHANGED <<stop, wg, taken, answers>>
  /\ SessionFrame

\* ReadRequest gets io.EOF or a reset connection (which may discard lines that
\* had arrived); part of a line before the EOF is dropped.
ReadFails(c) ==
  /\ session[c] = "read" /\ peer[c] = "gone"
  /\ Goto(c, "close")
  /\ UNCHANGED <<stop, wg, reply, taken, answers, poolVars>>
  /\ SessionFrame

\* codec.WriteResponse; when the client is gone it may fail, which ends the
\* session.
WriteResponse(c) ==
  /\ session[c] = "write"
  /\ \/ /\ answers' = [answers EXCEPT ![c] = Append(@, reply[c])]
        /\ Goto(c, "read")
     \/ peer[c] = "gone" /\ Goto(c, "close") /\ UNCHANGED answers
  /\ reply' = [reply EXCEPT ![c] = NoReply]
  /\ UNCHANGED <<stop, wg, taken, poolVars>>
  /\ SessionFrame

\* The deferred conn.Close and wg.Done: the counter goes down, and whoever
\* brings it to zero releases a waiting Stop.
EndSession(c) ==
  /\ session[c] = "close"
  /\ wg' = wg - 1
  /\ Goto(c, IF wg = 1 /\ stop = "blocked" THEN "release" ELSE "ended")
  /\ UNCHANGED <<stop, reply, taken, answers, poolVars>>
  /\ SessionFrame

ReleaseStop(c) ==
  /\ session[c] = "release"
  /\ stop' = "final_flush"
  /\ Goto(c, "ended")
  /\ UNCHANGED <<wg, reply, taken, answers, poolVars>>
  /\ SessionFrame

(***************************************************************************)
(* Clients: they connect, send lines, some before the last one is          *)
(* answered, and leave at any moment.                                      *)
(***************************************************************************)
ClientFrame ==
  UNCHANGED <<exit, startVars, stop, listener, wg, sessionVars, poolVars>>

Connect(c) ==
  /\ peer[c] = "none" /\ listener = "open"
  /\ peer' = [peer EXCEPT ![c] = "open"]
  /\ backlog' = Append(backlog, c)
  /\ UNCHANGED lines
  /\ ClientFrame

Send(c, kind) ==
  /\ peer[c] = "open" /\ Len(lines[c]) < MaxLines[c]
  /\ lines' = [lines EXCEPT ![c] = Append(@, kind)]
  /\ UNCHANGED <<peer, backlog>>
  /\ ClientFrame

Leave(c) ==
  /\ peer[c] = "open"
  /\ peer' = [peer EXCEPT ![c] = "gone"]
  /\ UNCHANGED <<lines, backlog>>
  /\ ClientFrame

-----------------------------------------------------------------------------
MainStep ==
  \/ StartCAS \/ Listen \/ ListenFails \/ StartWriters
  \/ LoopCheck \/ Accept \/ AcceptFails \/ AddSession

StopStep == CancelWriters \/ CloseListener \/ WaitGroup \/ FinalFlush

SessionStep(c) ==
  \/ AnswerBadJSON(c) \/ ProcessQuery(c) \/ ProcessChange(c) \/ FlushStatement(c)
  \/ ReadFails(c) \/ WriteResponse(c) \/ EndSession(c) \/ ReleaseStop(c)

ClientStep(c) ==
  Connect(c) \/ (\E kind \in Kinds : Send(c, kind)) \/ Leave(c)

Up == exit = "up"

Next ==
  \/ Up /\ (MainStep \/ StopCAS \/ StopStep \/ FlushTick \/ CheckPointTick)
  \/ Up /\ \E c \in Clients : SessionStep(c) \/ ClientStep(c)
  \/ ~Up /\ UNCHANGED vars

Spec == Init /\ [][Next]_vars

\* Go runs every goroutine that can run, and the checkpointer's ticker ticks.
\* Clients need not send, nor leave, and the signal need not come; but a client
\* takes its responses, since WriteResponse has no deadline and would wait for
\* one that does not read.
Fairness ==
  /\ WF_vars(Up /\ MainStep)
  /\ WF_vars(Up /\ StopStep)
  /\ \A c \in Clients : WF_vars(Up /\ SessionStep(c))
  /\ WF_vars(Up /\ CheckPointTick)

FairSpec == Spec /\ Fairness

-----------------------------------------------------------------------------
Acked == {s \in Changes : /\ s[2] \in DOMAIN answers[s[1]]
                          /\ answers[s[1]][s[2]].acks}

(* The n-th response on a connection answers its n-th request line, under the
   id of that request; a line that is no JSON gets a response too.  The CLI
   never compares ids: sendQuery takes the next line it reads as the answer. *)
AnswersMatch ==
  \A c \in Clients : \A i \in DOMAIN answers[c] :
    /\ i <= Len(lines[c])
    /\ answers[c][i].id = IF lines[c][i] = "badjson" THEN NoId ELSE i

(* A change whose statement was answered with ok is in the files unless a
   flush failed, and then it is in the pool as long as the process lives,
   whatever the signal, the writers and the other sessions do. *)
AckedIsSafe ==
  /\ exit = "up" => Acked \subseteq disk \cup dirty
  /\ faults = 0 => Acked \subseteq disk

(* Stop waits for the sessions before its last flush, but for one at most:
   the connection Accept had already returned when `running' was cleared is
   counted after wg.Wait looked. *)
AtMostOneLateSession ==
  stop \in {"final_flush", "stopped", "flush_failed"}
    => Cardinality({c \in Clients : Live(c)}) <= 1

(* After the last flush of Stop every acknowledged change is in the files,
   those a failed flush had left behind included; only the session that was
   accepted last may have changed something since. *)
StoppedIsDurable ==
  stop = "stopped" => \A s \in Acked \ disk : s[1] = accepted

(* Once Stop has cleared `running' the process ends, whatever the clients do:
   no order of Stop's close and Start's store of the listener leaves the main
   goroutine in Accept. *)
StopEnds ==
  stop \notin {"wait", "ignored"} ~> exit # "up"

(* A change that a failed flush, or a failed statement, leaves in the pool
   reaches the files if the server stays up. *)
DirtyReachesDisk ==
  \A s \in Changes : s \in dirty ~> s \in disk \/ exit # "up"

(* A request line is answered unless its client leaves or the process ends,
   if the client's socket takes the responses (WriteResponse). *)
LinesAreAnswered ==
  \A c \in Clients : \A i \in 1 .. MaxLines[c] :
    Len(lines[c]) >= i ~> Len(answers[c]) >= i \/ peer[c] = "gone" \/ exit # "up"
=============================================================================
