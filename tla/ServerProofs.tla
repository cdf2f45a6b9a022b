---------------------------- MODULE ServerProofs ----------------------------
(***************************************************************************)
(* Proofs about Server, for every set of clients, any number of request    *)
(* lines and any number of failed flushes: responses match their requests, *)
(* acknowledged changes are safe, and the last flush of Stop misses one    *)
(* session at most.                                                        *)
(***************************************************************************)
EXTENDS Server, FiniteSetTheorems, TLAPS

\* A connection is in the backlog, in the hands of Accept, or has its session.
Arrivals ==
  /\ \A i \in DOMAIN backlog :
       peer[backlog[i]] # "none" /\ session[backlog[i]] = "none"
  /\ \A i, j \in DOMAIN backlog : backlog[i] = backlog[j] => i = j
  /\ main = "add" =>
       /\ accepted \in Clients
       /\ session[accepted] = "none" /\ peer[accepted] # "none"
       /\ \A i \in DOMAIN backlog : backlog[i] # accepted
  /\ \A c \in Clients : session[c] # "none" => peer[c] # "none"

\* How far a session is: at most one line is taken and not yet answered.
Progress(c) ==
  /\ Len(answers[c]) <= taken[c]
  /\ taken[c] <= Len(lines[c])
  /\ Len(lines[c]) <= MaxLines[c]
  /\ session[c] = "none" => taken[c] = 0
  /\ session[c] = "read" => Len(answers[c]) = taken[c]
  /\ session[c] \in {"flush", "write"} => Len(answers[c]) + 1 = taken[c]
  /\ session[c] = "flush" => lines[c][taken[c]] = "change"
  /\ session[c] = "write" =>
       reply[c].id = IF lines[c][taken[c]] = "badjson" THEN NoId ELSE taken[c]

AllProgress == \A c \in Clients : Progress(c)

\* The change of request i of client c is in the pool or in the files, and in
\* the files as long as no flush has failed.
Safe(c, i) ==
  /\ <<c, i>> \in disk \cup dirty
  /\ faults = 0 => <<c, i>> \in disk

AckedSafe ==
  \A c \in Clients :
    /\ session[c] = "flush" => <<c, taken[c]>> \in disk \cup dirty
    /\ session[c] = "write" /\ reply[c].acks => Safe(c, taken[c])
    /\ \A i \in DOMAIN answers[c] : answers[c][i].acks => Safe(c, i)

\* The sessions wg counts.
Counted == {c \in Clients : session[c] \in {"read", "flush", "write", "close"}}

WaitGroupCounts == wg = Cardinality(Counted)

\* A session that is about to release Stop is alone, and was the last.
Releasing ==
  /\ \A c \in Clients : session[c] = "release" => stop = "blocked" /\ wg = 0
  /\ \A c, d \in Clients : session[c] = "release" /\ session[d] = "release" => c = d

\* Once Stop has cleared `running' nothing is accepted after it has closed the
\* listener.
Stopping ==
  /\ running => main # "start"
  /\ stop \notin {"wait", "ignored"} => ~running /\ main # "start"
  /\ main \in {"writers", "loop", "accept", "add"} => listener # "nil"
  /\ main = "accept" /\ stop \notin {"wait", "ignored", "cancel", "close"}
       => listener = "closed"

\* Only the connection accepted last can have a session after wg.Wait.
Late ==
  stop \in {"final_flush", "stopped", "flush_failed"} =>
    \A c \in Clients : Live(c) => c = accepted /\ main = "loop"

StoppedSafe ==
  stop = "stopped" =>
    \A c \in Clients : \A i \in DOMAIN answers[c] :
      answers[c][i].acks /\ <<c, i>> \notin disk => c = accepted

\* TypeOK in parts that the provers can take one by one.
FlagsType == running \in BOOLEAN /\ background \in BOOLEAN

ControlType ==
  /\ exit \in {"up", "clean", "failed", "panic"}
  /\ main \in {"start", "listen", "writers", "loop", "accept", "add"}
  /\ stop \in {"wait", "cancel", "close", "wait_group", "blocked",
               "final_flush", "stopped", "flush_failed", "ignored"}
  /\ listener \in {"nil", "open", "closed"}
  /\ accepted \in Clients \cup {NoId}
  /\ wg \in Int

BacklogType == backlog \in Seq(Clients)

SessionsType ==
  /\ session \in [Clients -> {"none", "read", "flush", "write", "close",
                              "release", "ended"}]
  /\ peer \in [Clients -> {"none", "open", "gone"}]
  /\ taken \in [Clients -> Nat]

TrafficType ==
  /\ reply \in [Clients -> Responses]
  /\ lines \in [Clients -> Seq(Kinds)]
  /\ answers \in [Clients -> Seq(Responses)]

PoolType ==
  /\ dirty \in SUBSET Changes
  /\ disk \in SUBSET Changes
  /\ faults \in Nat

Types ==
  FlagsType /\ ControlType /\ BacklogType /\ SessionsType /\ TrafficType /\ PoolType

IndInv ==
  /\ Types
  /\ Arrivals
  /\ AllProgress
  /\ AnswersMatch
  /\ AckedSafe
  /\ WaitGroupCounts
  /\ Releasing
  /\ Stopping
  /\ Late
  /\ StoppedSafe

USE DEF startVars, netVars, sessionVars, clientVars, poolVars

(* Responses are well formed. *)
LEMMA ResponseType ==
  ASSUME NEW id \in Nat \cup {NoId}, NEW acks \in BOOLEAN
  PROVE  [id |-> id, acks |-> acks] \in Responses
BY DEF Responses

LEMMA NoReplyType == NoReply \in Responses
BY ResponseType DEF NoReply

(* The initial state satisfies the invariant. *)
LEMMA InitIndInv == Init => IndInv
<1> SUFFICES ASSUME Init PROVE IndInv
  OBVIOUS
<1>1. Types
  <2>1. FlagsType
    BY Zenon DEF Init, FlagsType
  <2>2. ControlType /\ BacklogType
    BY DEF Init, ControlType, BacklogType
  <2>3. SessionsType /\ TrafficType /\ PoolType
    BY NoReplyType DEF Init, SessionsType, TrafficType, PoolType
  <2> QED
    BY <2>1, <2>2, <2>3 DEF Types
<1>2. Arrivals /\ AllProgress /\ AnswersMatch /\ AckedSafe
  BY BoundsAssumption DEF Init, Arrivals, AllProgress, Progress, AnswersMatch, AckedSafe
<1>3. WaitGroupCounts
  <2>1. Counted = {}
    BY DEF Init, Counted
  <2> QED
    BY <2>1, FS_EmptySet DEF Init, WaitGroupCounts
<1>4. Releasing /\ Stopping /\ Late /\ StoppedSafe
  BY DEF Init, Releasing, Stopping, Late, StoppedSafe
<1> QED
  BY <1>1, <1>2, <1>3, <1>4 DEF IndInv

(* A change a statement makes is one of Changes. *)
LEMMA ChangeType ==
  ASSUME NEW c \in Clients, NEW i \in 1 .. MaxLines[c]
  PROVE  <<c, i>> \in Changes
BY DEF Changes

(* What a flush does to the changes, and to which of them are safe. *)
LEMMA FlushKeeps ==
  ASSUME PoolType, FlushSucceeds \/ FlushFails
  PROVE  /\ dirty' \in SUBSET Changes /\ disk' \in SUBSET Changes /\ faults' \in Nat
         /\ disk \subseteq disk'
         /\ disk' \cup dirty' = disk \cup dirty
         /\ faults' = 0 => faults = 0 /\ disk' = disk \cup dirty
BY DEF PoolType, FlushSucceeds, FlushFails

(* All steps change the state in one of these ways. *)
LEMMA Steps ==
  ASSUME [Next]_vars
  PROVE  \/ StartCAS \/ Listen \/ ListenFails \/ StartWriters
         \/ LoopCheck \/ Accept \/ AcceptFails \/ AddSession
         \/ StopCAS \/ CancelWriters \/ CloseListener \/ WaitGroup \/ FinalFlush
         \/ FlushTick \/ CheckPointTick
         \/ \E c \in Clients :
              \/ AnswerBadJSON(c) \/ ProcessQuery(c) \/ ProcessChange(c)
              \/ FlushStatement(c) \/ ReadFails(c) \/ WriteResponse(c)
              \/ EndSession(c) \/ ReleaseStop(c)
              \/ Connect(c) \/ (\E kind \in Kinds : Send(c, kind)) \/ Leave(c)
         \/ UNCHANGED vars
BY DEF Next, MainStep, StopStep, SessionStep, ClientStep

(* The variables that the goroutines of Start and Stop, the sessions and the
   clients each leave alone. *)
LEMMA ProcessFrame ==
  ASSUME \/ StartCAS \/ Listen \/ ListenFails \/ StartWriters \/ LoopCheck
         \/ Accept \/ AcceptFails \/ StopCAS \/ CancelWriters \/ CloseListener
         \/ WaitGroup \/ FinalFlush \/ FlushTick \/ CheckPointTick
  PROVE  UNCHANGED <<session, reply, taken, answers, peer, lines, wg>>
BY DEF StartCAS, Listen, ListenFails, StartWriters, LoopCheck, Accept, AcceptFails,
       StopCAS, CancelWriters, CloseListener, WaitGroup, FinalFlush, FlushTick,
       CheckPointTick

LEMMA SessionKeeps ==
  ASSUME NEW c \in Clients,
         \/ AnswerBadJSON(c) \/ ProcessQuery(c) \/ ProcessChange(c)
         \/ FlushStatement(c) \/ ReadFails(c) \/ WriteResponse(c)
         \/ EndSession(c) \/ ReleaseStop(c)
  PROVE  UNCHANGED <<exit, running, main, accepted, background, listener, backlog,
                     peer, lines>>
BY DEF AnswerBadJSON, ProcessQuery, ProcessChange, TakeLine, FlushStatement, ReadFails,
       WriteResponse, EndSession, ReleaseStop, SessionFrame

LEMMA SessionMoves ==
  ASSUME NEW c \in Clients,
         \/ AnswerBadJSON(c) \/ ProcessQuery(c) \/ ProcessChange(c)
         \/ FlushStatement(c) \/ ReadFails(c) \/ WriteResponse(c)
         \/ EndSession(c) \/ ReleaseStop(c)
  PROVE  /\ session[c] \in {"read", "flush", "write", "close", "release"}
         /\ \E place \in {"read", "flush", "write", "close", "release", "ended"} :
              session' = [session EXCEPT ![c] = place]
BY DEF AnswerBadJSON, ProcessQuery, ProcessChange, TakeLine, FlushStatement,
       ReadFails, WriteResponse, EndSession, ReleaseStop, Goto

LEMMA ClientKeeps ==
  ASSUME NEW c \in Clients,
         Connect(c) \/ (\E kind \in Kinds : Send(c, kind)) \/ Leave(c)
  PROVE  UNCHANGED <<exit, running, main, accepted, background, stop, listener, wg,
                     session, reply, taken, answers, dirty, disk, faults>>
BY DEF Connect, Send, Leave, ClientFrame

-----------------------------------------------------------------------------
(* Types. *)

(* The flags of Start and Stop stay Booleans. *)
LEMMA FlagsStep == IndInv /\ [Next]_vars => FlagsType'
<1> SUFFICES ASSUME IndInv, [Next]_vars PROVE FlagsType'
  OBVIOUS
<1>1. UNCHANGED <<running, background>> => FlagsType'
  BY Zenon DEF IndInv, Types, FlagsType
<1>2. CASE StartCAS \/ ListenFails \/ StartWriters \/ StopCAS \/ CancelWriters
  BY <1>2, Zenon DEF IndInv, Types, FlagsType, StartCAS, ListenFails, StartWriters,
                     StopCAS, CancelWriters
<1>3. CASE \/ Listen \/ LoopCheck \/ Accept \/ AcceptFails \/ AddSession
           \/ CloseListener \/ WaitGroup \/ FinalFlush \/ FlushTick \/ CheckPointTick
           \/ UNCHANGED vars
  BY <1>1, <1>3
     DEF Listen, LoopCheck, Accept, AcceptFails, AddSession, CloseListener, WaitGroup,
         FinalFlush, FlushTick, CheckPointTick, vars
<1> QED
  BY <1>1, <1>2, <1>3, Steps, SessionKeeps, ClientKeeps

(* Program counters, the listener and the counter of the wait group. *)
LEMMA ControlStep == IndInv /\ [Next]_vars => ControlType'
<1> SUFFICES ASSUME IndInv, [Next]_vars PROVE ControlType'
  OBVIOUS
<1> USE DEF IndInv, Types, ControlType
<1>1. CASE StartCAS \/ Listen \/ ListenFails \/ StartWriters \/ LoopCheck
  BY <1>1 DEF StartCAS, Listen, ListenFails, StartWriters, LoopCheck
<1>2. CASE Accept
  <2>1. Head(backlog) \in Clients
    BY <1>2 DEF Accept, BacklogType
  <2> QED
    BY <1>2, <2>1 DEF Accept
<1>3. CASE AcceptFails \/ AddSession
  BY <1>3 DEF AcceptFails, AddSession
<1>4. CASE StopCAS
  <2>1. stop' = "cancel" \/ stop' = "ignored"
    BY <1>4, Zenon DEF StopCAS
  <2>2. UNCHANGED <<exit, main, accepted, listener, wg>>
    BY <1>4, Zenon DEF StopCAS
  <2> QED
    BY <2>1, <2>2
<1>5. CASE CancelWriters \/ CloseListener \/ WaitGroup \/ FinalFlush
  BY <1>5 DEF CancelWriters, CloseListener, WaitGroup, FinalFlush
<1>6. CASE FlushTick \/ CheckPointTick \/ UNCHANGED vars
  BY <1>6 DEF FlushTick, CheckPointTick, vars
<1>7. ASSUME NEW c \in Clients,
             \/ AnswerBadJSON(c) \/ ProcessQuery(c) \/ ProcessChange(c)
             \/ FlushStatement(c) \/ ReadFails(c) \/ WriteResponse(c)
             \/ EndSession(c) \/ ReleaseStop(c)
      PROVE  ControlType'
  <2>1. UNCHANGED <<exit, main, accepted, listener>>
    BY <1>7, SessionKeeps
  <2>2. stop' \in {stop, "final_flush"} /\ wg' \in {wg, wg - 1}
    BY <1>7 DEF AnswerBadJSON, ProcessQuery, ProcessChange, TakeLine, FlushStatement,
                ReadFails, WriteResponse, EndSession, ReleaseStop
  <2> QED
    BY <2>1, <2>2
<1> QED
  BY <1>1, <1>2, <1>3, <1>4, <1>5, <1>6, <1>7, Steps, ClientKeeps

(* The kernel's queue of connections. *)
LEMMA BacklogStep == IndInv /\ [Next]_vars => BacklogType'
<1> SUFFICES ASSUME IndInv, [Next]_vars PROVE BacklogType'
  OBVIOUS
<1> USE DEF IndInv, Types, BacklogType
<1>1. CASE Accept
  BY <1>1 DEF Accept
<1>2. CASE CloseListener
  <2>1. backlog' = <<>> \/ backlog' = backlog
    BY <1>2 DEF CloseListener
  <2>2. <<>> \in Seq(Clients)
    OBVIOUS
  <2> QED
    BY <2>1, <2>2
<1>3. ASSUME NEW c \in Clients, Connect(c) PROVE BacklogType'
  BY <1>3 DEF Connect
<1>4. ASSUME NEW c \in Clients, Leave(c) \/ \E kind \in Kinds : Send(c, kind)
      PROVE  BacklogType'
  BY <1>4 DEF Leave, Send
<1>5. CASE \/ StartCAS \/ Listen \/ ListenFails \/ StartWriters \/ LoopCheck
           \/ AcceptFails \/ AddSession \/ StopCAS \/ CancelWriters \/ WaitGroup
           \/ FinalFlush \/ FlushTick \/ CheckPointTick \/ UNCHANGED vars
  BY <1>5 DEF StartCAS, Listen, ListenFails, StartWriters, LoopCheck, AcceptFails,
              AddSession, StopCAS, CancelWriters, WaitGroup, FinalFlush, FlushTick,
              CheckPointTick, vars
<1> QED
  BY <1>1, <1>2, <1>3, <1>4, <1>5, Steps, SessionKeeps

(* Sessions, connections and how many lines are read. *)
LEMMA SessionsStep == IndInv /\ [Next]_vars => SessionsType'
<1> SUFFICES ASSUME IndInv, [Next]_vars PROVE SessionsType'
  OBVIOUS
<1> USE DEF IndInv, Types, SessionsType
<1>1. CASE AddSession
  BY <1>1 DEF AddSession
<1>2. ASSUME NEW c \in Clients,
             \/ AnswerBadJSON(c) \/ ProcessQuery(c) \/ ProcessChange(c)
             \/ FlushStatement(c) \/ ReadFails(c) \/ WriteResponse(c)
             \/ EndSession(c) \/ ReleaseStop(c)
      PROVE  SessionsType'
  <2>1. UNCHANGED peer
    BY <1>2, SessionKeeps
  <2>2. taken' \in {taken, [taken EXCEPT ![c] = @ + 1]}
    BY <1>2 DEF AnswerBadJSON, ProcessQuery, ProcessChange, TakeLine, FlushStatement,
                ReadFails, WriteResponse, EndSession, ReleaseStop
  <2> QED
    BY <1>2, <2>1, <2>2, SessionMoves
<1>3. ASSUME NEW c \in Clients,
             Connect(c) \/ (\E kind \in Kinds : Send(c, kind)) \/ Leave(c)
      PROVE  SessionsType'
  BY <1>3 DEF Connect, Send, Leave, ClientFrame
<1>4. CASE UNCHANGED vars
  BY <1>4 DEF vars
<1> QED
  BY <1>1, <1>2, <1>3, <1>4, Steps, ProcessFrame

(* Request lines and responses. *)
LEMMA TrafficStep == IndInv /\ [Next]_vars => TrafficType'
<1> SUFFICES ASSUME IndInv, [Next]_vars PROVE TrafficType'
  OBVIOUS
<1> USE DEF IndInv, Types
<1>1. CASE UNCHANGED <<reply, lines, answers>>
  BY <1>1 DEF TrafficType
<1>2. ASSUME NEW c \in Clients,
             \/ AnswerBadJSON(c) \/ ProcessQuery(c) \/ ProcessChange(c)
             \/ FlushStatement(c)
      PROVE  TrafficType'
  <2>1. UNCHANGED <<lines, answers>>
    BY <1>2 DEF AnswerBadJSON, ProcessQuery, ProcessChange, FlushStatement, TakeLine,
                SessionFrame
  <2>2. taken[c] \in Nat
    BY DEF SessionsType
  <2>3. UNCHANGED reply \/ \E id \in {NoId, taken[c], taken[c] + 1}, acks \in BOOLEAN :
                              Reply(c, id, acks)
    BY <1>2, Zenon DEF AnswerBadJSON, ProcessQuery, ProcessChange, FlushStatement
  <2>4. ASSUME NEW id \in {NoId, taken[c], taken[c] + 1}, NEW acks \in BOOLEAN,
               Reply(c, id, acks)
        PROVE  TrafficType'
    <3>1. id \in Nat \cup {NoId}
      BY <2>2
    <3>2. PICK r \in Responses : reply' = [reply EXCEPT ![c] = r]
      BY <2>4, <3>1, ResponseType, Zenon DEF Reply
    <3> QED
      BY <2>1, <3>2 DEF TrafficType
  <2> QED
    BY <1>1, <2>1, <2>3, <2>4
<1>3. ASSUME NEW c \in Clients, ReadFails(c) \/ EndSession(c) \/ ReleaseStop(c)
      PROVE  TrafficType'
  BY <1>1, <1>3 DEF ReadFails, EndSession, ReleaseStop, SessionFrame
<1>4. ASSUME NEW c \in Clients, WriteResponse(c) PROVE TrafficType'
  <2>1. UNCHANGED lines /\ reply' = [reply EXCEPT ![c] = NoReply]
    BY <1>4 DEF WriteResponse, SessionFrame
  <2>2. answers' \in {answers, [answers EXCEPT ![c] = Append(@, reply[c])]}
    BY <1>4 DEF WriteResponse
  <2>3. reply[c] \in Responses /\ answers[c] \in Seq(Responses)
    BY DEF TrafficType
  <2>4. Append(answers[c], reply[c]) \in Seq(Responses)
    BY <2>3
  <2>5. answers' \in [Clients -> Seq(Responses)]
    BY <2>2, <2>4 DEF TrafficType
  <2> QED
    BY <2>1, <2>5, NoReplyType DEF TrafficType
<1>5. ASSUME NEW c \in Clients, NEW kind \in Kinds, Send(c, kind) PROVE TrafficType'
  BY <1>5 DEF Send, ClientFrame, TrafficType
<1>6. ASSUME NEW c \in Clients, Connect(c) \/ Leave(c) PROVE TrafficType'
  BY <1>1, <1>6 DEF Connect, Leave, ClientFrame
<1>7. CASE AddSession \/ UNCHANGED vars
  BY <1>1, <1>7 DEF AddSession, vars
<1> QED
  BY <1>1, <1>2, <1>3, <1>4, <1>5, <1>6, <1>7, Steps, ProcessFrame

(* The pages changed, in the pool and in the files. *)
LEMMA PoolStep == IndInv /\ [Next]_vars => PoolType'
<1> SUFFICES ASSUME IndInv, [Next]_vars PROVE PoolType'
  OBVIOUS
<1> USE DEF IndInv, Types, PoolType
<1>1. CASE FinalFlush \/ CheckPointTick
  BY <1>1, FlushKeeps DEF FinalFlush, CheckPointTick
<1>2. CASE FlushTick \/ AcceptFails
  BY <1>2 DEF FlushTick, AcceptFails
<1>3. ASSUME NEW c \in Clients, ProcessChange(c) PROVE PoolType'
  <2>1. taken[c] + 1 \in 1 .. MaxLines[c]
    <3>1. taken[c] < Len(lines[c]) /\ Len(lines[c]) <= MaxLines[c]
      BY <1>3 DEF ProcessChange, TakeLine, AllProgress, Progress
    <3>2. taken[c] \in Nat /\ Len(lines[c]) \in Nat /\ MaxLines[c] \in Nat
      BY BoundsAssumption DEF SessionsType, TrafficType
    <3> QED
      BY <3>1, <3>2
  <2>2. <<c, taken[c] + 1>> \in Changes
    BY <2>1, ChangeType
  <2> QED
    BY <1>3, <2>2 DEF ProcessChange, TakeLine
<1>4. ASSUME NEW c \in Clients, FlushStatement(c) PROVE PoolType'
  BY <1>4, FlushKeeps DEF FlushStatement
<1>5. ASSUME NEW c \in Clients,
             \/ AnswerBadJSON(c) \/ ProcessQuery(c) \/ ReadFails(c) \/ WriteResponse(c)
             \/ EndSession(c) \/ ReleaseStop(c)
      PROVE  PoolType'
  BY <1>5 DEF AnswerBadJSON, ProcessQuery, TakeLine, ReadFails, WriteResponse,
              EndSession, ReleaseStop
<1>6. CASE \/ StartCAS \/ Listen \/ ListenFails \/ StartWriters \/ LoopCheck
           \/ Accept \/ AddSession \/ StopCAS \/ CancelWriters \/ CloseListener
           \/ WaitGroup \/ UNCHANGED vars
  BY <1>6 DEF StartCAS, Listen, ListenFails, StartWriters, LoopCheck, Accept,
              AddSession, StopCAS, CancelWriters, CloseListener, WaitGroup, vars
<1> QED
  BY <1>1, <1>2, <1>3, <1>4, <1>5, <1>6, Steps, ClientKeeps

(* All variables keep their types. *)
LEMMA TypesStep == IndInv /\ [Next]_vars => Types'
BY FlagsStep, ControlStep, BacklogStep, SessionsStep, TrafficStep, PoolStep DEF Types

-----------------------------------------------------------------------------
(* Connections. *)

(* A connection stays in one place: in the backlog, with Accept or in its
   session. *)
LEMMA ArrivalsStep == IndInv /\ [Next]_vars => Arrivals'
<1> SUFFICES ASSUME IndInv, [Next]_vars PROVE Arrivals'
  OBVIOUS
<1> USE DEF IndInv, Types, BacklogType, SessionsType, Arrivals
<1>1. CASE Accept
  <2>1. /\ backlog' = Tail(backlog) /\ accepted' = Head(backlog) /\ backlog # <<>>
        /\ UNCHANGED <<session, peer>>
    BY <1>1 DEF Accept
  <2>2. /\ Head(backlog) = backlog[1] /\ 1 \in DOMAIN backlog
        /\ backlog[1] \in Clients
        /\ \A i \in DOMAIN Tail(backlog) :
             i + 1 \in DOMAIN backlog /\ i + 1 # 1 /\ Tail(backlog)[i] = backlog[i + 1]
        /\ \A i, j \in DOMAIN Tail(backlog) : i + 1 = j + 1 => i = j
    BY <2>1
  <2> QED
    BY <2>1, <2>2
<1>2. CASE AddSession
  BY <1>2 DEF AddSession
<1>3. CASE CloseListener
  <2>1. backlog' = <<>> \/ backlog' = backlog
    BY <1>3 DEF CloseListener
  <2>2. UNCHANGED <<main, accepted, session, peer>>
    BY <1>3 DEF CloseListener
  <2> QED
    BY <2>1, <2>2
<1>4. ASSUME NEW c \in Clients,
             \/ AnswerBadJSON(c) \/ ProcessQuery(c) \/ ProcessChange(c)
             \/ FlushStatement(c) \/ ReadFails(c) \/ WriteResponse(c)
             \/ EndSession(c) \/ ReleaseStop(c)
      PROVE  Arrivals'
  <2>1. UNCHANGED <<main, accepted, backlog, peer>>
    BY <1>4, SessionKeeps
  <2> QED
    BY <1>4, <2>1, SessionMoves
<1>5. ASSUME NEW c \in Clients, Connect(c) PROVE Arrivals'
  <2>1. /\ peer[c] = "none" /\ peer' = [peer EXCEPT ![c] = "open"]
        /\ backlog' = Append(backlog, c)
        /\ UNCHANGED <<session, main, accepted>>
    BY <1>5 DEF Connect, ClientFrame
  <2>2. \A i \in DOMAIN backlog' :
          \/ i \in DOMAIN backlog /\ backlog'[i] = backlog[i]
          \/ i = Len(backlog) + 1 /\ backlog'[i] = c
    BY <2>1
  <2>3. session[c] = "none" /\ \A i \in DOMAIN backlog : backlog[i] # c
    BY <2>1
  <2> QED
    BY <2>1, <2>2, <2>3
<1>6. ASSUME NEW c \in Clients, Leave(c) \/ (\E kind \in Kinds : Send(c, kind))
      PROVE  Arrivals'
  BY <1>6 DEF Leave, Send, ClientFrame
<1>7. CASE \/ StartCAS \/ Listen \/ ListenFails \/ StartWriters \/ LoopCheck
           \/ AcceptFails \/ StopCAS \/ CancelWriters
           \/ WaitGroup \/ FinalFlush \/ FlushTick \/ CheckPointTick \/ UNCHANGED vars
  <2>1. UNCHANGED <<session, peer>>
    BY <1>7, ProcessFrame DEF vars
  <2>2. UNCHANGED <<backlog, accepted>> /\ (main' = "add" => main = "add")
    BY <1>7 DEF StartCAS, Listen, ListenFails, StartWriters, LoopCheck, AcceptFails,
                StopCAS, CancelWriters, WaitGroup, FinalFlush, FlushTick,
                CheckPointTick, vars
  <2> QED
    BY <2>1, <2>2
<1> QED
  BY <1>1, <1>2, <1>3, <1>4, <1>5, <1>6, <1>7, Steps

-----------------------------------------------------------------------------
(* Requests and responses. *)

(* A session answers every line it reads before it reads the next. *)
LEMMA ProgressStep == IndInv /\ [Next]_vars => AllProgress'
<1> SUFFICES ASSUME IndInv, [Next]_vars PROVE AllProgress'
  OBVIOUS
<1> USE DEF IndInv, Types, SessionsType, TrafficType, AllProgress, Progress
<1>1. CASE AddSession
  <2>1. UNCHANGED <<reply, taken, answers, lines>>
    BY <1>1 DEF AddSession
  <2>2. \/ UNCHANGED session
        \/ session' = [session EXCEPT ![accepted] = "read"] /\ session[accepted] = "none"
           /\ accepted \in Clients
    BY <1>1 DEF AddSession, Arrivals
  <2> QED
    BY <2>1, <2>2
<1>2. ASSUME NEW c \in Clients, NEW kind \in Kinds, TakeLine(c, kind),
             NEW place \in {"flush", "write"}, session' = [session EXCEPT ![c] = place],
             place = "flush" => kind = "change",
             place = "write" =>
               /\ reply'[c].id = IF kind = "badjson" THEN NoId ELSE taken[c] + 1
               /\ \A d \in Clients \ {c} : reply'[d] = reply[d]
             ,
             place = "flush" => UNCHANGED reply
      PROVE  AllProgress'
  <2>1. /\ session[c] = "read" /\ taken[c] < Len(lines[c])
        /\ lines[c][taken[c] + 1] = kind
        /\ taken' = [taken EXCEPT ![c] = taken[c] + 1]
        /\ UNCHANGED <<answers, lines>>
    BY <1>2 DEF TakeLine, SessionFrame
  <2> SUFFICES ASSUME NEW d \in Clients PROVE Progress(d)'
    OBVIOUS
  <2>2. CASE d = c
    BY <1>2, <2>1, <2>2
  <2>3. CASE d # c
    BY <1>2, <2>1, <2>3
  <2> QED
    BY <2>2, <2>3
<1>3. ASSUME NEW c \in Clients, AnswerBadJSON(c) \/ ProcessQuery(c) \/ ProcessChange(c)
      PROVE  AllProgress'
  <2>1. PICK kind \in Kinds, place \in {"flush", "write"} :
          /\ TakeLine(c, kind) /\ session' = [session EXCEPT ![c] = place]
          /\ place = "flush" => kind = "change" /\ UNCHANGED reply
          /\ place = "write" =>
               \E acks : reply' = [reply EXCEPT ![c] =
                 [id |-> IF kind = "badjson" THEN NoId ELSE taken[c] + 1, acks |-> acks]]
    <3>1. CASE AnswerBadJSON(c)
      BY <3>1 DEF AnswerBadJSON, Reply, Goto, Kinds
    <3>2. CASE ProcessQuery(c)
      BY <3>2 DEF ProcessQuery, Reply, Goto, Kinds
    <3>3. CASE ProcessChange(c)
      BY <3>3 DEF ProcessChange, Reply, Goto, Kinds
    <3> QED
      BY <1>3, <3>1, <3>2, <3>3
  <2>2. place = "write" =>
          /\ reply'[c].id = IF kind = "badjson" THEN NoId ELSE taken[c] + 1
          /\ \A d \in Clients \ {c} : reply'[d] = reply[d]
    BY <2>1
  <2> QED
    BY <1>2, <2>1, <2>2
<1>4. ASSUME NEW c \in Clients, FlushStatement(c) PROVE AllProgress'
  <2>1. /\ session[c] = "flush" /\ session' = [session EXCEPT ![c] = "write"]
        /\ reply' = [reply EXCEPT ![c] = [id |-> taken[c], acks |-> TRUE]]
        /\ UNCHANGED <<taken, answers, lines>>
    BY <1>4 DEF FlushStatement, Reply, Goto, SessionFrame
  <2>2. reply'[c].id = taken[c] /\ \A d \in Clients \ {c} : reply'[d] = reply[d]
    BY <2>1
  <2>3. /\ session[c] = "flush" /\ session' = [session EXCEPT ![c] = "write"]
        /\ UNCHANGED <<taken, answers, lines>>
    BY <2>1
  <2> HIDE <2>1
  <2> QED
    BY <2>2, <2>3
<1>5. ASSUME NEW c \in Clients, ReadFails(c) \/ EndSession(c) \/ ReleaseStop(c)
      PROVE  AllProgress'
  <2>1. /\ UNCHANGED <<reply, taken, answers, lines>>
        /\ \E place \in {"close", "release", "ended"} :
             session' = [session EXCEPT ![c] = place]
    BY <1>5 DEF ReadFails, EndSession, ReleaseStop, Goto, SessionFrame
  <2> QED
    BY <2>1
<1>6. ASSUME NEW c \in Clients, WriteResponse(c) PROVE AllProgress'
  <2>1. /\ session[c] = "write" /\ UNCHANGED <<taken, lines>>
        /\ \A d \in Clients \ {c} : reply'[d] = reply[d]
        /\ \/ /\ answers' = [answers EXCEPT ![c] = Append(answers[c], reply[c])]
              /\ session' = [session EXCEPT ![c] = "read"]
           \/ session' = [session EXCEPT ![c] = "close"] /\ UNCHANGED answers
    BY <1>6 DEF WriteResponse, Goto, SessionFrame
  <2>2. Len(Append(answers[c], reply[c])) = Len(answers[c]) + 1
    OBVIOUS
  <2> SUFFICES ASSUME NEW d \in Clients PROVE Progress(d)'
    OBVIOUS
  <2>3. CASE d = c
    BY <2>1, <2>2, <2>3
  <2>4. CASE d # c
    BY <2>1, <2>4
  <2> QED
    BY <2>3, <2>4
<1>7. ASSUME NEW c \in Clients, NEW kind \in Kinds, Send(c, kind) PROVE AllProgress'
  <2>1. /\ lines' = [lines EXCEPT ![c] = Append(lines[c], kind)]
        /\ Len(lines[c]) < MaxLines[c]
        /\ UNCHANGED <<session, reply, taken, answers>>
    BY <1>7 DEF Send, ClientFrame
  <2>2. /\ Len(Append(lines[c], kind)) = Len(lines[c]) + 1
        /\ \A i \in 1 .. Len(lines[c]) : Append(lines[c], kind)[i] = lines[c][i]
    OBVIOUS
  <2>3. Len(lines[c]) + 1 <= MaxLines[c]
    <3>1. Len(lines[c]) \in Nat /\ MaxLines[c] \in Nat
      BY BoundsAssumption
    <3> QED
      BY <2>1, <3>1
  <2> SUFFICES ASSUME NEW d \in Clients PROVE Progress(d)'
    OBVIOUS
  <2>4. CASE d = c
    BY <2>1, <2>2, <2>3, <2>4
  <2>5. CASE d # c
    BY <2>1, <2>5
  <2> QED
    BY <2>4, <2>5
<1>8. ASSUME UNCHANGED <<session, reply, taken, answers, lines>> PROVE AllProgress'
  BY <1>8
<1>9. ASSUME NEW c \in Clients, Connect(c) \/ Leave(c) PROVE AllProgress'
  BY <1>8, <1>9 DEF Connect, Leave, ClientFrame
<1>10. CASE UNCHANGED vars
  BY <1>8, <1>10 DEF vars
<1> QED
  BY <1>1, <1>3, <1>4, <1>5, <1>6, <1>7, <1>8, <1>9, <1>10, Steps, ProcessFrame

(* Only WriteResponse writes to a connection, and only Send adds to its lines. *)
LEMMA TrafficMoves ==
  ASSUME [Next]_vars
  PROVE  \/ UNCHANGED <<lines, answers>>
         \/ \E c \in Clients : WriteResponse(c) \/ \E kind \in Kinds : Send(c, kind)
<1>1. ASSUME NEW c \in Clients,
             \/ AnswerBadJSON(c) \/ ProcessQuery(c) \/ ProcessChange(c)
             \/ FlushStatement(c) \/ ReadFails(c) \/ EndSession(c) \/ ReleaseStop(c)
             \/ Connect(c) \/ Leave(c)
      PROVE  UNCHANGED <<lines, answers>>
  BY <1>1 DEF AnswerBadJSON, ProcessQuery, ProcessChange, TakeLine, FlushStatement,
              ReadFails, EndSession, ReleaseStop, Connect, Leave, SessionFrame,
              ClientFrame
<1>2. CASE AddSession \/ UNCHANGED vars
  BY <1>2 DEF AddSession, vars
<1> QED
  BY <1>1, <1>2, Steps, ProcessFrame

(* The response WriteResponse appends answers the line taken last. *)
LEMMA AnswersStep == IndInv /\ [Next]_vars => AnswersMatch'
<1> SUFFICES ASSUME IndInv, [Next]_vars PROVE AnswersMatch'
  OBVIOUS
<1> USE DEF IndInv, Types, TrafficType, SessionsType
<1>1. CASE UNCHANGED <<lines, answers>>
  BY <1>1 DEF AnswersMatch
<1>2. ASSUME NEW c \in Clients, WriteResponse(c) PROVE AnswersMatch'
  <2>1. /\ session[c] = "write" /\ UNCHANGED lines
        /\ answers' \in {answers, [answers EXCEPT ![c] = Append(answers[c], reply[c])]}
    BY <1>2 DEF WriteResponse, SessionFrame
  <2>2. \A i \in DOMAIN Append(answers[c], reply[c]) :
          \/ i \in DOMAIN answers[c] /\ Append(answers[c], reply[c])[i] = answers[c][i]
          \/ i = Len(answers[c]) + 1 /\ Append(answers[c], reply[c])[i] = reply[c]
    OBVIOUS
  <2>3. /\ Len(answers[c]) + 1 = taken[c] /\ taken[c] <= Len(lines[c])
        /\ reply[c].id = IF lines[c][taken[c]] = "badjson" THEN NoId ELSE taken[c]
    BY <2>1 DEF AllProgress, Progress
  <2> SUFFICES ASSUME NEW d \in Clients, NEW i \in DOMAIN answers'[d]
               PROVE  /\ i <= Len(lines[d])
                      /\ answers'[d][i].id = IF lines[d][i] = "badjson" THEN NoId ELSE i
    BY <2>1 DEF AnswersMatch
  <2>4. \/ i \in DOMAIN answers[d] /\ answers'[d][i] = answers[d][i]
        \/ d = c /\ i = taken[c] /\ answers'[d][i] = reply[c]
    BY <2>1, <2>2, <2>3
  <2> QED
    BY <2>3, <2>4 DEF AnswersMatch
<1>3. ASSUME NEW c \in Clients, NEW kind \in Kinds, Send(c, kind) PROVE AnswersMatch'
  <2>1. UNCHANGED answers /\ lines' = [lines EXCEPT ![c] = Append(lines[c], kind)]
    BY <1>3 DEF Send, ClientFrame
  <2>2. /\ Len(Append(lines[c], kind)) = Len(lines[c]) + 1
        /\ \A i \in 1 .. Len(lines[c]) : Append(lines[c], kind)[i] = lines[c][i]
        /\ Len(lines[c]) \in Nat
    OBVIOUS
  <2> SUFFICES ASSUME NEW d \in Clients, NEW i \in DOMAIN answers[d]
               PROVE  /\ i <= Len(lines'[d])
                      /\ answers[d][i].id = IF lines'[d][i] = "badjson" THEN NoId ELSE i
    BY <2>1 DEF AnswersMatch
  <2>3. /\ i <= Len(lines[d])
        /\ answers[d][i].id = IF lines[d][i] = "badjson" THEN NoId ELSE i
    BY DEF AnswersMatch
  <2>4. i \in 1 .. Len(lines[d])
    BY <2>3
  <2> QED
    BY <2>1, <2>2, <2>3, <2>4
<1> QED
  BY <1>1, <1>2, <1>3, TrafficMoves

-----------------------------------------------------------------------------
(* Changes. *)

(* No step loses a change, and no failed flush is forgotten. *)
LEMMA PoolGrows ==
  ASSUME IndInv, [Next]_vars
  PROVE  /\ disk \subseteq disk'
         /\ disk \cup dirty \subseteq disk' \cup dirty'
         /\ faults' = 0 => faults = 0
<1> USE DEF IndInv, Types
<1>1. CASE FinalFlush \/ CheckPointTick
  BY <1>1, FlushKeeps DEF FinalFlush, CheckPointTick
<1>2. ASSUME NEW c \in Clients, FlushStatement(c)
      PROVE  /\ disk \subseteq disk'
             /\ disk \cup dirty \subseteq disk' \cup dirty'
             /\ faults' = 0 => faults = 0
  BY <1>2, FlushKeeps DEF FlushStatement
<1>3. CASE FlushTick \/ AcceptFails
  BY <1>3 DEF FlushTick, AcceptFails, PoolType
<1>4. ASSUME NEW c \in Clients,
             \/ AnswerBadJSON(c) \/ ProcessQuery(c) \/ ProcessChange(c) \/ ReadFails(c)
             \/ WriteResponse(c) \/ EndSession(c) \/ ReleaseStop(c)
      PROVE  UNCHANGED <<disk, faults>> /\ dirty \subseteq dirty'
  BY <1>4 DEF AnswerBadJSON, ProcessQuery, ProcessChange, TakeLine, ReadFails,
              WriteResponse, EndSession, ReleaseStop
<1>5. CASE \/ StartCAS \/ Listen \/ ListenFails \/ StartWriters \/ LoopCheck
           \/ Accept \/ AddSession \/ StopCAS \/ CancelWriters \/ CloseListener
           \/ WaitGroup \/ UNCHANGED vars
  BY <1>5 DEF StartCAS, Listen, ListenFails, StartWriters, LoopCheck, Accept,
              AddSession, StopCAS, CancelWriters, CloseListener, WaitGroup, vars
<1> QED
  BY <1>1, <1>2, <1>3, <1>4, <1>5, Steps, ClientKeeps

(* What is safe stays safe. *)
LEMMA SafeStays ==
  ASSUME IndInv, [Next]_vars, NEW c, NEW i, Safe(c, i)
  PROVE  Safe(c, i)'
<1>1. <<c, i>> \in (disk \cup dirty)'
  BY PoolGrows DEF Safe
<1>2. ASSUME faults' = 0 PROVE <<c, i>> \in disk'
  BY <1>2, PoolGrows DEF Safe
<1> QED
  BY <1>1, <1>2 DEF Safe

(* A response other than the ok of a change acknowledges nothing. *)
LEMMA PlainReply ==
  ASSUME NEW r, NEW c \in Clients, NEW id, r \in [Clients -> Responses],
         reply' = [r EXCEPT ![c] = [id |-> id, acks |-> FALSE]]
  PROVE  ~reply'[c].acks
<1>1. reply'[c] = [id |-> id, acks |-> FALSE]
  BY Zenon
<1> QED
  BY <1>1, Zenon

(* A response is the ok of a change only when the change has been flushed, or
   the flush has failed and left it in the pool. *)
LEMMA AckedSafeStep == IndInv /\ [Next]_vars => AckedSafe'
<1> SUFFICES ASSUME IndInv, [Next]_vars, NEW d \in Clients
             PROVE  /\ session'[d] = "flush" => <<d, taken'[d]>> \in (disk \cup dirty)'
                    /\ session'[d] = "write" /\ reply'[d].acks => Safe(d, taken[d])'
                    /\ \A i \in DOMAIN answers'[d] : answers'[d][i].acks => Safe(d, i)'
  BY DEF AckedSafe
<1> USE DEF IndInv, Types, TrafficType, SessionsType
<1>1. /\ session[d] = "flush" => <<d, taken[d]>> \in disk \cup dirty
      /\ session[d] = "write" /\ reply[d].acks => Safe(d, taken[d])
      /\ \A i \in DOMAIN answers[d] : answers[d][i].acks => Safe(d, i)
  BY DEF AckedSafe
<1>2. CASE /\ UNCHANGED answers[d]
           /\ session'[d] \in {"flush", "write"} =>
                UNCHANGED <<session[d], taken[d], reply[d]>>
  BY <1>1, <1>2, PoolGrows, SafeStays DEF Safe
<1>3. CASE ProcessChange(d) \/ ProcessQuery(d) \/ AnswerBadJSON(d)
  <2>1. UNCHANGED answers
    BY <1>3 DEF ProcessChange, ProcessQuery, AnswerBadJSON, TakeLine
  <2>2. session'[d] = "flush" => <<d, taken'[d]>> \in (disk \cup dirty)'
    BY <1>3 DEF ProcessChange, ProcessQuery, AnswerBadJSON, TakeLine, Goto
  <2>3. session'[d] = "write" => ~reply'[d].acks
    <3>1. session' = [session EXCEPT ![d] = "flush"] => session'[d] # "write"
      OBVIOUS
    <3>2. \/ session' = [session EXCEPT ![d] = "flush"]
          \/ \E id : reply' = [reply EXCEPT ![d] = [id |-> id, acks |-> FALSE]]
      BY <1>3, Zenon DEF ProcessChange, ProcessQuery, AnswerBadJSON, Goto, Reply
    <3> QED
      BY <3>1, <3>2, PlainReply
  <2>4. \A i \in DOMAIN answers'[d] : answers'[d][i].acks => Safe(d, i)'
    BY <1>1, <2>1, SafeStays
  <2> QED
    BY <2>2, <2>3, <2>4
<1>4. CASE FlushStatement(d)
  <2>1. /\ session[d] = "flush" /\ session'[d] = "write"
        /\ UNCHANGED <<taken, answers>> /\ (FlushSucceeds \/ FlushFails)
    BY <1>4 DEF FlushStatement, Goto
  <2>2. Safe(d, taken[d])'
    BY <1>1, <2>1, FlushKeeps DEF Safe
  <2>3. \A i \in DOMAIN answers'[d] : answers'[d][i].acks => Safe(d, i)'
    BY <1>1, <2>1, SafeStays
  <2> QED
    BY <2>1, <2>2, <2>3
<1>5. CASE WriteResponse(d)
  <2>1. /\ session[d] = "write" /\ session'[d] \in {"read", "close"}
        /\ answers' \in {answers, [answers EXCEPT ![d] = Append(answers[d], reply[d])]}
    BY <1>5 DEF WriteResponse, Goto
  <2>2. \A i \in DOMAIN Append(answers[d], reply[d]) :
          \/ i \in DOMAIN answers[d] /\ Append(answers[d], reply[d])[i] = answers[d][i]
          \/ i = Len(answers[d]) + 1 /\ Append(answers[d], reply[d])[i] = reply[d]
    OBVIOUS
  <2>3. Len(answers[d]) + 1 = taken[d]
    BY <2>1 DEF AllProgress, Progress
  <2>4. ASSUME NEW i \in DOMAIN answers'[d], answers'[d][i].acks PROVE Safe(d, i)
    <3>1. \/ i \in DOMAIN answers[d] /\ answers'[d][i] = answers[d][i]
          \/ i = taken[d] /\ answers'[d][i] = reply[d]
      BY <2>1, <2>2, <2>3
    <3> QED
      BY <1>1, <2>1, <2>4, <3>1
  <2> QED
    BY <2>1, <2>4, SafeStays
<1>6. ASSUME NEW c \in Clients, c # d,
             \/ AnswerBadJSON(c) \/ ProcessQuery(c) \/ ProcessChange(c)
             \/ FlushStatement(c) \/ WriteResponse(c)
      PROVE  UNCHANGED <<session[d], taken[d], reply[d], answers[d]>>
  BY <1>6 DEF AnswerBadJSON, ProcessQuery, ProcessChange, TakeLine, FlushStatement,
              WriteResponse, Goto, Reply
<1>7. ASSUME NEW c \in Clients, ReadFails(c) \/ EndSession(c) \/ ReleaseStop(c)
      PROVE  /\ UNCHANGED <<taken, reply, answers>>
             /\ session'[d] \in {session[d], "close", "release", "ended"}
  BY <1>7 DEF ReadFails, EndSession, ReleaseStop, Goto
<1>8. CASE AddSession
  BY <1>2, <1>8 DEF AddSession, Arrivals
<1>9. UNCHANGED vars => UNCHANGED <<session, taken, reply, answers>>
  BY DEF vars
<1> QED
  BY <1>2, <1>3, <1>4, <1>5, <1>6, <1>7, <1>8, <1>9, Steps, ProcessFrame, ClientKeeps

-----------------------------------------------------------------------------
(* Start, Stop and the wait group. *)

(* The sessions are finitely many. *)
LEMMA CountedFinite == IsFiniteSet(Counted)
BY ClientsAssumption, FS_Subset DEF Counted

(* wg.Add comes with every session and wg.Done with its end. *)
LEMMA WaitGroupStep == IndInv /\ [Next]_vars => WaitGroupCounts'
<1> SUFFICES ASSUME IndInv, [Next]_vars PROVE WaitGroupCounts'
  OBVIOUS
<1> USE DEF IndInv, Types, SessionsType, WaitGroupCounts
<1>1. UNCHANGED <<wg, session>> => WaitGroupCounts'
  BY DEF Counted
<1>2. CASE AddSession
  <2>1. CASE UNCHANGED <<wg, session>>
    BY <1>1, <2>1
  <2>2. CASE wg' = wg + 1 /\ session' = [session EXCEPT ![accepted] = "read"]
    <3>1. accepted \in Clients /\ session[accepted] = "none"
      BY <1>2 DEF AddSession, Arrivals
    <3>2. Counted' = Counted \cup {accepted} /\ accepted \notin Counted
      BY <2>2, <3>1 DEF Counted
    <3> QED
      BY <2>2, <3>2, CountedFinite, FS_AddElement
  <2> QED
    BY <1>2, <2>1, <2>2 DEF AddSession
<1>3. ASSUME NEW c \in Clients, EndSession(c) PROVE WaitGroupCounts'
  <2>1. /\ session[c] = "close" /\ wg' = wg - 1
        /\ \E place \in {"release", "ended"} : session' = [session EXCEPT ![c] = place]
    BY <1>3 DEF EndSession, Goto
  <2>2. Counted' = Counted \ {c} /\ c \in Counted
    BY <2>1 DEF Counted
  <2> QED
    BY <2>1, <2>2, CountedFinite, FS_RemoveElement
<1>4. ASSUME NEW c \in Clients,
             \/ AnswerBadJSON(c) \/ ProcessQuery(c) \/ ProcessChange(c)
             \/ FlushStatement(c) \/ ReadFails(c) \/ WriteResponse(c) \/ ReleaseStop(c)
      PROVE  WaitGroupCounts'
  <2>1. UNCHANGED wg
    BY <1>4 DEF AnswerBadJSON, ProcessQuery, ProcessChange, TakeLine, FlushStatement,
                ReadFails, WriteResponse, ReleaseStop
  <2>2. \/ /\ session[c] \in {"read", "flush", "write"}
           /\ \E place \in {"read", "flush", "write", "close"} :
                session' = [session EXCEPT ![c] = place]
        \/ session[c] = "release" /\ session' = [session EXCEPT ![c] = "ended"]
    BY <1>4 DEF AnswerBadJSON, ProcessQuery, ProcessChange, TakeLine, FlushStatement,
                ReadFails, WriteResponse, ReleaseStop, Goto
  <2>3. Counted' = Counted
    BY <2>2 DEF Counted
  <2> QED
    BY <2>1, <2>3
<1>5. CASE UNCHANGED vars
  BY <1>1, <1>5 DEF vars
<1> QED
  BY <1>1, <1>2, <1>3, <1>4, <1>5, Steps, ProcessFrame, ClientKeeps

(* When wg is zero no session is under way. *)
LEMMA NoneCounted ==
  ASSUME IndInv, wg = 0, NEW c \in Clients
  PROVE  session[c] \notin {"read", "flush", "write", "close"}
<1>1. Counted = {}
  BY CountedFinite, FS_EmptySet DEF IndInv, WaitGroupCounts
<1> QED
  BY <1>1 DEF Counted

(* Only the session that ends last while Stop waits releases it, and until then
   a new session would make wg.Add panic. *)
LEMMA ReleasingStep == IndInv /\ [Next]_vars => Releasing'
<1> SUFFICES ASSUME IndInv, [Next]_vars PROVE Releasing'
  OBVIOUS
<1> USE DEF IndInv, Types, SessionsType, Releasing
<1>1. CASE UNCHANGED <<session, stop, wg>>
  BY <1>1
<1>2. CASE AddSession
  <2>1. UNCHANGED stop
    BY <1>2 DEF AddSession
  <2>2. \/ UNCHANGED <<wg, session>>
        \/ ~(wg = 0 /\ stop = "blocked")
           /\ session' = [session EXCEPT ![accepted] = "read"]
    BY <1>2 DEF AddSession
  <2> QED
    BY <2>1, <2>2
<1>3. CASE StopCAS \/ CancelWriters \/ CloseListener \/ WaitGroup \/ FinalFlush
  <2>1. stop # "blocked"
    BY <1>3 DEF StopCAS, CancelWriters, CloseListener, WaitGroup, FinalFlush
  <2>2. UNCHANGED session
    BY <1>3, ProcessFrame
  <2> QED
    BY <2>1, <2>2
<1>4. ASSUME NEW c \in Clients,
             \/ AnswerBadJSON(c) \/ ProcessQuery(c) \/ ProcessChange(c)
             \/ FlushStatement(c) \/ ReadFails(c) \/ WriteResponse(c)
      PROVE  Releasing'
  <2>1. /\ UNCHANGED <<stop, wg>>
        /\ \E place \in {"read", "flush", "write", "close"} :
             session' = [session EXCEPT ![c] = place]
    BY <1>4 DEF AnswerBadJSON, ProcessQuery, ProcessChange, TakeLine, FlushStatement,
                ReadFails, WriteResponse, Goto
  <2> QED
    BY <2>1
<1>5. ASSUME NEW c \in Clients, EndSession(c) PROVE Releasing'
  <2>1. /\ UNCHANGED stop /\ wg' = wg - 1 /\ session[c] = "close"
        /\ session' = [session EXCEPT ![c] =
             IF wg = 1 /\ stop = "blocked" THEN "release" ELSE "ended"]
    BY <1>5 DEF EndSession, Goto
  <2>2. wg # 0
    BY <2>1, NoneCounted
  <2> QED
    BY <2>1, <2>2 DEF ControlType
<1>6. ASSUME NEW c \in Clients, ReleaseStop(c) PROVE Releasing'
  BY <1>6 DEF ReleaseStop, Goto
<1>7. CASE \/ StartCAS \/ Listen \/ ListenFails \/ StartWriters \/ LoopCheck
           \/ Accept \/ AcceptFails \/ FlushTick \/ CheckPointTick \/ UNCHANGED vars
  BY <1>1, <1>7
     DEF StartCAS, Listen, ListenFails, StartWriters, LoopCheck, Accept, AcceptFails,
         FlushTick, CheckPointTick, vars
<1> QED
  BY <1>1, <1>2, <1>3, <1>4, <1>5, <1>6, <1>7, Steps, ClientKeeps

(* Whether Accept can still return a connection. *)
LEMMA StoppingStep == IndInv /\ [Next]_vars => Stopping'
<1> SUFFICES ASSUME IndInv, [Next]_vars PROVE Stopping'
  OBVIOUS
<1> USE DEF IndInv, Types, ControlType, Stopping
<1>1. CASE UNCHANGED <<running, main, stop, listener>>
  BY <1>1, Zenon
<1>2. CASE StartCAS
  BY <1>2, Zenon DEF StartCAS
<1>3. CASE Listen
  BY <1>3, Zenon DEF Listen
<1>4. CASE ListenFails
  BY <1>4, Zenon DEF ListenFails
<1>5. CASE StartWriters
  BY <1>5, Zenon DEF StartWriters
<1>6. CASE LoopCheck
  BY <1>6, Zenon DEF LoopCheck
<1>7. CASE Accept
  BY <1>7, Zenon DEF Accept
<1>8. CASE AcceptFails
  BY <1>8, Zenon DEF AcceptFails
<1>9. CASE AddSession
  BY <1>9, Zenon DEF AddSession
<1>10. CASE StopCAS
  BY <1>10, Zenon DEF StopCAS
<1>11. CASE CancelWriters
  BY <1>11, Zenon DEF CancelWriters
<1>12. CASE CloseListener
  BY <1>12, Zenon DEF CloseListener
<1>13. CASE WaitGroup
  BY <1>13, Zenon DEF WaitGroup
<1>14. CASE FinalFlush
  BY <1>14, Zenon DEF FinalFlush
<1>15. CASE FlushTick \/ CheckPointTick \/ UNCHANGED vars
  BY <1>1, <1>15 DEF FlushTick, CheckPointTick, vars
<1>16. ASSUME NEW c \in Clients,
             \/ AnswerBadJSON(c) \/ ProcessQuery(c) \/ ProcessChange(c)
             \/ FlushStatement(c) \/ ReadFails(c) \/ WriteResponse(c)
             \/ EndSession(c)
      PROVE  Stopping'
  <2>1. UNCHANGED <<running, main, listener>>
    BY <1>16, SessionKeeps
  <2>2. UNCHANGED stop
    BY <1>16 DEF AnswerBadJSON, ProcessQuery, ProcessChange, TakeLine, FlushStatement,
                 ReadFails, WriteResponse, EndSession
  <2> QED
    BY <1>1, <2>1, <2>2
<1>17. ASSUME NEW c \in Clients, ReleaseStop(c) PROVE Stopping'
  <2>1. stop = "blocked" /\ stop' = "final_flush"
    BY <1>17 DEF ReleaseStop, Releasing
  <2>2. UNCHANGED <<running, main, listener>>
    BY <1>17, SessionKeeps
  <2> QED
    BY <2>1, <2>2
<1> QED
  BY <1>1, <1>2, <1>3, <1>4, <1>5, <1>6, <1>7, <1>8, <1>9, <1>10, <1>11, <1>12,
     <1>13, <1>14, <1>15, <1>16, <1>17, Steps, ClientKeeps

(* After wg.Wait the listener is closed and Accept returns no connection. *)
LEMMA NothingAccepted ==
  ASSUME IndInv, stop \in {"final_flush", "stopped", "flush_failed"}
  PROVE  ~Accept /\ ~StartCAS /\ ~StopCAS /\ ~running
<1>1. ~running /\ main # "start" /\ (main = "accept" => listener = "closed")
  BY Zenon DEF IndInv, Stopping
<1>2. ~Accept /\ ~StartCAS
  BY <1>1 DEF Accept, StartCAS
<1>3. ~StopCAS
  BY DEF StopCAS
<1> QED
  BY <1>1, <1>2, <1>3

(* A session that is under way after wg.Wait is the one accepted last. *)
LEMMA LateStep == IndInv /\ [Next]_vars => Late'
<1> SUFFICES ASSUME IndInv, [Next]_vars,
                    stop' \in {"final_flush", "stopped", "flush_failed"},
                    NEW d \in Clients, Live(d)'
             PROVE  d = accepted' /\ main' = "loop"
  BY DEF Late
<1> USE DEF IndInv, Types, SessionsType, ControlType, Live
<1> DEFINE Final == stop \in {"final_flush", "stopped", "flush_failed"}
<1>1. Final /\ Live(d) => d = accepted /\ main = "loop"
  BY DEF Late
<1>2. CASE UNCHANGED <<stop, session, accepted, main>>
  BY <1>1, <1>2
<1>3. CASE Listen \/ ListenFails \/ StartWriters \/ AcceptFails
  <2>1. main # "loop" /\ UNCHANGED <<stop, session, accepted>>
    BY <1>3 DEF Listen, ListenFails, StartWriters, AcceptFails
  <2> QED
    BY <1>1, <2>1
<1>4. CASE LoopCheck
  <2>1. UNCHANGED stop
    BY <1>4 DEF LoopCheck
  <2>2. ~running
    BY <2>1, NothingAccepted
  <2>3. UNCHANGED <<session, accepted, main>>
    BY <1>4, <2>2 DEF LoopCheck
  <2> QED
    BY <1>2, <2>1, <2>3
<1>5. CASE AddSession
  <2>1. main = "add" /\ UNCHANGED <<stop, accepted>>
    BY <1>5 DEF AddSession
  <2>2. \/ UNCHANGED session
        \/ main' = "loop" /\ session' = [session EXCEPT ![accepted] = "read"]
    BY <1>5 DEF AddSession
  <2> QED
    BY <1>1, <2>1, <2>2
<1>6. CASE StartCAS \/ Accept \/ StopCAS
  <2>1. CASE StartCAS \/ Accept
    BY <2>1, NothingAccepted DEF StartCAS, Accept
  <2>2. CASE StopCAS
    <3>1. stop' = "cancel" \/ stop' = "ignored"
      BY <2>2, Zenon DEF StopCAS
    <3> QED
      BY <3>1
  <2> QED
    BY <1>6, <2>1, <2>2
<1>7. CASE CancelWriters \/ CloseListener
  BY <1>7 DEF CancelWriters, CloseListener
<1>8. CASE WaitGroup
  <2>1. stop = "wait_group" /\ wg = 0 /\ UNCHANGED session
    BY <1>8 DEF WaitGroup
  <2>2. session[d] \notin {"read", "flush", "write", "close"}
    BY <2>1, NoneCounted
  <2> QED
    BY <2>1, <2>2 DEF Releasing
<1>9. CASE FinalFlush
  BY <1>1, <1>9 DEF FinalFlush
<1>10. ASSUME NEW c \in Clients, ReleaseStop(c) PROVE d = accepted' /\ main' = "loop"
  <2>1. session[c] = "release" /\ session' = [session EXCEPT ![c] = "ended"]
    BY <1>10 DEF ReleaseStop, Goto
  <2>2. wg = 0 /\ (session[d] = "release" => d = c)
    BY <2>1 DEF Releasing
  <2>3. session[d] \notin {"read", "flush", "write", "close"}
    BY <2>2, NoneCounted
  <2> QED
    BY <2>1, <2>2, <2>3
<1>11. ASSUME NEW c \in Clients,
             \/ AnswerBadJSON(c) \/ ProcessQuery(c) \/ ProcessChange(c)
             \/ FlushStatement(c) \/ ReadFails(c) \/ WriteResponse(c)
             \/ EndSession(c)
      PROVE  d = accepted' /\ main' = "loop"
  <2>1. UNCHANGED <<main, accepted>>
    BY <1>11, SessionKeeps
  <2>2. UNCHANGED stop
    BY <1>11 DEF AnswerBadJSON, ProcessQuery, ProcessChange, TakeLine, FlushStatement,
                 ReadFails, WriteResponse, EndSession
  <2>3. Live(d)
    BY <1>11, SessionMoves
  <2> QED
    BY <1>1, <2>1, <2>2, <2>3
<1>12. CASE FlushTick \/ CheckPointTick \/ UNCHANGED vars
  BY <1>2, <1>12 DEF FlushTick, CheckPointTick, vars
<1> QED
  BY <1>2, <1>3, <1>4, <1>5, <1>6, <1>7, <1>8, <1>9, <1>10, <1>11, <1>12, Steps,
     ClientKeeps

(* After the last flush only that session acknowledges a change. *)
LEMMA StoppedSafeStep == IndInv /\ [Next]_vars => StoppedSafe'
<1> SUFFICES ASSUME IndInv, [Next]_vars, stop' = "stopped", NEW d \in Clients,
                    NEW i \in DOMAIN answers'[d], answers'[d][i].acks,
                    <<d, i>> \notin disk'
             PROVE  d = accepted'
  BY DEF StoppedSafe
<1> USE DEF IndInv, Types, TrafficType
<1>1. CASE FinalFlush
  <2>1. disk' = disk \cup dirty /\ UNCHANGED answers
    BY <1>1 DEF FinalFlush, FlushSucceeds
  <2>2. Safe(d, i)
    BY <2>1 DEF AckedSafe
  <2> QED
    BY <2>1, <2>2 DEF Safe
<1>2. CASE ~FinalFlush
  <2>1. stop = "stopped"
    <3>1. ASSUME NEW c \in Clients,
                 \/ AnswerBadJSON(c) \/ ProcessQuery(c) \/ ProcessChange(c)
                 \/ FlushStatement(c) \/ ReadFails(c) \/ WriteResponse(c)
                 \/ EndSession(c)
          PROVE  UNCHANGED stop
      BY <3>1 DEF AnswerBadJSON, ProcessQuery, ProcessChange, TakeLine, FlushStatement,
                  ReadFails, WriteResponse, EndSession
    <3>2. ASSUME NEW c \in Clients PROVE ~ReleaseStop(c)
      BY DEF ReleaseStop
    <3>3. ~StopCAS
      <4>1. StopCAS => stop' = "cancel" \/ stop' = "ignored"
        BY Zenon DEF StopCAS
      <4> QED
        BY <4>1
    <3>4. ~CancelWriters /\ ~CloseListener /\ ~WaitGroup
      BY DEF CancelWriters, CloseListener, WaitGroup
    <3>5. \/ StartCAS \/ Listen \/ ListenFails \/ StartWriters \/ LoopCheck
          \/ Accept \/ AcceptFails \/ AddSession \/ FlushTick \/ CheckPointTick
          \/ UNCHANGED vars
          => UNCHANGED stop
      BY DEF StartCAS, Listen, ListenFails, StartWriters, LoopCheck, Accept,
             AcceptFails, AddSession, FlushTick, CheckPointTick, vars
    <3> QED
      BY <1>2, <3>1, <3>2, <3>3, <3>4, <3>5, Steps, ClientKeeps
  <2>2. UNCHANGED accepted
    <3>1. \/ Listen \/ ListenFails \/ StartWriters \/ LoopCheck \/ AcceptFails
          \/ AddSession \/ CancelWriters \/ CloseListener \/ WaitGroup \/ FlushTick
          \/ CheckPointTick \/ UNCHANGED vars
          => UNCHANGED accepted
      BY DEF Listen, ListenFails, StartWriters, LoopCheck, AcceptFails, AddSession,
             CancelWriters, CloseListener, WaitGroup, FlushTick, CheckPointTick, vars
    <3> QED
      BY <1>2, <2>1, <3>1, NothingAccepted, Steps, SessionKeeps, ClientKeeps
  <2>3. <<d, i>> \notin disk
    BY PoolGrows
  <2>4. CASE i \in DOMAIN answers[d] /\ answers'[d][i] = answers[d][i]
    BY <2>1, <2>2, <2>3, <2>4 DEF StoppedSafe
  <2>5. CASE WriteResponse(d)
    BY <2>1, <2>2, <2>5 DEF WriteResponse, Late, Live
  <2>6. ASSUME NEW c \in Clients, WriteResponse(c), c # d
        PROVE  UNCHANGED answers[d]
    BY <2>6 DEF WriteResponse
  <2>7. ASSUME NEW c \in Clients, NEW kind \in Kinds, Send(c, kind)
        PROVE  UNCHANGED answers[d]
    BY <2>7 DEF Send, ClientFrame
  <2> QED
    BY <2>4, <2>5, <2>6, <2>7, TrafficMoves
<1> QED
  BY <1>1, <1>2

-----------------------------------------------------------------------------
(* The theorems. *)

(* The invariant is inductive. *)
LEMMA IndInvStep == IndInv /\ [Next]_vars => IndInv'
BY TypesStep, ArrivalsStep, ProgressStep, AnswersStep, AckedSafeStep, WaitGroupStep,
   ReleasingStep, StoppingStep, LateStep, StoppedSafeStep DEF IndInv

LEMMA Invariance == Spec => []IndInv
BY InitIndInv, IndInvStep, PTL DEF Spec

(* The state of the server keeps its types. *)
THEOREM TypeCorrect == Spec => []TypeOK
<1>1. IndInv => TypeOK
  BY DEF IndInv, Types, FlagsType, ControlType, BacklogType, SessionsType, TrafficType,
         PoolType, TypeOK
<1> QED
  BY <1>1, Invariance, PTL

(* Every response on a connection answers the request line in its place. *)
THEOREM ResponsesMatch == Spec => []AnswersMatch
<1>1. IndInv => AnswersMatch
  BY DEF IndInv
<1> QED
  BY <1>1, Invariance, PTL

(* A change that was acknowledged is in the files, or in the pool of a process
   whose flush failed. *)
THEOREM AckedStaysSafe == Spec => []AckedIsSafe
<1>1. IndInv => AckedIsSafe
  <2> SUFFICES ASSUME IndInv, NEW s \in Acked
               PROVE  s \in disk \cup dirty /\ (faults = 0 => s \in disk)
    BY DEF AckedIsSafe
  <2>1. PICK c \in Clients, i \in Nat : s = <<c, i>>
    BY BoundsAssumption DEF Acked, Changes
  <2>2. i \in DOMAIN answers[c] /\ answers[c][i].acks
    BY <2>1 DEF Acked
  <2> QED
    BY <2>1, <2>2 DEF IndInv, AckedSafe, Safe
<1> QED
  BY <1>1, Invariance, PTL

(* The last flush of Stop misses at most one session. *)
THEOREM OneLateSession == Spec => []AtMostOneLateSession
<1>1. IndInv => AtMostOneLateSession
  <2> SUFFICES ASSUME IndInv, stop \in {"final_flush", "stopped", "flush_failed"}
               PROVE  Cardinality({c \in Clients : Live(c)}) <= 1
    BY DEF AtMostOneLateSession
  <2>1. {c \in Clients : Live(c)} \in SUBSET {accepted}
    BY DEF IndInv, Late
  <2>2. IsFiniteSet({accepted}) /\ Cardinality({accepted}) = 1
    BY FS_Singleton
  <2>3. Cardinality({c \in Clients : Live(c)}) <= Cardinality({accepted})
    BY <2>1, <2>2, FS_Subset
  <2> QED
    BY <2>2, <2>3
<1> QED
  BY <1>1, Invariance, PTL

(* After the last flush every acknowledged change is in the files, but for those
   of that session. *)
THEOREM StopIsDurable == Spec => []StoppedIsDurable
<1>1. IndInv => StoppedIsDurable
  <2> SUFFICES ASSUME IndInv, stop = "stopped", NEW s \in Acked \ disk
               PROVE  s[1] = accepted
    BY DEF StoppedIsDurable
  <2>1. PICK c \in Clients, i \in Nat : s = <<c, i>>
    BY BoundsAssumption DEF Acked, Changes
  <2>2. i \in DOMAIN answers[c] /\ answers[c][i].acks
    BY <2>1 DEF Acked
  <2> QED
    BY <2>1, <2>2 DEF IndInv, StoppedSafe
<1> QED
  BY <1>1, Invariance, PTL
=============================================================================
