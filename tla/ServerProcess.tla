----------------------------- MODULE ServerProcess -----------------------------
(***************************************************************************)
(* The process of the server: main and signalHandler of                    *)
(* server/ServerMain.cpp, start(), the loops of runTCP and runUDP and      *)
(* stop() of server/Server.cpp, with the two mutexes they lock: logMutex   *)
(* of utils/Logger.cpp and clientsMutex.                                   *)
(*                                                                         *)
(* Every thread has a stack of places, one for each function that it is    *)
(* in; the last one is where it runs.  A signal pushes the handler on the  *)
(* stack of the main thread wherever that is.  While the main thread       *)
(* handles a signal, the kernel gives another one of the same number to    *)
(* a worker, and one of the other number to the main thread again.         *)
(*                                                                         *)
(* What is exchanged with the clients is the matter of TCPService and      *)
(* UDPExchange; here a client is connected or gone.                        *)
(***************************************************************************)
EXTENDS ClientStart, SequencesExt, FiniteSets

CONSTANTS
    Workers,     \* the threads that handleTCPClient may run in
    Arguments,   \* of main: records of count, port, protocol
    Signals,     \* SIGINT and SIGTERM
    MaxSignals   \* bound: how many arrive

VARIABLES
    args,            \* the arguments of main
    stack,           \* the places of every thread; << >> when it does not run
    ended,           \* "no", "exited" or "aborted"
    isRunning,
    socket,          \* of the server: "none", "open" or "closed"
    accepted,        \* {the worker for the connection accepted last}, or {}
    client,          \* "new", "connected" or "gone"
    clientThreads,   \* the vector of that name
    logMutex,        \* the thread that holds it, or Nobody
    clientsMutex,    \* likewise
    handling,        \* the signals each thread is handling; they are blocked
    arrived          \* the number of signals so far

vars == <<args, stack, ended, isRunning, socket, accepted, client, clientThreads,
          logMutex, clientsMutex, handling, arrived>>

Main    == "main"
Nobody  == "nobody"
Threads == Workers \cup {Main}

ASSUME ServerProcessAssumption ==
    /\ Main \notin Workers /\ Nobody \notin Threads
    /\ MaxSignals \in Nat

StartPlaces   == {"arguments", "socket", "bind", "unbound", "failed", "started", "return",
                  "end"}
TCPPlaces     == {"accept", "spawn", "register"}
UDPPlaces     == {"wait", "receive", "activity", "updating", "timeouts", "expiring"}
WorkerPlaces  == {"loop", "recv", "close", "finish"}
HandlerPlaces == {"handler", "handlerStop", "handlerExit"}
StopPlaces    == {"stop", "stopFlag", "stopClose", "join", "clear", "clearing"}
LogPlaces     == {"log", "write"}

Init ==
    /\ args \in Arguments
    /\ stack = [t \in Threads |-> IF t = Main THEN <<"arguments">> ELSE << >>]
    /\ ended = "no"
    /\ isRunning = FALSE
    /\ socket = "none"
    /\ accepted = {}
    /\ client = [c \in Workers |-> "new"]
    /\ clientThreads = << >>
    /\ logMutex = Nobody /\ clientsMutex = Nobody
    /\ handling = [t \in Threads |-> {}]
    /\ arrived = 0
-----------------------------------------------------------------------------
At(t, place) == ended = "no" /\ stack[t] # << >> /\ Last(stack[t]) = place

(* The thread goes on at a place, or calls a function and will go on there *)
(* when that returns.                                                      *)
Goto(t, place)       == stack' = [stack EXCEPT ![t] = Append(Front(@), place)]
Call(t, place, next) == stack' = [stack EXCEPT ![t] = Front(@) \o <<next, place>>]
Return(t)            == stack' = [stack EXCEPT ![t] = Front(@)]

Ends(how) == ended' = how /\ UNCHANGED stack

state == <<isRunning, socket, accepted, client, clientThreads>>
rest  == <<args, handling, arrived>>
-----------------------------------------------------------------------------
(* Logger::log. *)
LockLog(t) ==
    /\ At(t, "log")
    /\ logMutex = Nobody
    /\ logMutex' = t
    /\ Goto(t, "write")
    /\ UNCHANGED <<ended, clientsMutex, state, rest>>

(* Wrong variant: no lock_guard, and no unlock. *)
UnlockLogNever(t) ==
    /\ At(t, "write")
    /\ Return(t)
    /\ UNCHANGED <<ended, logMutex, clientsMutex, state, rest>>

UnlockLog(t) ==
    /\ At(t, "write")
    /\ logMutex' = Nobody
    /\ Return(t)
    /\ UNCHANGED <<ended, clientsMutex, state, rest>>
-----------------------------------------------------------------------------
(* main and Server::start. *)
ServerAccepts(a) ==
    /\ a.count = 3
    /\ a.port # NotANumber /\ IsValidPort(a.port)
    /\ a.protocol \in {"tcp", "udp"}

CheckArguments ==
    /\ At(Main, "arguments")
    /\ IF ServerAccepts(args) THEN Goto(Main, "socket") ELSE Call(Main, "log", "end")
    /\ UNCHANGED <<ended, logMutex, clientsMutex, state, rest>>

(* createSocket: socket, setsockopt, bind and listen may fail, and each is *)
(* logged; setsockopt with a warning only.                                 *)
CreateSocket ==
    /\ At(Main, "socket")
    /\ \/ socket' = "open" /\ (Goto(Main, "bind") \/ Call(Main, "log", "bind"))
       \/ socket' = "none" /\ Call(Main, "log", "failed")
    /\ UNCHANGED <<ended, isRunning, accepted, client, clientThreads, logMutex, clientsMutex,
                   rest>>

(* The error is logged before the socket is closed. *)
BindSocket ==
    /\ \/ At(Main, "bind") /\ (Goto(Main, "started") \/ Call(Main, "log", "unbound"))
          /\ UNCHANGED socket
       \/ At(Main, "unbound") /\ Goto(Main, "failed") /\ socket' = "closed"
    /\ UNCHANGED <<ended, isRunning, accepted, client, clientThreads, logMutex, clientsMutex,
                   rest>>

StartFailed ==
    /\ At(Main, "failed")
    /\ Call(Main, "log", "return")
    /\ UNCHANGED <<ended, logMutex, clientsMutex, state, rest>>

(* run(). *)
Run == IF args.protocol = "tcp" THEN "accept" ELSE "wait"

Started ==
    /\ At(Main, "started")
    /\ isRunning' = TRUE
    /\ Call(Main, "log", Run)
    /\ UNCHANGED <<ended, socket, accepted, client, clientThreads, logMutex, clientsMutex,
                   rest>>

(* return, with the destructor of the server. *)
ReturnFromMain ==
    /\ \/ At(Main, "return") /\ Call(Main, "stop", "end") /\ UNCHANGED ended
       \/ At(Main, "end") /\ Ends("exited")
    /\ UNCHANGED <<logMutex, clientsMutex, state, rest>>
-----------------------------------------------------------------------------
(* runTCP and its workers. *)
Accept ==
    /\ At(Main, "accept")
    /\ \/ \E c \in Workers :
              /\ client[c] = "new"
              /\ client' = [client EXCEPT ![c] = "connected"]
              /\ accepted' = {c}
              /\ Call(Main, "log", "spawn")
       \/ Call(Main, "log", "accept") /\ UNCHANGED <<client, accepted>>
    /\ UNCHANGED <<ended, isRunning, socket, clientThreads, logMutex, clientsMutex, rest>>

(* The thread starts; or it cannot, and main catches the exception. *)
Spawn ==
    /\ At(Main, "spawn")
    /\ \/ stack' = [t \in Threads |-> IF t = Main THEN <<"register">>
                                      ELSE IF t \in accepted THEN <<"loop">> ELSE stack[t]]
       \/ Call(Main, "log", "return")
    /\ UNCHANGED <<ended, logMutex, clientsMutex, state, rest>>

Register ==
    /\ At(Main, "register")
    /\ clientThreads' = clientThreads \o SetToSeq(accepted)
    /\ accepted' = {}
    /\ Goto(Main, "accept")
    /\ UNCHANGED <<ended, isRunning, socket, client, logMutex, clientsMutex, rest>>

(* handleTCPClient: a request, with what it logs, and the end. *)
WorkerLoop(c) ==
    /\ At(c, "loop")
    /\ Goto(c, IF isRunning THEN "recv" ELSE "close")
    /\ UNCHANGED <<ended, logMutex, clientsMutex, state, rest>>

WorkerAnswers(c) ==
    /\ At(c, "recv") /\ client[c] = "connected"
    /\ Call(c, "log", "loop")
    /\ UNCHANGED <<ended, logMutex, clientsMutex, state, rest>>

(* The break: a message that is too large, or after the log one without    *)
(* edges or an answer that is not sent.                                    *)
WorkerBreaks(c) ==
    /\ At(c, "recv") /\ client[c] = "connected"
    /\ Goto(c, "close") \/ Call(c, "log", "close")
    /\ UNCHANGED <<ended, logMutex, clientsMutex, state, rest>>

WorkerEnds(c) ==
    /\ \/ At(c, "recv") /\ client[c] = "gone" /\ Goto(c, "close") /\ UNCHANGED client
       \/ At(c, "close") /\ Call(c, "log", "finish") /\ client' = [client EXCEPT ![c] = "gone"]
       \/ At(c, "finish") /\ Return(c) /\ UNCHANGED client
    /\ UNCHANGED <<ended, isRunning, socket, accepted, clientThreads, logMutex, clientsMutex,
                   rest>>

Leave(c) ==
    /\ ended = "no"
    /\ client[c] = "connected"
    /\ client' = [client EXCEPT ![c] = "gone"]
    /\ UNCHANGED <<ended, stack, isRunning, socket, accepted, clientThreads, logMutex,
                   clientsMutex, rest>>
-----------------------------------------------------------------------------
(* runUDP. *)
Wait ==
    /\ At(Main, "wait")
    /\ Call(Main, "log", "receive")
    /\ UNCHANGED <<ended, logMutex, clientsMutex, state, rest>>

Receive ==
    /\ At(Main, "receive")
    /\ Goto(Main, "activity")
    /\ UNCHANGED <<ended, logMutex, clientsMutex, state, rest>>

LockClients(place, next) ==
    /\ At(Main, place)
    /\ clientsMutex = Nobody
    /\ clientsMutex' = Main
    /\ Goto(Main, next)
    /\ UNCHANGED <<ended, logMutex, state, rest>>

UpdateClientActivity == LockClients("activity", "updating")

(* Wrong variant: the mutex stays locked while the packet is handled. *)
HandlePacketLocked ==
    /\ At(Main, "updating")
    /\ Call(Main, "log", "timeouts") \/ Goto(Main, "timeouts")
    /\ UNCHANGED <<ended, logMutex, clientsMutex, state, rest>>

(* A data packet is logged and handled, an acknowledgement is not. *)
HandlePacket ==
    /\ At(Main, "updating")
    /\ clientsMutex' = Nobody
    /\ Call(Main, "log", "timeouts") \/ Goto(Main, "timeouts")
    /\ UNCHANGED <<ended, logMutex, state, rest>>

CheckClientTimeouts ==
    \/ LockClients("timeouts", "expiring")
    \/ /\ At(Main, "expiring")
       /\ \/ Call(Main, "log", "expiring") /\ UNCHANGED clientsMutex   \* a lost client
          \/ Goto(Main, "receive") /\ clientsMutex' = Nobody
       /\ UNCHANGED <<ended, logMutex, state, rest>>
-----------------------------------------------------------------------------
(* Signals.  The handlers are set once the arguments are checked. *)
Takes(t, s) ==
    /\ stack[t] # << >>
    /\ s \notin handling[t]
    /\ t # Main => s \in handling[Main]

Signal(t, s) ==
    /\ ended = "no" /\ arrived < MaxSignals
    /\ ServerAccepts(args) /\ ~ At(Main, "arguments")
    /\ Takes(t, s)
    /\ stack' = [stack EXCEPT ![t] = Append(@, "handler")]
    /\ handling' = [handling EXCEPT ![t] = @ \cup {s}]
    /\ arrived' = arrived + 1
    /\ UNCHANGED <<args, ended, logMutex, clientsMutex, state>>

(* signalHandler: log, stop(), exit(0). *)
Handler(t) ==
    /\ \/ At(t, "handler") /\ Call(t, "log", "handlerStop") /\ UNCHANGED ended
       \/ At(t, "handlerStop") /\ Call(t, "stop", "handlerExit") /\ UNCHANGED ended
       \/ At(t, "handlerExit") /\ Ends("exited")
    /\ UNCHANGED <<logMutex, clientsMutex, state, rest>>
-----------------------------------------------------------------------------
(* Server::stop. *)
(* Wrong variant: no matter whether it runs. *)
StopUnchecked(t) ==
    /\ At(t, "stop")
    /\ Call(t, "log", "stopFlag")
    /\ UNCHANGED <<ended, logMutex, clientsMutex, state, rest>>

Stop(t) ==
    /\ At(t, "stop")
    /\ IF isRunning THEN Call(t, "log", "stopFlag") ELSE Return(t)
    /\ UNCHANGED <<ended, logMutex, clientsMutex, state, rest>>

StopFlag(t) ==
    /\ At(t, "stopFlag")
    /\ isRunning' = FALSE
    /\ Goto(t, "stopClose")
    /\ UNCHANGED <<ended, socket, accepted, client, clientThreads, logMutex, clientsMutex,
                   rest>>

StopClose(t) ==
    /\ At(t, "stopClose")
    /\ socket' = "closed"
    /\ Goto(t, "join")
    /\ UNCHANGED <<ended, isRunning, accepted, client, clientThreads, logMutex, clientsMutex,
                   rest>>

Done(c) == stack[c] = << >>

Joins == UNION {{<<t, i>> : i \in {k \in DOMAIN stack[t] : stack[t][k] = "join"}} : t \in Threads}

(* join throws when a thread joins itself, or one that is being joined     *)
(* already: nobody catches it.                                             *)
JoinThrows(t) ==
    \E i \in DOMAIN clientThreads :
        /\ \A k \in 1 .. i - 1 : Done(clientThreads[k])
        /\ ~ Done(clientThreads[i])
        /\ clientThreads[i] = t \/ Cardinality(Joins) > 1

(* Wrong variant: the threads are detached. *)
JoinDetached(t) ==
    /\ At(t, "join")
    /\ Goto(t, "clear") /\ clientThreads' = << >> /\ UNCHANGED ended
    /\ UNCHANGED <<isRunning, socket, accepted, client, logMutex, clientsMutex, rest>>

Join(t) ==
    /\ At(t, "join")
    /\ \/ /\ \A i \in DOMAIN clientThreads : Done(clientThreads[i])
          /\ clientThreads' = << >>
          /\ Goto(t, "clear") /\ UNCHANGED ended
       \/ JoinThrows(t) /\ Ends("aborted") /\ UNCHANGED clientThreads
    /\ UNCHANGED <<isRunning, socket, accepted, client, logMutex, clientsMutex, rest>>

ClearClients(t) ==
    /\ \/ /\ At(t, "clear") /\ clientsMutex = Nobody
          /\ clientsMutex' = t
          /\ Goto(t, "clearing")
       \/ /\ At(t, "clearing")
          /\ clientsMutex' = Nobody
          /\ Return(t)
    /\ UNCHANGED <<ended, logMutex, state, rest>>
-----------------------------------------------------------------------------
(* What a thread does once it is its turn, and what it waits for others to *)
(* send.                                                                   *)
StepOf(t) ==
    \/ LockLog(t) \/ UnlockLog(t)
    \/ Handler(t)
    \/ Stop(t) \/ StopFlag(t) \/ StopClose(t) \/ Join(t) \/ ClearClients(t)

MainStep ==
    \/ CheckArguments \/ CreateSocket \/ BindSocket \/ StartFailed \/ Started \/ ReturnFromMain
    \/ Spawn \/ Register
    \/ Wait \/ UpdateClientActivity \/ HandlePacket \/ CheckClientTimeouts

WorkerStep(c) == WorkerLoop(c) \/ WorkerEnds(c)

Input ==
    \/ Accept \/ Receive
    \/ \E c \in Workers : WorkerAnswers(c) \/ WorkerBreaks(c) \/ Leave(c)
    \/ \E t \in Threads, s \in Signals : Signal(t, s)

Next ==
    \/ MainStep
    \/ \E c \in Workers : WorkerStep(c)
    \/ \E t \in Threads : StepOf(t)
    \/ Input

Spec == Init /\ [][Next]_vars

(* Every thread runs; nobody need connect, ask, leave or send a signal. *)
Fairness ==
    /\ WF_vars(MainStep \/ StepOf(Main))
    /\ \A c \in Workers : WF_vars(WorkerStep(c) \/ StepOf(c))

LiveSpec == Spec /\ Fairness
-----------------------------------------------------------------------------
Places == StartPlaces \cup TCPPlaces \cup UDPPlaces \cup WorkerPlaces
              \cup HandlerPlaces \cup StopPlaces \cup LogPlaces

(* A thread is in one of these places, or will return to one. *)
Has(t, places) == \E i \in DOMAIN stack[t] : stack[t][i] \in places

(* A mutex is held by the thread that is between its lock and its unlock. *)
MutexesOK ==
    \A t \in Threads :
        /\ logMutex = t <=> Has(t, {"write"})
        /\ clientsMutex = t <=> Has(t, {"updating", "expiring", "clearing"})

TypeOK ==
    /\ args \in Arguments
    /\ stack \in [Threads -> Seq(Places)]
    /\ ended \in {"no", "exited", "aborted"}
    /\ isRunning \in BOOLEAN
    /\ socket \in {"none", "open", "closed"}
    /\ accepted \subseteq Workers /\ Cardinality(accepted) <= 1
    /\ client \in [Workers -> {"new", "connected", "gone"}]
    /\ clientThreads \in Seq(Workers) /\ IsInjective(clientThreads)
    /\ logMutex \in Threads \cup {Nobody} /\ clientsMutex \in Threads \cup {Nobody}
    /\ MutexesOK
    /\ handling \in [Threads -> SUBSET Signals]
    /\ arrived \in 0 .. MaxSignals

(* A handler runs on top of one of these places. *)
InterruptedIn(t, places) ==
    \E i, j \in DOMAIN stack[t] :
        i < j /\ stack[t][i] \in places /\ stack[t][j] \in HandlerPlaces

Interrupted(places) == \E t \in Threads : InterruptedIn(t, places)

HandledByWorker == \E c \in Workers : Has(c, HandlerPlaces)

(***************************************************************************)
(* exit and return leave no worker running, unless a signal struck again   *)
(* while a handler or the destructor was stopping the server, or a worker  *)
(* handled one.  A signal that strikes between the start of a thread and   *)
(* its place in clientThreads costs this one thread and no other.          *)
(***************************************************************************)
GracefulExit ==
    ended = "exited" =>
        \A c \in Workers :
            \/ Done(c)
            \/ Interrupted({"register"}) /\ c \in accepted
            \/ Interrupted(StopPlaces \cup HandlerPlaces) \/ HandledByWorker

(***************************************************************************)
(* Only a signal that a worker handles, on top of which the main thread    *)
(* handles the same, can make stop() run twice at once and abort the       *)
(* process: one Ctrl+C does not, and neither does Ctrl+C with a SIGTERM.   *)
(***************************************************************************)
AbortNeedsSameSignalTwice ==
    ended = "aborted" =>
        \E c \in Workers, s \in Signals : s \in handling[c] /\ s \in handling[Main]

(* The thread locks a mutex that it holds: it waits for ever. *)
WaitsForItself(t) ==
    \/ At(t, "log") /\ logMutex = t
    \/ clientsMutex = t /\ \E place \in {"activity", "timeouts", "clear"} : At(t, place)

(* A signal struck it where it held one. *)
StruckInLock(t) == InterruptedIn(t, {"write", "updating", "expiring"})

(***************************************************************************)
(* No thread locks a mutex that it holds, unless a signal struck it in     *)
(* Logger::log, or in updateClientActivity or checkClientTimeouts: not     *)
(* when it was struck anywhere else, in stop() with clientsMutex included. *)
(***************************************************************************)
DeadlockNeedsSignal ==
    \A t \in Threads : WaitsForItself(t) => StruckInLock(t)

(* A client stays connected and, once the server is to stop, silent: its   *)
(* worker waits in recv, and stop() in join for the worker.                *)
HoldsUpStop(c) == client[c] = "connected" /\ (isRunning \/ At(c, "recv"))

(***************************************************************************)
(* "When the user presses Ctrl+C this function stops the server"           *)
(* (ServerMain.cpp): once a signal arrived the process ends, unless one    *)
(* struck a thread that held a mutex, and that thread waits for ever for   *)
(* the mutex itself, or a client is for ever connected and silent.         *)
(* Nothing else holds up the end.                                          *)
(***************************************************************************)
StopEnds ==
    <>(arrived > 0) =>
        \/ <>(ended # "no")
        \/ \E t \in Threads : <>[](WaitsForItself(t) /\ StruckInLock(t))
        \/ \E c \in Workers : <>[]HoldsUpStop(c)
=============================================================================
