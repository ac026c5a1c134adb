------------------------------- MODULE TCPServer -------------------------------
(***************************************************************************)
(* server/Server.cpp over TCP: the main thread accepts connections and     *)
(* starts a worker thread for each (runTCP, handleTCPClient); SIGINT and   *)
(* SIGTERM run signalHandler of server/ServerMain.cpp on top of the main   *)
(* thread, wherever it is, and that handler runs stop() and exit(0).       *)
(*                                                                         *)
(* The mutex of utils/Logger.cpp is modelled where it can block: the main  *)
(* thread that is interrupted while it writes a log line keeps the mutex,  *)
(* and the handler's first action is to log.                               *)
(***************************************************************************)
EXTENDS TCPLink

CONSTANT
    SignalPoints   \* where in its loop the main thread may be interrupted

MainLoop == {"accept", "logging", "spawn", "register"}

ASSUME TCPServerAssumption == SignalPoints \subseteq MainLoop

VARIABLES
    mpc,              \* where the main thread is, see MainStates
    isRunning,
    accepted,         \* {the connection runTCP has just accepted}, or {} if none
    clientThreads,    \* the workers stored in the vector of that name
    wpc,              \* where the worker of c is, see WorkerStates
    inHand,           \* the vertices and the edges the worker of c received last
    heard,            \* history: the pairs of both that were received, ...
    served,           \* ... and those that were answered
    servedAfterStop   \* history: requests of c answered since isRunning is false

exchanged  == <<inHand, heard, served>>
serverVars == <<mpc, isRunning, accepted, clientThreads, wpc, exchanged, servedAfterStop>>

MainStates == MainLoop \cup
    { "deadlock",   \* the handler waits for the mutex its own thread holds
      "stop",       \* the handler, before stop() takes effect
      "join",       \* the handler, joining the workers
      "exited",     \* exit(0)
      "killed" }    \* ended by SIGPIPE

WorkerStates ==
    { "none", "loop", "recvRequest", "recvEdges", "process",
      "sendHeader", "sendBody", "close", "log", "done",
      "cut" }       \* the process ended under the running worker

Working == WorkerStates \ {"none", "done", "cut"}

ServerTypeOK ==
    /\ mpc \in MainStates
    /\ isRunning \in BOOLEAN
    /\ accepted \subseteq Clients
    /\ mpc = "accept" => accepted = {}
    /\ clientThreads \subseteq Clients
    /\ wpc \in [Clients -> WorkerStates]
    /\ inHand \in [Clients -> Nat \X Nat]
    /\ heard \in [Clients -> SUBSET (Nat \X Nat)]
    /\ served \in [Clients -> SUBSET (Nat \X Nat)]
    /\ servedAfterStop \in [Clients -> Nat]

ServerInit ==
    /\ mpc = "accept"
    /\ isRunning = TRUE
    /\ accepted = {}
    /\ clientThreads = {}
    /\ wpc = [c \in Clients |-> "none"]
    /\ inHand = [c \in Clients |-> <<0, 0>>]
    /\ heard = [c \in Clients |-> {}]
    /\ served = [c \in Clients |-> {}]
    /\ servedAfterStop = [c \in Clients |-> 0]

Alive == mpc \notin {"exited", "killed"}
Listening == Alive /\ isRunning
LogMutexFree == mpc \notin {"logging", "deadlock"}

(* Every end the process holds is closed and its threads are gone.         *)
ProcessEnds(how) ==
    /\ mpc' = how
    /\ conn' = [c \in Clients |-> IF conn[c] = "none" THEN "none" ELSE "closed"]
    /\ wpc' = [c \in Clients |-> IF wpc[c] \in Working THEN "cut" ELSE wpc[c]]
-----------------------------------------------------------------------------
(* The main thread. *)

(* accept may fail: with an error of the connection that was waiting,      *)
(* which is lost.  isRunning is true here, so that the failure is logged.  *)
Accept(c) ==
    /\ mpc = "accept"
    /\ conn[c] = "backlog"
    /\ \/ conn' = [conn EXCEPT ![c] = "accepted"] /\ accepted' = {c}
       \/ conn' = [conn EXCEPT ![c] = "closed"] /\ UNCHANGED accepted
    /\ mpc' = "logging"
    /\ UNCHANGED <<isRunning, clientThreads, wpc, exchanged, servedAfterStop, up, toServer,
                   toClient>>

(* The connection is logged, or the failure. *)
LogConnected ==
    /\ mpc = "logging"
    /\ mpc' = IF accepted = {} THEN "accept" ELSE "spawn"
    /\ UNCHANGED <<isRunning, accepted, clientThreads, wpc, exchanged, servedAfterStop, linkVars>>

(* emplace_back constructs the thread, which starts it, ... *)
SpawnWorker ==
    /\ mpc = "spawn"
    /\ wpc' = [c \in Clients |-> IF c \in accepted THEN "loop" ELSE wpc[c]]
    /\ mpc' = "register"
    /\ UNCHANGED <<isRunning, accepted, clientThreads, exchanged, servedAfterStop, linkVars>>

(* Wrong variant: the socket is remembered for the next round. *)
RegisterWorkerKeepingSocket ==
    /\ mpc = "register"
    /\ clientThreads' = clientThreads \cup accepted
    /\ mpc' = "accept"
    /\ UNCHANGED <<isRunning, accepted, wpc, exchanged, servedAfterStop, linkVars>>

(* ... and then counts it as an element of the vector. *)
RegisterWorker ==
    /\ mpc = "register"
    /\ clientThreads' = clientThreads \cup accepted
    /\ accepted' = {}
    /\ mpc' = "accept"
    /\ UNCHANGED <<isRunning, wpc, exchanged, servedAfterStop, linkVars>>

(* The handler logs, so it never gets further on a thread that is logging. *)
Signal ==
    /\ mpc \in SignalPoints
    /\ mpc' = IF mpc = "logging" THEN "deadlock" ELSE "stop"
    /\ UNCHANGED <<isRunning, accepted, clientThreads, wpc, exchanged, servedAfterStop, linkVars>>

(* stop() up to the first join: connections not yet accepted are reset.    *)
Stop ==
    /\ mpc = "stop"
    /\ isRunning' = FALSE
    /\ conn' = [c \in Clients |-> IF conn[c] = "backlog" THEN "closed" ELSE conn[c]]
    /\ mpc' = "join"
    /\ UNCHANGED <<accepted, clientThreads, wpc, exchanged, servedAfterStop, up, toServer,
                   toClient>>

(* Wrong variant: the threads are detached, not joined. *)
JoinedDetached ==
    /\ mpc = "join"
    /\ clientThreads' = {}
    /\ ProcessEnds("exited")
    /\ UNCHANGED <<isRunning, accepted, exchanged, servedAfterStop, up, toServer, toClient>>

(* The rest of stop() and exit(0). *)
Joined ==
    /\ mpc = "join"
    /\ \A c \in clientThreads : wpc[c] = "done"
    /\ clientThreads' = {}
    /\ ProcessEnds("exited")
    /\ UNCHANGED <<isRunning, accepted, exchanged, servedAfterStop, up, toServer, toClient>>
-----------------------------------------------------------------------------
(* The worker of c: handleTCPClient. *)

(* Wrong variant: while (true). *)
WorkerLoopForever(c) ==
    /\ wpc[c] = "loop"
    /\ wpc' = [wpc EXCEPT ![c] = "recvRequest"]
    /\ UNCHANGED <<mpc, isRunning, accepted, clientThreads, exchanged, servedAfterStop, linkVars>>

WorkerLoop(c) ==
    /\ wpc[c] = "loop"
    /\ wpc' = [wpc EXCEPT ![c] = IF isRunning THEN "recvRequest" ELSE "close"]
    /\ UNCHANGED <<mpc, isRunning, accepted, clientThreads, exchanged, servedAfterStop, linkVars>>

(* Wrong variant: an orderly close by the peer (recv returns 0) goes unseen. *)
ReceiveTCPIgnoringClose(c, taken, next) ==
    /\ toServer[c] # << >>
    /\ toServer' = [toServer EXCEPT ![c] = Tail(@)]
    /\ inHand' = [inHand EXCEPT ![c] = taken]
    /\ wpc' = [wpc EXCEPT ![c] = next]

(* receiveTCP: a message, or false when the client's end was closed.       *)
ReceiveTCP(c, taken, next) ==
    \/ /\ toServer[c] # << >>
       /\ toServer' = [toServer EXCEPT ![c] = Tail(@)]
       /\ inHand' = [inHand EXCEPT ![c] = taken]
       /\ wpc' = [wpc EXCEPT ![c] = next]
    \/ /\ toServer[c] = << >>
       /\ ~ up[c]
       /\ wpc' = [wpc EXCEPT ![c] = "close"]
       /\ UNCHANGED <<toServer, inHand>>

WorkerReceive(c) ==
    /\ \/ /\ wpc[c] = "recvRequest"
          /\ ReceiveTCP(c, <<Head(toServer[c]).n, 0>>, "recvEdges")
          /\ UNCHANGED heard
       \/ /\ wpc[c] = "recvEdges"
          /\ ReceiveTCP(c, <<inHand[c][1], Head(toServer[c]).n>>, "process")
          /\ heard' = IF wpc'[c] = "process" THEN [heard EXCEPT ![c] = @ \cup {inHand'[c]}]
                                             ELSE heard
    /\ UNCHANGED <<mpc, isRunning, accepted, clientThreads, served, servedAfterStop>>
    /\ UNCHANGED <<conn, up, toClient>>

(* processRequest ends with a line in the log, whatever it finds.          *)
WorkerProcess(c) ==
    /\ wpc[c] = "process"
    /\ LogMutexFree
    /\ wpc' = [wpc EXCEPT ![c] = "sendHeader"]
    /\ UNCHANGED <<mpc, isRunning, accepted, clientThreads, exchanged, servedAfterStop, linkVars>>

PieceOf(c, part) == [part |-> part, of |-> inHand[c]]

(* Wrong variant: each piece is sent twice. *)
DeliverTwice(c, part) ==
    toClient' = IF up[c] THEN [toClient EXCEPT ![c] = @ \o <<PieceOf(c, part), PieceOf(c, part)>>]
                         ELSE toClient

Deliver(c, part) ==
    toClient' = IF up[c] THEN [toClient EXCEPT ![c] = Append(@, PieceOf(c, part))] ELSE toClient

WorkerSendHeader(c) ==
    /\ wpc[c] = "sendHeader"
    /\ \E result \in FirstOutcome(up[c]) :
           \/ result = "sent" /\ Deliver(c, "header")
              /\ wpc' = [wpc EXCEPT ![c] = "sendBody"]
           \/ result = "error" /\ UNCHANGED toClient
              /\ wpc' = [wpc EXCEPT ![c] = "close"]
    /\ UNCHANGED <<mpc, isRunning, accepted, clientThreads, exchanged, servedAfterStop>>
    /\ UNCHANGED <<conn, up, toServer>>

WorkerSendBody(c) ==
    /\ wpc[c] = "sendBody"
    /\ \E result \in Outcome(up[c]) :
           \/ /\ result = "sent"
              /\ Deliver(c, "body")
              /\ wpc' = [wpc EXCEPT ![c] = "loop"]
              /\ served' = [served EXCEPT ![c] = @ \cup {inHand[c]}]
              /\ servedAfterStop' = IF isRunning THEN servedAfterStop
                                    ELSE [servedAfterStop EXCEPT ![c] = @ + 1]
              /\ UNCHANGED <<mpc, conn, inHand, heard>>
           \/ /\ result = "error"
              /\ wpc' = [wpc EXCEPT ![c] = "close"]
              /\ UNCHANGED <<exchanged, servedAfterStop, toClient, mpc, conn>>
           \/ /\ result = "sigpipe"
              /\ ProcessEnds("killed")
              /\ UNCHANGED <<exchanged, servedAfterStop, toClient>>
    /\ UNCHANGED <<isRunning, accepted, clientThreads, up, toServer>>

WorkerClose(c) ==
    /\ wpc[c] = "close"
    /\ conn' = [conn EXCEPT ![c] = "closed"]
    /\ wpc' = [wpc EXCEPT ![c] = "log"]
    /\ UNCHANGED <<mpc, isRunning, accepted, clientThreads, exchanged, servedAfterStop>>
    /\ UNCHANGED <<up, toServer, toClient>>

WorkerLog(c) ==
    /\ wpc[c] = "log"
    /\ LogMutexFree
    /\ wpc' = [wpc EXCEPT ![c] = "done"]
    /\ UNCHANGED <<mpc, isRunning, accepted, clientThreads, exchanged, servedAfterStop, linkVars>>
=============================================================================
