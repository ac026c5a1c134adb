------------------------------- MODULE TCPService -------------------------------
(***************************************************************************)
(* The TCP service: the clients of TCPClient, each with a connection to    *)
(* the multi-threaded server of TCPServer.                                 *)
(***************************************************************************)
EXTENDS TCPClient, TCPServer

vars == <<linkVars, clientVars, serverVars>>

Init == LinkInit /\ ClientInit /\ ServerInit

(* The steps of a client that waits for no user. *)
ClientStep(c) == SendEdgesData(c) \/ ReceiveResponse(c)

UserStep(c) ==
    \/ Connect(c, Listening)
    \/ SendRequestData(c)
    \/ Exit(c)
    \/ Kill(c)

MainStep ==
    \/ \E c \in Clients : Accept(c)
    \/ LogConnected
    \/ SpawnWorker
    \/ RegisterWorker
    \/ Stop
    \/ Joined

WorkerStep(c) ==
    \/ WorkerLoop(c)
    \/ WorkerReceive(c)
    \/ WorkerProcess(c)
    \/ WorkerSendHeader(c)
    \/ WorkerSendBody(c)
    \/ WorkerClose(c)
    \/ WorkerLog(c)

Next ==
    \/ /\ \E c \in Clients : ClientStep(c) \/ UserStep(c)
       /\ UNCHANGED serverVars
    \/ /\ \/ MainStep
          \/ Signal
          \/ \E c \in Clients : WorkerStep(c)
       /\ UNCHANGED clientVars

Spec == Init /\ [][Next]_vars

(***************************************************************************)
(* Threads and processes are scheduled fairly.  Users and signals owe      *)
(* nothing.                                                                *)
(***************************************************************************)
Fairness ==
    /\ WF_vars(MainStep /\ UNCHANGED clientVars)
    /\ \A c \in Clients : /\ WF_vars(WorkerStep(c) /\ UNCHANGED clientVars)
                          /\ WF_vars(ClientStep(c) /\ UNCHANGED serverVars)

LiveSpec == Spec /\ Fairness
-----------------------------------------------------------------------------
TypeOK == LinkTypeOK /\ ClientTypeOK /\ ServerTypeOK

(***************************************************************************)
(* A stopped server cuts nobody off: when the process has exited after     *)
(* stop(), no worker was in the middle of a request, and every worker that *)
(* ever ran had closed its connection.  It rests on stop() joining every   *)
(* thread that runTCP started.                                             *)
(***************************************************************************)
GracefulStop == mpc = "exited" => \A c \in Clients : wpc[c] # "cut"

(***************************************************************************)
(* stop() takes effect soon: after isRunning became false a worker answers *)
(* at most the one request it was already waiting for.                     *)
(***************************************************************************)
OneMoreRequest == \A c \in Clients : servedAfterStop[c] <= 1

(***************************************************************************)
(* A response reaches the client whole and is the answer to its only       *)
(* outstanding request: whenever the client is not waiting, nothing is     *)
(* left in the connection in either direction.                             *)
(***************************************************************************)
RequestResponseInStep ==
    \A c \in Clients :
        cpc[c] = "prompt" => /\ toServer[c] = << >>
                             /\ toClient[c] = << >>
                             /\ wpc[c] \notin {"recvEdges", "process", "sendHeader", "sendBody"}

(***************************************************************************)
(* No client waits for ever: a request that was begun ends with a response *)
(* or an error, also when the server is stopped or ends meanwhile.         *)
(***************************************************************************)
EveryRequestEnds ==
    \A c \in Clients : cpc[c] = "sendEdges" ~> cpc[c] \notin {"sendEdges", "receive"}

Signalled == mpc \in {"deadlock", "stop", "join"}

(***************************************************************************)
(* "When the user presses Ctrl+C this function stops the server"           *)
(* (ServerMain.cpp): once the signal arrived and no client is connected    *)
(* any more, the server exits.                                             *)
(***************************************************************************)
StopEndsWhenClientsLeave ==
    Signalled /\ (\A c \in Clients : ~ up[c]) ~> ~ Alive

(* The worker of c waits for a request that its client does not send.      *)
Silent(c) == up[c] /\ wpc[c] = "recvRequest" /\ toServer[c] = << >>

(***************************************************************************)
(* If the server never gets out of stop(), it joins the worker of a client *)
(* that stays connected and never asks again.  Nothing else keeps it: no   *)
(* request under way, no connection that was not accepted yet, no answer   *)
(* that cannot be sent.                                                    *)
(***************************************************************************)
StopWaitsOnlyForSilence ==
    <>[]Signalled => \E c \in Clients : <>[]Silent(c)
-----------------------------------------------------------------------------
(***************************************************************************)
(* The service implements RequestReply.  A client that ended before it was *)
(* answered has failed, whatever ended it.                                 *)
(***************************************************************************)
Answered(c) == answered[c] = <<requests[c], requests[c]>>

Phase(c) ==
    CASE cpc[c] \in {"start", "prompt"}      -> "idle"
      [] cpc[c] \in {"sendEdges", "receive"} -> "pending"
      [] OTHER -> IF Answered(c) THEN "exited" ELSE "failed"

(* Requests whose vertices and edges belong together; a mixture is none.   *)
Whole(pairs) == {n \in 1 .. MaxRequests : <<n, n>> \in pairs}
Mixture      == MaxRequests + 1

Promise == INSTANCE RequestReply WITH
    phase    <- [c \in Clients |-> Phase(c)],
    asked    <- requests,
    heard    <- [c \in Clients |-> Whole(heard[c])],
    served   <- [c \in Clients |-> Whole(served[c])],
    answered <- [c \in Clients |-> IF answered[c][1] = answered[c][2] THEN answered[c][1]
                                                                     ELSE Mixture]

(***************************************************************************)
(* Every client gets, per request, the answer to that request, computed by *)
(* a worker from its vertices and its edges, or an error and nothing more, *)
(* although no message says which request it belongs to, whatever becomes  *)
(* of the other clients and of the server: the promise of Client.h, which  *)
(* UDPExchange keeps as well.                                              *)
(***************************************************************************)
KeepsPromise == Promise!Spec
-----------------------------------------------------------------------------
(***************************************************************************)
(* "Every thread works independently, serving its own client"              *)
(* (architecture.txt): no client that goes away takes the server with it.  *)
(***************************************************************************)
ThreadsAreIndependent == mpc # "killed"
=============================================================================
