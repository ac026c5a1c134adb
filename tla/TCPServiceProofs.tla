---------------------------- MODULE TCPServiceProofs ----------------------------
(***************************************************************************)
(* Theorems about TCPService, for every set of clients and any number of   *)
(* requests.                                                               *)
(***************************************************************************)
EXTENDS TCPService, SequenceTheorems, TLAPS

-----------------------------------------------------------------------------
(***************************************************************************)
(* Type correctness.                                                       *)
(***************************************************************************)
LEMMA QueueTypes ==
    ASSUME NEW S, NEW q \in Seq(S)
    PROVE  /\ \A m \in S : Append(q, m) \in Seq(S)
           /\ q # << >> => Head(q) \in S /\ Tail(q) \in Seq(S)
BY AppendProperties, HeadTailProperties

LEMMA TypeInit == Init => TypeOK
BY TCPClientAssumption
   DEF Init, LinkInit, ClientInit, ServerInit, TypeOK, LinkTypeOK, ClientTypeOK, ServerTypeOK,
       NoAnswer, ClientStates, Connected, MainStates, MainLoop, WorkerStates

LEMMA TypeClientStep ==
    ASSUME TypeOK, NEW c \in Clients, ClientStep(c) \/ UserStep(c), UNCHANGED serverVars
    PROVE  TypeOK'
<1> USE DEF TypeOK, LinkTypeOK, ClientTypeOK, ClientStates, Connected
<1>1. ServerTypeOK'
  BY DEF ServerTypeOK, serverVars, exchanged
<1>2. ASSUME NEW part \in {"request", "edges"}, NEW next \in ClientStates,
             requests' \in [Clients -> 0 .. MaxRequests], SendTCP(c, part, next)
      PROVE  /\ cpc' \in [Clients -> ClientStates] /\ up' \in [Clients -> BOOLEAN]
             /\ toServer' \in [Clients -> Seq(Message)]
  <2>1. [part |-> part, n |-> requests'[c]] \in Message
    BY <1>2, TCPClientAssumption DEF Message
  <2>2. Append(toServer[c], [part |-> part, n |-> requests'[c]]) \in Seq(Message)
    BY <2>1, QueueTypes
  <2> QED BY <1>2, <2>2 DEF SendTCP, End, Outcome
<1>3. CASE SendEdgesData(c)
  BY <1>1, <1>2, <1>3 DEF SendEdgesData
<1>4. CASE ReceiveResponse(c)
  <2>1. << >> \in Seq(Piece)
    OBVIOUS
  <2>2. CASE /\ Len(toClient[c]) >= 2
             /\ cpc' = [cpc EXCEPT ![c] = "prompt"]
             /\ answered' = [answered EXCEPT ![c] = toClient[c][2].of]
             /\ toClient' = [toClient EXCEPT ![c] = << >>]
             /\ UNCHANGED up
    <3>1. toClient[c] \in Seq(Piece) /\ 2 \in 1 .. Len(toClient[c])
      BY <2>2
    <3>2. toClient[c][2] \in Piece
      BY <3>1
    <3>3. toClient[c][2].of \in Nat \X Nat
      BY <3>2 DEF Piece
    <3> QED BY <1>1, <1>4, <2>1, <2>2, <3>3 DEF ReceiveResponse
  <2>3. CASE End(c, "failed") /\ UNCHANGED <<toClient, answered>>
    BY <1>1, <1>4, <2>3 DEF ReceiveResponse, End
  <2> QED BY <1>4, <2>2, <2>3 DEF ReceiveResponse
<1>5. CASE Connect(c, Listening)
  BY <1>1, <1>5 DEF Connect
<1>6. CASE SendRequestData(c)
  <2>1. requests' \in [Clients -> 0 .. MaxRequests] /\ answered' \in [Clients -> Nat \X Nat]
    BY <1>6, TCPClientAssumption DEF SendRequestData, NoAnswer
  <2> QED BY <1>1, <1>2, <1>6, <2>1 DEF SendRequestData
<1>7. CASE Exit(c) \/ Kill(c)
  BY <1>1, <1>7 DEF Exit, Kill, End
<1> QED BY <1>3, <1>4, <1>5, <1>6, <1>7 DEF ClientStep, UserStep

LEMMA TypeServerStep ==
    ASSUME TypeOK, MainStep \/ Signal \/ (\E c \in Clients : WorkerStep(c)),
           UNCHANGED clientVars
    PROVE  TypeOK'
<1> USE DEF TypeOK, LinkTypeOK, ServerTypeOK, MainStates, MainLoop, WorkerStates, linkVars,
            exchanged
<1>1. ClientTypeOK'
  BY DEF ClientTypeOK, clientVars
<1>2. CASE MainStep
  <2>1. CASE \E c \in Clients : Accept(c)
    BY <1>1, <2>1 DEF Accept
  <2>2. CASE LogConnected \/ SpawnWorker \/ RegisterWorker
    BY <1>1, <2>2 DEF LogConnected, SpawnWorker, RegisterWorker
  <2>3. CASE Stop
    BY <1>1, <2>3 DEF Stop
  <2>4. CASE Joined
    BY <1>1, <2>4 DEF Joined, ProcessEnds
  <2> QED BY <1>2, <2>1, <2>2, <2>3, <2>4 DEF MainStep
<1>3. CASE Signal
  BY <1>1, <1>3, TCPServerAssumption DEF Signal
<1>4. CASE \E c \in Clients : WorkerStep(c)
  <2>1. PICK c \in Clients : WorkerStep(c)
    BY <1>4
  <2>2. /\ inHand[c] \in Nat \X Nat
        /\ inHand[c][1] \in Nat
    OBVIOUS
  <2>3. CASE WorkerLoop(c) \/ WorkerProcess(c) \/ WorkerLog(c)
    BY <1>1, <2>3 DEF WorkerLoop, WorkerProcess, WorkerLog
  <2>4. CASE WorkerReceive(c)
    <3>1. ASSUME toServer[c] # << >>
          PROVE  Tail(toServer[c]) \in Seq(Message) /\ Head(toServer[c]).n \in Nat
      <4>1. Tail(toServer[c]) \in Seq(Message) /\ Head(toServer[c]) \in Message
        BY <3>1, QueueTypes
      <4> QED BY <4>1 DEF Message
    <3>2. ASSUME NEW taken, NEW next \in {"recvEdges", "process"}, ReceiveTCP(c, taken, next),
                 toServer[c] # << >> => taken \in Nat \X Nat
          PROVE  /\ toServer' \in [Clients -> Seq(Message)]
                 /\ inHand' \in [Clients -> Nat \X Nat]
                 /\ wpc' \in [Clients -> WorkerStates]
      <4>1. CASE toServer[c] # << >>
        <5>1. /\ Tail(toServer[c]) \in Seq(Message) /\ taken \in Nat \X Nat
              /\ toServer' = [toServer EXCEPT ![c] = Tail(@)]
              /\ inHand' = [inHand EXCEPT ![c] = taken]
              /\ wpc' = [wpc EXCEPT ![c] = next]
          BY <3>1, <3>2, <4>1 DEF ReceiveTCP
        <5> QED BY <5>1
      <4>2. CASE toServer[c] = << >>
        BY <3>2, <4>2 DEF ReceiveTCP
      <4> QED BY <4>1, <4>2
    <3>3. CASE /\ wpc[c] = "recvRequest"
               /\ ReceiveTCP(c, <<Head(toServer[c]).n, 0>>, "recvEdges")
               /\ UNCHANGED heard
      BY <1>1, <2>4, <3>1, <3>2, <3>3 DEF WorkerReceive
    <3>4. CASE /\ wpc[c] = "recvEdges"
               /\ ReceiveTCP(c, <<inHand[c][1], Head(toServer[c]).n>>, "process")
               /\ heard' = IF wpc'[c] = "process" THEN [heard EXCEPT ![c] = @ \cup {inHand'[c]}]
                                                  ELSE heard
      <4>1. /\ toServer' \in [Clients -> Seq(Message)]
            /\ inHand' \in [Clients -> Nat \X Nat]
            /\ wpc' \in [Clients -> WorkerStates]
        BY <2>2, <3>1, <3>2, <3>4
      <4>2. heard' \in [Clients -> SUBSET (Nat \X Nat)]
        BY <3>4, <4>1, SMTT(30)
      <4> QED BY <1>1, <2>4, <4>1, <4>2 DEF WorkerReceive
    <3> QED BY <2>4, <3>3, <3>4 DEF WorkerReceive
  <2>5. ASSUME NEW part \in {"header", "body"}, Deliver(c, part)
        PROVE  toClient' \in [Clients -> Seq(Piece)]
    <3>1. PieceOf(c, part) \in Piece
      BY <2>2, <2>5 DEF PieceOf, Piece
    <3>2. Append(toClient[c], PieceOf(c, part)) \in Seq(Piece)
      BY <3>1, QueueTypes
    <3> QED BY <2>5, <3>2 DEF Deliver
  <2>6. CASE WorkerSendHeader(c)
    BY <1>1, <2>5, <2>6 DEF WorkerSendHeader
  <2>7. CASE WorkerSendBody(c)
    <3>1. CASE ProcessEnds("killed") /\ UNCHANGED <<exchanged, servedAfterStop, toClient>>
      BY <1>1, <2>7, <3>1 DEF WorkerSendBody, ProcessEnds
    <3>2. CASE /\ Deliver(c, "body")
               /\ wpc' = [wpc EXCEPT ![c] = "loop"]
               /\ served' = [served EXCEPT ![c] = @ \cup {inHand[c]}]
               /\ servedAfterStop' = IF isRunning THEN servedAfterStop
                                     ELSE [servedAfterStop EXCEPT ![c] = @ + 1]
               /\ UNCHANGED <<mpc, conn, inHand, heard>>
      <4>1. servedAfterStop' \in [Clients -> Nat]
        BY <3>2
      <4>2. toClient' \in [Clients -> Seq(Piece)]
        BY <2>5, <3>2
      <4>3. served' \in [Clients -> SUBSET (Nat \X Nat)]
        BY <2>2, <3>2
      <4> QED BY <1>1, <2>7, <3>2, <4>1, <4>2, <4>3 DEF WorkerSendBody
    <3>3. CASE /\ wpc' = [wpc EXCEPT ![c] = "close"]
               /\ UNCHANGED <<exchanged, servedAfterStop, toClient, mpc, conn>>
      BY <1>1, <2>7, <3>3 DEF WorkerSendBody
    <3> QED BY <2>7, <3>1, <3>2, <3>3 DEF WorkerSendBody
  <2>8. CASE WorkerClose(c)
    BY <1>1, <2>8 DEF WorkerClose
  <2> QED BY <2>1, <2>3, <2>4, <2>6, <2>7, <2>8 DEF WorkerStep
<1> QED BY <1>2, <1>3, <1>4

LEMMA TypeStep == TypeOK /\ [Next]_vars => TypeOK'
<1> SUFFICES ASSUME TypeOK, [Next]_vars PROVE TypeOK'
  OBVIOUS
<1>1. CASE Next
  BY <1>1, TypeClientStep, TypeServerStep DEF Next
<1>2. CASE UNCHANGED vars
  BY <1>2 DEF vars, linkVars, clientVars, serverVars, exchanged, TypeOK, LinkTypeOK, ClientTypeOK,
              ServerTypeOK
<1> QED BY <1>1, <1>2

(* Every reachable state is of the right types. *)
THEOREM TypeCorrect == Spec => []TypeOK
BY TypeInit, TypeStep, PTL DEF Spec

-----------------------------------------------------------------------------
(***************************************************************************)
(* After stop() took effect.                                               *)
(***************************************************************************)
StopInv ==
    /\ TypeOK
    /\ \A c \in Clients :
          servedAfterStop[c] # 0 =>
              /\ servedAfterStop[c] = 1
              /\ ~ isRunning
              /\ wpc[c] \in {"loop", "close", "log", "done", "cut"}

(* A client's step leaves the server alone.                                *)
LEMMA NextCases ==
    ASSUME [Next]_vars
    PROVE  \/ UNCHANGED serverVars
           \/ MainStep
           \/ Signal
           \/ \E c \in Clients : WorkerStep(c)
BY DEF Next, vars

LEMMA StopInvStep == StopInv /\ [Next]_vars => StopInv'
<1> SUFFICES ASSUME StopInv, [Next]_vars PROVE StopInv'
  OBVIOUS
<1>1. TypeOK'
  BY TypeStep DEF StopInv
<1>2. ServerTypeOK
  BY DEF StopInv, TypeOK
<1> USE <1>1, <1>2 DEF StopInv, ServerTypeOK
<1>3. CASE UNCHANGED serverVars
  BY <1>3 DEF serverVars
<1>4. CASE MainStep
  <2>1. UNCHANGED servedAfterStop
    BY <1>4 DEF MainStep, Accept, LogConnected, SpawnWorker, RegisterWorker, Stop, Joined
  <2>2. isRunning' => isRunning
    BY <1>4 DEF MainStep, Accept, LogConnected, SpawnWorker, RegisterWorker, Stop, Joined
  <2>3. \A c \in Clients : wpc'[c] \in {wpc[c], "loop", "cut"}
    BY <1>4 DEF MainStep, Accept, LogConnected, SpawnWorker, RegisterWorker, Stop, Joined,
                ProcessEnds
  <2> QED BY <2>1, <2>2, <2>3
<1>5. CASE Signal
  BY <1>5 DEF Signal
<1>6. CASE \E c \in Clients : WorkerStep(c)
  <2>1. PICK c \in Clients : WorkerStep(c)
    BY <1>6
  <2>2. UNCHANGED isRunning
    BY <2>1 DEF WorkerStep, WorkerLoop, WorkerReceive, WorkerProcess, WorkerSendHeader,
                WorkerSendBody, WorkerClose, WorkerLog
  <2>3. CASE ~ WorkerSendBody(c)
    <3>1. UNCHANGED servedAfterStop
      BY <2>1, <2>3 DEF WorkerStep, WorkerLoop, WorkerReceive, WorkerProcess,
                        WorkerSendHeader, WorkerClose, WorkerLog
    <3>2. \A d \in Clients : d # c => wpc'[d] = wpc[d]
      BY <2>1, <2>3 DEF WorkerStep, WorkerLoop, WorkerReceive, ReceiveTCP, WorkerProcess,
                        WorkerSendHeader, WorkerClose, WorkerLog
    <3>3. \/ wpc[c] \in {"recvRequest", "recvEdges", "process", "sendHeader"}
          \/ wpc[c] = "loop" /\ wpc'[c] = (IF isRunning THEN "recvRequest" ELSE "close")
          \/ wpc'[c] \in {"log", "done"}
      BY <2>1, <2>3 DEF WorkerStep, WorkerLoop, WorkerReceive, WorkerProcess,
                        WorkerSendHeader, WorkerClose, WorkerLog
    <3> QED BY <2>2, <3>1, <3>2, <3>3
  <2>4. CASE WorkerSendBody(c)
    <3>1. servedAfterStop[c] = 0
      BY <2>4 DEF WorkerSendBody
    <3>2. \A d \in Clients : d # c => wpc'[d] \in {wpc[d], "cut"}
                                     /\ servedAfterStop'[d] = servedAfterStop[d]
      BY <2>4 DEF WorkerSendBody, ProcessEnds
    <3>3. \/ servedAfterStop'[c] = 0
          \/ ~ isRunning /\ servedAfterStop'[c] = 1 /\ wpc'[c] = "loop"
      BY <2>4, <3>1 DEF WorkerSendBody, ProcessEnds
    <3> QED BY <2>2, <3>2, <3>3
  <2> QED BY <2>3, <2>4
<1> QED BY <1>3, <1>4, <1>5, <1>6, NextCases

(* Wherever the signal interrupts the main thread: after stop() took effect *)
(* a worker answers at most one more request.                               *)
THEOREM StopTakesEffect == Spec => []OneMoreRequest
<1>1. Init => StopInv
  BY TypeInit DEF Init, ServerInit, StopInv
<1>2. StopInv => OneMoreRequest
  BY DEF StopInv, OneMoreRequest
<1> QED BY <1>1, <1>2, StopInvStep, PTL DEF Spec

-----------------------------------------------------------------------------
(***************************************************************************)
(* When the main thread is interrupted only while it waits in accept, every*)
(* running worker is in the vector that stop() joins.                      *)
(***************************************************************************)
JoinInv ==
    /\ TypeOK
    /\ mpc \in {"stop", "join"} => accepted = {}
    /\ \A c \in Clients :
          /\ wpc[c] \in Working =>
                 \/ c \in clientThreads
                 \/ c \in accepted /\ mpc = "register"
          /\ wpc[c] = "cut" => mpc = "killed"
    /\ mpc \in {"exited", "killed"} => \A c \in Clients : wpc[c] \notin Working

LEMMA JoinInvStep ==
    ASSUME SignalPoints \subseteq {"accept"}
    PROVE  JoinInv /\ [Next]_vars => JoinInv'
<1> SUFFICES ASSUME JoinInv, [Next]_vars PROVE JoinInv'
  OBVIOUS
<1>1. TypeOK'
  BY TypeStep DEF JoinInv
<1>2. ServerTypeOK
  BY DEF JoinInv, TypeOK
<1> USE <1>1, <1>2 DEF JoinInv, ServerTypeOK
<1>3. CASE UNCHANGED serverVars
  BY <1>3 DEF serverVars
<1>4. CASE MainStep
  <2>1. CASE \E c \in Clients : Accept(c)
    BY <2>1 DEF Accept
  <2>2. CASE LogConnected \/ Stop
    BY <2>2 DEF LogConnected, Stop
  <2>3. CASE SpawnWorker
    BY <2>3 DEF SpawnWorker, Working
  <2>4. CASE RegisterWorker
    BY <2>4 DEF RegisterWorker
  <2>5. CASE Joined
    <3>1. \A c \in Clients : wpc[c] \notin Working
      BY <2>5 DEF Joined, Working
    <3>2. UNCHANGED wpc /\ mpc' = "exited"
      BY <2>5, <3>1 DEF Joined, ProcessEnds
    <3> QED BY <2>5, <3>1, <3>2 DEF Joined
  <2> QED BY <1>4, <2>1, <2>2, <2>3, <2>4, <2>5 DEF MainStep
<1>5. CASE Signal
  BY <1>5 DEF Signal
<1>6. CASE \E c \in Clients : WorkerStep(c)
  <2>1. PICK c \in Clients : WorkerStep(c)
    BY <1>6
  <2>2. UNCHANGED <<accepted, clientThreads>> /\ wpc[c] \in Working
    BY <2>1 DEF WorkerStep, WorkerLoop, WorkerReceive, WorkerProcess, WorkerSendHeader,
                WorkerSendBody, WorkerClose, WorkerLog, Working, WorkerStates
  <2>3. CASE ProcessEnds("killed")
    BY <2>2, <2>3 DEF ProcessEnds, Working
  <2>4. CASE ~ ProcessEnds("killed")
    <3>1. UNCHANGED mpc /\ \A d \in Clients : d # c => wpc'[d] = wpc[d]
      BY <2>1, <2>4 DEF WorkerStep, WorkerLoop, WorkerReceive, ReceiveTCP, WorkerProcess,
                        WorkerSendHeader, WorkerSendBody, WorkerClose, WorkerLog
    <3>2. wpc'[c] # "cut"
      BY <2>1, <2>4 DEF WorkerStep, WorkerLoop, WorkerReceive, ReceiveTCP, WorkerProcess,
                        WorkerSendHeader, WorkerSendBody, WorkerClose, WorkerLog
    <3> QED BY <2>2, <3>1, <3>2
  <2> QED BY <2>3, <2>4
<1> QED BY <1>3, <1>4, <1>5, <1>6, NextCases

(* A server that is interrupted while it waits for connections cuts off no  *)
(* worker when it exits.                                                    *)
THEOREM StopIsGraceful ==
    ASSUME SignalPoints \subseteq {"accept"}
    PROVE  Spec => []GracefulStop
<1>1. Init => JoinInv
  BY TypeInit DEF Init, ServerInit, JoinInv, Working
<1>2. JoinInv => GracefulStop
  BY DEF JoinInv, GracefulStop
<1> QED BY <1>1, <1>2, JoinInvStep, PTL DEF Spec

-----------------------------------------------------------------------------
(***************************************************************************)
(* Requests and responses.  No message says which request it belongs to:   *)
(* what keeps the two sides in step is where each of them is.  InStep is   *)
(* that relation, for each place of the client.                            *)
(***************************************************************************)
Serving == {"recvEdges", "process", "sendHeader", "sendBody"}
Both(c) == <<requests[c], requests[c]>>
RequestMessage(c) == [part |-> "request", n |-> requests[c]]
EdgesMessage(c)   == [part |-> "edges", n |-> requests[c]]

(* The server's end is closed, or its worker will send nothing any more.   *)
Gone(c) == conn[c] = "closed" \/ wpc[c] \in {"close", "log", "done", "cut"}

Ends(c) ==
    /\ up[c] <=> cpc[c] \in Connected
    /\ cpc[c] = "start" => conn[c] = "none" /\ requests[c] = 0 /\ answered[c] = NoAnswer
    /\ conn[c] = "none" => /\ cpc[c] \in {"start", "failed"}
                           /\ toServer[c] = << >> /\ toClient[c] = << >>
    /\ wpc[c] \in Working \ {"log"} => conn[c] = "accepted"
    /\ conn[c] \in {"none", "backlog"} => wpc[c] = "none"

(* What the worker holds of a request that was begun.                      *)
InHand(c) ==
    /\ \A i \in DOMAIN toServer[c] : toServer[c][i].n \in 1 .. requests[c]
    /\ wpc[c] \in Serving => inHand[c][1] \in 1 .. requests[c]
    /\ wpc[c] \in Serving \ {"recvEdges"} => inHand[c] \in heard[c]

AtPrompt(c) ==
    /\ toServer[c] = << >>
    /\ toClient[c] = << >>
    /\ wpc[c] \notin Serving
    /\ answered[c] = Both(c)

AtEdges(c) ==
    /\ toClient[c] = << >>
    /\ \/ Gone(c)
       \/ toServer[c] = <<RequestMessage(c)>> /\ wpc[c] \in {"none", "loop", "recvRequest"}
       \/ toServer[c] = << >> /\ wpc[c] = "recvEdges" /\ inHand[c][1] = requests[c]

(* The vertices, the edges and the response, wherever they are.            *)
AtResponse(c) ==
    \/ Gone(c) /\ Len(toClient[c]) < 2
    \/ /\ wpc[c] \in {"none", "loop", "recvRequest"}
       /\ toServer[c] = <<RequestMessage(c), EdgesMessage(c)>>
       /\ toClient[c] = << >>
    \/ /\ wpc[c] = "recvEdges" /\ inHand[c][1] = requests[c]
       /\ toServer[c] = <<EdgesMessage(c)>>
       /\ toClient[c] = << >>
    \/ /\ wpc[c] \in {"process", "sendHeader"} /\ inHand[c] = Both(c)
       /\ toServer[c] = << >>
       /\ toClient[c] = << >>
    \/ /\ wpc[c] = "sendBody" /\ inHand[c] = Both(c)
       /\ toServer[c] = << >>
       /\ Len(toClient[c]) = 1
    \/ /\ wpc[c] \notin Serving /\ Both(c) \in served[c]
       /\ toServer[c] = << >>
       /\ Len(toClient[c]) = 2 /\ toClient[c][2].of = Both(c)

InStep(c) ==
    /\ Ends(c)
    /\ InHand(c)
    /\ cpc[c] = "prompt" => AtPrompt(c)
    /\ cpc[c] = "sendEdges" => AtEdges(c)
    /\ cpc[c] = "receive" => AtResponse(c)
    /\ cpc[c] \in {"sendEdges", "receive"} => requests[c] # 0 /\ answered[c] = NoAnswer

(* The connection runTCP has just accepted has no worker yet.              *)
Fresh == mpc \in {"logging", "spawn"} =>
            \A c \in accepted : conn[c] = "accepted" /\ wpc[c] = "none"

StepInv == TypeOK /\ Fresh /\ \A c \in Clients : InStep(c)

LocalState(c) == <<conn[c], up[c], toServer[c], toClient[c], cpc[c], requests[c], answered[c],
                   wpc[c], inHand[c], heard[c], served[c]>>

LEMMA InStepFrame ==
    ASSUME NEW c \in Clients, InStep(c), UNCHANGED LocalState(c)
    PROVE  InStep(c)'
BY DEF InStep, LocalState, Ends, InHand, AtPrompt, AtEdges, AtResponse, Gone, Both,
       RequestMessage, EdgesMessage

LEMMA InStepInit == Init => StepInv
<1> SUFFICES ASSUME Init PROVE StepInv
  OBVIOUS
<1>1. TypeOK
  BY TypeInit
<1>2. Fresh
  BY DEF Init, ServerInit, Fresh
<1>3. ASSUME NEW c \in Clients PROVE InStep(c)
  BY DEF Init, LinkInit, ClientInit, ServerInit, InStep, Ends, InHand, Connected, Working,
         WorkerStates, Serving
<1> QED BY <1>1, <1>2, <1>3 DEF StepInv

(* A step of one client is no step of another, nor of the server.          *)
LEMMA ClientFrame ==
    ASSUME TypeOK, NEW c \in Clients, ClientStep(c) \/ UserStep(c), UNCHANGED serverVars,
           NEW d \in Clients, d # c
    PROVE  UNCHANGED LocalState(d)
BY DEF TypeOK, LinkTypeOK, ClientTypeOK, serverVars, exchanged, LocalState, ClientStep, UserStep,
       SendEdgesData, ReceiveResponse, Connect, SendRequestData, Exit, Kill, SendTCP, End

(* What sendTCP does to the client's state.                                *)
LEMMA SendCases ==
    ASSUME TypeOK, NEW c \in Clients, NEW part, NEW next, SendTCP(c, part, next)
    PROVE  \/ /\ ServerEndOpen(c)
              /\ cpc'[c] = next
              /\ up'[c] = up[c]
              /\ toServer'[c] = Append(toServer[c], [part |-> part, n |-> requests'[c]])
           \/ /\ ~ ServerEndOpen(c)
              /\ cpc'[c] = next
              /\ up'[c] = up[c]
              /\ toServer'[c] = toServer[c]
           \/ /\ ~ ServerEndOpen(c)
              /\ cpc'[c] \in {"failed", "killed"}
              /\ up'[c] = FALSE
              /\ toServer'[c] = toServer[c]
BY DEF TypeOK, LinkTypeOK, ClientTypeOK, SendTCP, Outcome, End

(* A message of the current request is in order among the others.          *)
LEMMA QueueBound ==
    ASSUME NEW q \in Seq(Message), NEW n \in Nat, NEW k \in Nat, k <= n, n # 0,
           NEW part \in {"request", "edges"},
           \A i \in DOMAIN q : q[i].n \in 1 .. k
    PROVE  LET r == Append(q, [part |-> part, n |-> n]) IN
              \A i \in DOMAIN r : r[i].n \in 1 .. n
<1> DEFINE r == Append(q, [part |-> part, n |-> n])
<1>1. [part |-> part, n |-> n] \in Message
  BY DEF Message
<1>2. /\ DOMAIN r = 1 .. Len(q) + 1
      /\ \A i \in 1 .. Len(q) : r[i] = q[i]
      /\ r[Len(q) + 1] = [part |-> part, n |-> n]
  BY <1>1, AppendProperties
<1>3. ASSUME NEW i \in 1 .. Len(q) PROVE q[i].n \in 1 .. n
  BY SMT
<1> QED BY <1>2, <1>3

LEMMA InStepClient ==
    ASSUME TypeOK, NEW c \in Clients, InStep(c), ClientStep(c) \/ UserStep(c),
           UNCHANGED serverVars
    PROVE  InStep(c)'
<1>0. /\ LinkTypeOK /\ ClientTypeOK /\ ServerTypeOK
      /\ UNCHANGED <<wpc, inHand, heard, served>>
  BY DEF TypeOK, serverVars, exchanged
<1>1. CASE Connect(c, Listening)
  <2>1. /\ UNCHANGED <<requests, answered, toServer, toClient>> /\ cpc[c] = "start"
        /\ \/ cpc'[c] = "prompt" /\ up'[c] = TRUE /\ conn'[c] = "backlog"
           \/ cpc'[c] = "failed" /\ up'[c] = up[c] /\ conn'[c] = conn[c]
    BY <1>0, <1>1 DEF Connect, LinkTypeOK, ClientTypeOK
  <2>2. Ends(c) /\ InHand(c) /\ answered[c] = Both(c) /\ wpc[c] = "none"
        /\ toServer[c] = << >> /\ toClient[c] = << >>
    BY <2>1 DEF InStep, Ends, Both, NoAnswer
  <2> QED BY <1>0, <2>1, <2>2 DEF InStep, Ends, InHand, AtPrompt, Both, Connected, Serving, Working,
                                  WorkerStates
<1>2. CASE SendRequestData(c)
  <2>1. /\ UNCHANGED <<conn, toClient>> /\ cpc[c] = "prompt"
        /\ requests'[c] = requests[c] + 1 /\ answered'[c] = NoAnswer
        /\ SendTCP(c, "request", "sendEdges")
    BY <1>0, <1>2 DEF SendRequestData, ClientTypeOK
  <2>2. /\ Ends(c) /\ InHand(c) /\ AtPrompt(c) /\ conn[c] # "none" /\ requests[c] \in Nat
    BY <1>0, <2>1 DEF InStep, Ends, ClientTypeOK
  <2>3. /\ cpc'[c] \in {"sendEdges", "failed", "killed"}
        /\ up'[c] <=> cpc'[c] = "sendEdges"
        /\ \/ ServerEndOpen(c) /\ toServer'[c] = <<RequestMessage(c)'>>
           \/ toServer'[c] = << >> /\ (cpc'[c] = "sendEdges" => ~ ServerEndOpen(c))
    <3>1. toServer[c] = << >> /\ up[c] = TRUE
      BY <1>0, <2>1, <2>2 DEF AtPrompt, Ends, Connected, LinkTypeOK
    <3>2. Append(<< >>, RequestMessage(c)') = <<RequestMessage(c)'>>
      OBVIOUS
    <3> QED BY <2>1, <3>1, <3>2, SendCases DEF RequestMessage
  <2>4. Ends(c)'
    BY <1>0, <2>1, <2>2, <2>3 DEF Ends, Connected
  <2>5. InHand(c)'
    BY <1>0, <2>1, <2>2, <2>3 DEF InHand, RequestMessage, AtPrompt
  <2>6. AtEdges(c)' \/ cpc'[c] # "sendEdges"
    <3>1. CASE ~ ServerEndOpen(c)
      BY <1>0, <2>1, <2>2, <3>1 DEF ServerEndOpen, LinkTypeOK, AtEdges, Gone, AtPrompt
    <3>2. CASE ServerEndOpen(c) /\ cpc'[c] = "sendEdges"
      <4>1. toServer'[c] = <<RequestMessage(c)'>>
        BY <2>3, <3>2
      <4> QED BY <1>0, <2>1, <2>2, <4>1
              DEF AtEdges, Gone, AtPrompt, ServerTypeOK, WorkerStates, Serving
    <3> QED BY <3>1, <3>2
  <2> QED BY <2>1, <2>2, <2>3, <2>4, <2>5, <2>6 DEF InStep, NoAnswer
<1>3. CASE SendEdgesData(c)
  <2>1. /\ UNCHANGED <<conn, toClient, requests, answered>> /\ cpc[c] = "sendEdges"
        /\ SendTCP(c, "edges", "receive")
    BY <1>3 DEF SendEdgesData
  <2>2. /\ Ends(c) /\ InHand(c) /\ AtEdges(c) /\ conn[c] # "none"
        /\ requests[c] \in Nat \ {0} /\ answered[c] = NoAnswer
    BY <1>0, <2>1 DEF InStep, Ends, ClientTypeOK
  <2>3. /\ cpc'[c] \in {"receive", "failed", "killed"}
        /\ up'[c] <=> cpc'[c] = "receive"
        /\ \/ ServerEndOpen(c) /\ cpc'[c] = "receive"
                               /\ toServer'[c] = Append(toServer[c], EdgesMessage(c))
           \/ ~ ServerEndOpen(c) /\ toServer'[c] = toServer[c]
    BY <2>1, <2>2, SendCases DEF EdgesMessage, Ends, Connected
  <2>4. Ends(c)'
    BY <1>0, <2>1, <2>2, <2>3 DEF Ends, Connected
  <2>5. InHand(c)'
    <3>1. toServer[c] \in Seq(Message)
      BY <1>0 DEF LinkTypeOK
    <3>2. \A i \in DOMAIN toServer'[c] : toServer'[c][i].n \in 1 .. requests[c]
      <4>1. CASE toServer'[c] = toServer[c]
        BY <2>2, <4>1 DEF InHand
      <4>2. CASE toServer'[c] = Append(toServer[c], EdgesMessage(c))
        <5>1. \A i \in DOMAIN toServer[c] : toServer[c][i].n \in 1 .. requests[c]
          BY <2>2 DEF InHand
        <5>2. requests[c] \in Nat /\ requests[c] # 0 /\ requests[c] <= requests[c]
          BY <2>2
        <5> QED BY <3>1, <4>2, <5>1, <5>2, QueueBound DEF EdgesMessage
      <4> QED BY <2>3, <4>1, <4>2
    <3> QED BY <1>0, <2>1, <2>2, <3>2 DEF InHand
  <2>6. AtResponse(c)' \/ cpc'[c] # "receive"
    <3>1. CASE ~ ServerEndOpen(c)
      BY <1>0, <2>1, <2>2, <3>1 DEF ServerEndOpen, LinkTypeOK, AtEdges, AtResponse, Gone
    <3>2. CASE ServerEndOpen(c)
      <4>1. CASE Gone(c)
        BY <1>0, <2>1, <2>2, <4>1 DEF AtEdges, AtResponse, Gone
      <4>2. CASE toServer[c] = <<RequestMessage(c)>> /\ wpc[c] \in {"none", "loop", "recvRequest"}
        <5>1. toServer'[c] = <<RequestMessage(c), EdgesMessage(c)>>
          BY <2>3, <3>2, <4>2
        <5> QED BY <1>0, <2>1, <2>2, <4>2, <5>1
                DEF AtEdges, AtResponse, RequestMessage, EdgesMessage
      <4>3. CASE toServer[c] = << >> /\ wpc[c] = "recvEdges" /\ inHand[c][1] = requests[c]
        <5>1. toServer'[c] = <<EdgesMessage(c)>>
          BY <2>3, <3>2, <4>3
        <5> QED BY <1>0, <2>1, <2>2, <4>3, <5>1 DEF AtEdges, AtResponse, EdgesMessage
      <4> QED BY <2>2, <4>1, <4>2, <4>3 DEF AtEdges
    <3> QED BY <3>1, <3>2
  <2> QED BY <2>1, <2>2, <2>3, <2>4, <2>5, <2>6 DEF InStep
<1>4. CASE ReceiveResponse(c)
  <2>1. /\ UNCHANGED <<conn, toServer, requests>> /\ cpc[c] = "receive"
        /\ \/ /\ Len(toClient[c]) >= 2
              /\ cpc'[c] = "prompt" /\ up'[c] = up[c]
              /\ answered'[c] = toClient[c][2].of
              /\ toClient'[c] = << >>
           \/ /\ cpc'[c] = "failed" /\ up'[c] = FALSE
              /\ UNCHANGED <<toClient, answered>>
    BY <1>0, <1>4 DEF ReceiveResponse, End, LinkTypeOK, ClientTypeOK
  <2>2. /\ Ends(c) /\ InHand(c) /\ AtResponse(c) /\ conn[c] # "none"
    BY <1>0, <2>1 DEF InStep, Ends
  <2>3. Ends(c)'
    BY <1>0, <2>1, <2>2 DEF Ends, Connected
  <2>4. InHand(c)'
    BY <1>0, <2>1, <2>2 DEF InHand
  <2>5. ASSUME Len(toClient[c]) >= 2
        PROVE  /\ wpc[c] \notin Serving /\ toServer[c] = << >>
               /\ toClient[c][2].of = Both(c)
    <3>1. ~ Len(toClient[c]) < 2 /\ Len(toClient[c]) # 1 /\ toClient[c] # << >>
      <4>1. toClient[c] \in Seq(Piece)
        BY <1>0 DEF LinkTypeOK
      <4>2. Len(toClient[c]) \in Nat /\ (toClient[c] = << >> => Len(toClient[c]) = 0)
        BY <4>1, LenProperties
      <4>3. \A n \in Nat : n >= 2 => ~ n < 2 /\ n # 1 /\ n # 0
        OBVIOUS
      <4> QED BY <2>5, <4>2, <4>3, Zenon
    <3> QED BY <2>2, <3>1 DEF AtResponse
  <2>6. cpc'[c] = "prompt" => AtPrompt(c)'
    BY <1>0, <2>1, <2>5 DEF AtPrompt, Both
  <2> QED BY <2>1, <2>3, <2>4, <2>6 DEF InStep
<1>5. CASE Exit(c) \/ Kill(c)
  <2>1. /\ cpc'[c] \in {"exited", "killed"} /\ up'[c] = FALSE /\ cpc[c] \in Connected
        /\ UNCHANGED <<requests, answered, conn, toServer, toClient>>
    BY <1>0, <1>5 DEF Exit, Kill, End, LinkTypeOK, ClientTypeOK, Connected
  <2> QED BY <1>0, <2>1 DEF InStep, Ends, InHand, Connected
<1> QED BY <1>1, <1>2, <1>3, <1>4, <1>5 DEF ClientStep, UserStep

(* The server's end of a connection closes, and its worker ends with it.   *)
LEMMA InStepClosed ==
    ASSUME TypeOK, NEW c \in Clients, InStep(c), conn[c] # "none", conn'[c] = "closed",
           wpc'[c] \in {"none", "log", "done", "cut"}, UNCHANGED clientVars,
           UNCHANGED <<up[c], toServer[c], toClient[c], inHand[c], heard[c], served[c]>>
    PROVE  InStep(c)'
<1>1. ServerTypeOK /\ LinkTypeOK /\ UNCHANGED <<cpc[c], requests[c], answered[c]>>
  BY DEF TypeOK, clientVars
<1>2. Ends(c)'
  BY <1>1 DEF InStep, Ends, Working, WorkerStates
<1>3. InHand(c)'
  BY <1>1 DEF InStep, InHand, Serving
<1>4. AtPrompt(c) => AtPrompt(c)'
  BY <1>1 DEF AtPrompt, Both, Serving
<1>5. AtEdges(c) => AtEdges(c)'
  BY <1>1 DEF AtEdges, Gone
<1>6. ASSUME AtResponse(c) PROVE AtResponse(c)'
  <2>1. << >> = toClient[c] => Len(toClient[c]) < 2
    OBVIOUS
  <2>2. Len(toClient[c]) = 1 => Len(toClient[c]) < 2
    OBVIOUS
  <2>3. \/ Len(toClient[c]) < 2
        \/ /\ Both(c) \in served[c] /\ toServer[c] = << >>
           /\ Len(toClient[c]) = 2 /\ toClient[c][2].of = Both(c)
    BY <1>6, <2>1, <2>2, Zenon DEF AtResponse
  <2>4. Gone(c)' /\ wpc'[c] \notin Serving /\ Both(c)' = Both(c)
    BY <1>1 DEF Gone, Serving, Both
  <2> QED BY <1>1, <2>3, <2>4 DEF AtResponse
<1> QED BY <1>1, <1>2, <1>3, <1>4, <1>5, <1>6 DEF InStep

(* The process ends under every connection and every worker.               *)
LEMMA InStepProcessEnds ==
    ASSUME StepInv, NEW how, ProcessEnds(how), how \notin {"logging", "spawn"},
           UNCHANGED clientVars, UNCHANGED <<up, toServer, toClient, exchanged>>
    PROVE  Fresh' /\ \A c \in Clients : InStep(c)'
<1>1. Fresh'
  BY DEF ProcessEnds, Fresh
<1>2. ASSUME NEW c \in Clients PROVE InStep(c)'
  <2>1. /\ TypeOK /\ ServerTypeOK /\ InStep(c)
        /\ conn'[c] = (IF conn[c] = "none" THEN "none" ELSE "closed")
        /\ wpc'[c] = (IF wpc[c] \in Working THEN "cut" ELSE wpc[c])
    BY DEF ProcessEnds, StepInv, TypeOK
  <2>2. CASE conn[c] = "none"
    <3>1. wpc[c] = "none"
      BY <2>1, <2>2 DEF InStep, Ends
    <3>2. UNCHANGED LocalState(c)
      BY <2>1, <2>2, <3>1 DEF LocalState, Working, clientVars, exchanged
    <3> QED BY <2>1, <3>2, InStepFrame
  <2>3. CASE conn[c] # "none"
    <3>1. wpc'[c] \in {"none", "log", "done", "cut"} /\ conn'[c] = "closed"
      BY <2>1, <2>3 DEF ServerTypeOK, WorkerStates, Working
    <3>2. UNCHANGED <<up[c], toServer[c], toClient[c], inHand[c], heard[c], served[c]>>
      BY DEF exchanged
    <3> QED BY <2>1, <2>3, <3>1, <3>2, InStepClosed
  <2> QED BY <2>2, <2>3
<1> QED BY <1>1, <1>2

LEMMA InStepMain ==
    ASSUME StepInv, MainStep \/ Signal, UNCHANGED clientVars
    PROVE  Fresh' /\ \A c \in Clients : InStep(c)'
<1>0. /\ TypeOK /\ LinkTypeOK /\ ServerTypeOK /\ Fresh
      /\ \A c \in Clients : InStep(c)
  BY DEF StepInv, TypeOK
<1>1. ASSUME NEW a \in Clients, Accept(a) PROVE Fresh' /\ \A c \in Clients : InStep(c)'
  <2>1. /\ conn[a] = "backlog" /\ accepted = {}
        /\ \/ accepted' = {a} /\ conn'[a] = "accepted"
           \/ accepted' = {} /\ conn'[a] = "closed"
        /\ UNCHANGED <<wpc, exchanged, up, toServer, toClient>>
        /\ \A c \in Clients : c # a => conn'[c] = conn[c]
    BY <1>0, <1>1 DEF Accept, LinkTypeOK, ServerTypeOK
  <2>2. InStep(a) /\ wpc[a] = "none"
    BY <1>0, <2>1 DEF InStep, Ends
  <2>3. /\ wpc'[a] = "none"
        /\ UNCHANGED <<up[a], toServer[a], toClient[a], inHand[a], heard[a], served[a], wpc[a]>>
    BY <2>1, <2>2 DEF exchanged
  <2>4. InStep(a)'
    <3>1. CASE conn'[a] = "accepted"
      BY <2>1, <2>2, <2>3, <3>1 DEF InStep, Ends, InHand, AtPrompt, AtEdges, AtResponse, Gone,
         Both, RequestMessage, EdgesMessage, clientVars
    <3>2. CASE conn'[a] = "closed"
      BY <1>0, <2>1, <2>2, <2>3, <3>2, InStepClosed
    <3> QED BY <2>1, <3>1, <3>2
  <2>5. \A c \in Clients : c # a => UNCHANGED LocalState(c)
    BY <2>1 DEF LocalState, clientVars, exchanged
  <2>6. Fresh'
    BY <2>1, <2>2 DEF Fresh
  <2> QED BY <1>0, <2>4, <2>5, <2>6, InStepFrame
<1>2. CASE LogConnected \/ RegisterWorker \/ Signal
  <2>1. UNCHANGED <<linkVars, wpc, exchanged>>
    BY <1>2 DEF LogConnected, RegisterWorker, Signal
  <2>2. \A c \in Clients : UNCHANGED LocalState(c)
    BY <2>1 DEF LocalState, clientVars, linkVars, exchanged
  <2>3. Fresh'
    BY <1>0, <1>2 DEF LogConnected, RegisterWorker, Signal, Fresh, linkVars
  <2> QED BY <1>0, <2>2, <2>3, InStepFrame
<1>3. CASE SpawnWorker
  <2>1. /\ UNCHANGED <<linkVars, exchanged>> /\ mpc = "spawn" /\ mpc' = "register"
        /\ \A c \in Clients : wpc'[c] = IF c \in accepted THEN "loop" ELSE wpc[c]
    BY <1>3 DEF SpawnWorker
  <2>2. ASSUME NEW c \in Clients, c \in accepted PROVE InStep(c)'
    <3>1. InStep(c) /\ conn[c] = "accepted" /\ wpc[c] = "none" /\ wpc'[c] = "loop"
      BY <1>0, <2>1, <2>2 DEF Fresh
    <3> QED BY <2>1, <3>1 DEF InStep, Ends, InHand, AtPrompt, AtEdges, AtResponse, Gone, Both,
                RequestMessage, EdgesMessage, clientVars, linkVars, exchanged, Serving, Working
  <2>3. ASSUME NEW c \in Clients, c \notin accepted PROVE UNCHANGED LocalState(c)
    BY <2>1, <2>3 DEF LocalState, clientVars, linkVars, exchanged
  <2>4. Fresh'
    BY <2>1 DEF Fresh
  <2> QED BY <1>0, <2>2, <2>3, <2>4, InStepFrame
<1>4. CASE Stop
  <2>1. /\ UNCHANGED <<wpc, exchanged, up, toServer, toClient>> /\ mpc' = "join"
        /\ \A c \in Clients : conn'[c] = IF conn[c] = "backlog" THEN "closed" ELSE conn[c]
    BY <1>4 DEF Stop
  <2>2. ASSUME NEW c \in Clients, conn[c] = "backlog" PROVE InStep(c)'
    <3>1. /\ InStep(c) /\ wpc[c] = "none" /\ conn'[c] = "closed"
          /\ UNCHANGED <<up[c], toServer[c], toClient[c], inHand[c], heard[c], served[c]>>
      BY <1>0, <2>1, <2>2 DEF InStep, Ends, exchanged
    <3>2. wpc'[c] \in {"none", "log", "done", "cut"}
      BY <2>1, <3>1
    <3> QED BY <1>0, <2>2, <3>1, <3>2, InStepClosed
  <2>3. ASSUME NEW c \in Clients, conn[c] # "backlog" PROVE UNCHANGED LocalState(c)
    BY <2>1, <2>3 DEF LocalState, clientVars, exchanged
  <2>4. Fresh'
    BY <2>1 DEF Fresh
  <2> QED BY <1>0, <2>2, <2>3, <2>4, InStepFrame
<1>5. CASE Joined
  BY <1>5, InStepProcessEnds DEF Joined
<1> QED BY <1>1, <1>2, <1>3, <1>4, <1>5 DEF MainStep

(* The messages still in a queue after the first was taken.                *)
LEMMA QueueTail ==
    ASSUME NEW q \in Seq(Message), q # << >>, NEW k \in Nat,
           \A i \in DOMAIN q : q[i].n \in 1 .. k
    PROVE  /\ Head(q).n \in 1 .. k
           /\ \A i \in DOMAIN Tail(q) : Tail(q)[i].n \in 1 .. k
<1>1. Len(q) \in Nat /\ Len(q) # 0 /\ DOMAIN q = 1 .. Len(q) /\ Head(q) = q[1]
  BY HeadTailProperties, EmptySeq, LenProperties
<1>2. Head(q).n \in 1 .. k
  BY <1>1
<1>3. /\ DOMAIN Tail(q) = 1 .. Len(q) - 1
      /\ \A i \in 1 .. Len(q) - 1 : Tail(q)[i] = q[i + 1]
  BY <1>1, HeadTailProperties, LenProperties
<1>4. ASSUME NEW i \in 1 .. Len(q) - 1 PROVE q[i + 1].n \in 1 .. k
  BY <1>1
<1> QED BY <1>2, <1>3, <1>4

(* A worker that goes on to next has received what its client sent first.  *)
LEMMA InStepReceive ==
    ASSUME TypeOK, NEW c \in Clients, InStep(c), WorkerReceive(c), UNCHANGED clientVars
    PROVE  InStep(c)'
<1>0. /\ LinkTypeOK /\ ServerTypeOK /\ ClientTypeOK
      /\ UNCHANGED <<conn, up, toClient, served, cpc, requests, answered>>
  BY DEF TypeOK, WorkerReceive, clientVars
<1>1. /\ Ends(c) /\ InHand(c) /\ conn[c] = "accepted" /\ conn'[c] = "accepted"
      /\ toServer[c] \in Seq(Message) /\ requests[c] \in Nat
      /\ wpc[c] \in {"recvRequest", "recvEdges"}
  BY <1>0 DEF InStep, Ends, WorkerReceive, Working, WorkerStates, LinkTypeOK, ClientTypeOK
<1>2. CASE toServer[c] = << >>
  <2>1. /\ toServer'[c] = << >> /\ wpc'[c] = "close" /\ ~ up[c]
        /\ UNCHANGED <<inHand, heard>>
    BY <1>0, <1>2 DEF WorkerReceive, ReceiveTCP, ServerTypeOK
  <2> QED BY <1>0, <1>1, <1>2, <2>1 DEF InStep, Ends, InHand, Connected, Serving
<1>3. ASSUME wpc[c] = "recvRequest", toServer[c] # << >> PROVE InStep(c)'
  <2>1. /\ toServer'[c] = Tail(toServer[c]) /\ wpc'[c] = "recvEdges"
        /\ inHand'[c][1] = Head(toServer[c]).n
        /\ UNCHANGED heard
    BY <1>0, <1>3 DEF WorkerReceive, ReceiveTCP, ServerTypeOK, LinkTypeOK
  <2>2. /\ Head(toServer[c]).n \in 1 .. requests[c]
        /\ \A i \in DOMAIN Tail(toServer[c]) : Tail(toServer[c])[i].n \in 1 .. requests[c]
    BY <1>1, <1>3, QueueTail DEF InHand
  <2>3. Ends(c)'
    BY <1>0, <1>1, <2>1 DEF Ends, Working, WorkerStates
  <2>4. InHand(c)'
    BY <1>0, <2>1, <2>2 DEF InHand, Serving
  <2>5. cpc[c] # "prompt"
    BY <1>3 DEF InStep, AtPrompt
  <2>6. ASSUME cpc[c] = "sendEdges" PROVE AtEdges(c)'
    <3>1. toServer[c] = <<RequestMessage(c)>> /\ toClient[c] = << >>
      BY <1>1, <1>3, <2>6 DEF InStep, AtEdges, Gone
    <3>2. Tail(toServer[c]) = << >> /\ Head(toServer[c]).n = requests[c]
      BY <3>1 DEF RequestMessage
    <3> QED BY <1>0, <2>1, <3>1, <3>2 DEF AtEdges
  <2>7. ASSUME cpc[c] = "receive" PROVE AtResponse(c)'
    <3>1. toServer[c] = <<RequestMessage(c), EdgesMessage(c)>> /\ toClient[c] = << >>
      BY <1>1, <1>3, <2>7 DEF InStep, AtResponse, Gone
    <3>2. Tail(toServer[c]) = <<EdgesMessage(c)>> /\ Head(toServer[c]).n = requests[c]
      BY <3>1 DEF RequestMessage
    <3> QED BY <1>0, <2>1, <3>1, <3>2 DEF AtResponse, EdgesMessage
  <2> QED BY <1>0, <2>3, <2>4, <2>5, <2>6, <2>7 DEF InStep
<1>4. ASSUME wpc[c] = "recvEdges", toServer[c] # << >> PROVE InStep(c)'
  <2>1. /\ toServer'[c] = Tail(toServer[c]) /\ wpc'[c] = "process"
        /\ inHand'[c] = <<inHand[c][1], Head(toServer[c]).n>>
        /\ heard'[c] = heard[c] \cup {inHand'[c]}
    BY <1>0, <1>4 DEF WorkerReceive, ReceiveTCP, ServerTypeOK, LinkTypeOK
  <2>2. /\ Head(toServer[c]).n \in 1 .. requests[c]
        /\ \A i \in DOMAIN Tail(toServer[c]) : Tail(toServer[c])[i].n \in 1 .. requests[c]
    BY <1>1, <1>4, QueueTail DEF InHand
  <2>3. Ends(c)'
    BY <1>0, <1>1, <2>1 DEF Ends, Working, WorkerStates
  <2>4. InHand(c)'
    BY <1>0, <1>1, <1>4, <2>1, <2>2 DEF InHand, Serving
  <2>5. cpc[c] \notin {"prompt", "sendEdges"}
    BY <1>1, <1>4 DEF InStep, AtPrompt, AtEdges, Gone, Serving
  <2>6. ASSUME cpc[c] = "receive" PROVE AtResponse(c)'
    <3>1. /\ toServer[c] = <<EdgesMessage(c)>> /\ toClient[c] = << >>
          /\ inHand[c][1] = requests[c]
      BY <1>1, <1>4, <2>6 DEF InStep, AtResponse, Gone, Serving
    <3>2. Tail(toServer[c]) = << >> /\ Head(toServer[c]).n = requests[c]
      BY <3>1 DEF EdgesMessage
    <3>3. inHand'[c] = Both(c)' /\ toServer'[c] = << >>
      BY <1>0, <2>1, <3>1, <3>2 DEF Both
    <3> QED BY <1>0, <2>1, <3>1, <3>3 DEF AtResponse
  <2> QED BY <1>0, <2>3, <2>4, <2>5, <2>6 DEF InStep
<1> QED BY <1>1, <1>2, <1>3, <1>4

LEMMA InStepWorker ==
    ASSUME TypeOK, NEW c \in Clients, InStep(c), WorkerStep(c), ~ ProcessEnds("killed"),
           UNCHANGED clientVars
    PROVE  InStep(c)'
<1>0. /\ LinkTypeOK /\ ServerTypeOK /\ ClientTypeOK /\ Ends(c) /\ InHand(c)
      /\ UNCHANGED <<cpc, requests, answered>>
  BY DEF TypeOK, clientVars, InStep
<1>1. CASE WorkerLoop(c) \/ WorkerLog(c)
  <2>1. /\ UNCHANGED <<linkVars, exchanged>>
        /\ \/ wpc[c] = "loop" /\ wpc'[c] = "recvRequest"
           \/ wpc[c] = "loop" /\ wpc'[c] = "close"
           \/ wpc[c] = "log" /\ wpc'[c] = "done"
    BY <1>0, <1>1 DEF WorkerLoop, WorkerLog, ServerTypeOK
  <2>2. UNCHANGED <<conn, up, toServer, toClient, inHand, heard, served>>
    BY <2>1 DEF linkVars, exchanged
  <2>3. Ends(c)' /\ InHand(c)'
    BY <1>0, <2>1, <2>2 DEF Ends, InHand, Serving, Working, WorkerStates
  <2>4. AtPrompt(c) => AtPrompt(c)'
    BY <1>0, <2>1, <2>2 DEF AtPrompt, Both, Serving
  <2>5. AtEdges(c) => AtEdges(c)'
    BY <1>0, <2>1, <2>2 DEF AtEdges, Gone, RequestMessage
  <2>6. ASSUME AtResponse(c) PROVE AtResponse(c)'
    <3>1. CASE wpc'[c] = "recvRequest"
      BY <1>0, <2>1, <2>2, <2>6, <3>1
         DEF AtResponse, Gone, Both, RequestMessage, EdgesMessage, Serving
    <3>2. CASE wpc'[c] \in {"close", "done"}
      <4>1. Len(toClient[c]) < 2 \/ /\ Both(c) \in served[c] /\ toServer[c] = << >>
                                    /\ Len(toClient[c]) = 2 /\ toClient[c][2].of = Both(c)
        BY <2>1, <2>6 DEF AtResponse, Serving
      <4> QED BY <1>0, <2>2, <3>2, <4>1 DEF AtResponse, Gone, Both, Serving
    <3> QED BY <2>1, <3>1, <3>2
  <2> QED BY <1>0, <2>3, <2>4, <2>5, <2>6 DEF InStep
<1>2. CASE WorkerReceive(c)
  BY <1>2, InStepReceive
<1>3. CASE WorkerProcess(c)
  <2>1. /\ UNCHANGED <<linkVars, exchanged>> /\ wpc[c] = "process" /\ wpc'[c] = "sendHeader"
    BY <1>0, <1>3 DEF WorkerProcess, ServerTypeOK
  <2> QED BY <1>0, <2>1 DEF InStep, Ends, InHand, AtPrompt, AtEdges, AtResponse, Gone, Both,
             RequestMessage, EdgesMessage, linkVars, exchanged, Serving, Working, WorkerStates
<1>4. CASE WorkerSendHeader(c)
  <2>1. /\ UNCHANGED <<conn, up, toServer, inHand, heard, served>> /\ wpc[c] = "sendHeader"
        /\ \/ /\ wpc'[c] = "sendBody"
              /\ toClient'[c] = IF up[c] THEN Append(toClient[c], PieceOf(c, "header"))
                                         ELSE toClient[c]
           \/ ~ up[c] /\ wpc'[c] = "close" /\ UNCHANGED toClient
    BY <1>0, <1>4 DEF WorkerSendHeader, Deliver, FirstOutcome, Outcome, exchanged, ServerTypeOK,
                      LinkTypeOK
  <2>2. conn[c] = "accepted" /\ wpc'[c] # "none" /\ cpc[c] \notin {"prompt", "sendEdges"}
    BY <1>0, <2>1 DEF InStep, Ends, AtPrompt, AtEdges, Gone, Serving, Working, WorkerStates
  <2>3. Ends(c)' /\ InHand(c)'
    BY <1>0, <2>1, <2>2 DEF Ends, InHand, Serving, Working, WorkerStates
  <2>4. ASSUME cpc[c] = "receive" PROVE AtResponse(c)'
    <3>1. /\ inHand[c] = Both(c) /\ toServer[c] = << >> /\ toClient[c] = << >>
      BY <2>1, <2>2, <2>4 DEF InStep, AtResponse, Gone, Serving
    <3>2. up[c]
      BY <1>0, <2>4 DEF Ends, Connected
    <3>3. wpc'[c] = "sendBody" /\ toClient'[c] = <<PieceOf(c, "header")>>
      BY <2>1, <3>1, <3>2
    <3>4. Len(toClient'[c]) = 1
      BY <3>3
    <3> QED BY <1>0, <2>1, <3>1, <3>3, <3>4 DEF AtResponse, Both
  <2> QED BY <1>0, <2>2, <2>3, <2>4 DEF InStep
<1>5. CASE WorkerSendBody(c)
  <2>1. /\ UNCHANGED <<conn, up, toServer, inHand, heard>> /\ wpc[c] = "sendBody"
        /\ \/ /\ wpc'[c] = "loop" /\ served'[c] = served[c] \cup {inHand[c]}
              /\ toClient'[c] = IF up[c] THEN Append(toClient[c], PieceOf(c, "body"))
                                         ELSE toClient[c]
           \/ ~ up[c] /\ wpc'[c] = "close" /\ UNCHANGED <<toClient, served>>
    BY <1>0, <1>5 DEF WorkerSendBody, Deliver, Outcome, exchanged, ServerTypeOK, LinkTypeOK
  <2>2. conn[c] = "accepted" /\ wpc'[c] # "none" /\ cpc[c] \notin {"prompt", "sendEdges"}
    BY <1>0, <2>1 DEF InStep, Ends, AtPrompt, AtEdges, Gone, Serving, Working, WorkerStates
  <2>3. Ends(c)' /\ InHand(c)'
    BY <1>0, <2>1, <2>2 DEF Ends, InHand, Serving, Working, WorkerStates
  <2>4. ASSUME cpc[c] = "receive" PROVE AtResponse(c)'
    <3>1. /\ inHand[c] = Both(c) /\ toServer[c] = << >> /\ Len(toClient[c]) = 1
          /\ toClient[c] \in Seq(Piece)
      BY <1>0, <2>1, <2>2, <2>4 DEF InStep, AtResponse, Gone, Serving, LinkTypeOK
    <3>2. up[c]
      BY <1>0, <2>4 DEF Ends, Connected
    <3>3. /\ wpc'[c] = "loop" /\ toClient'[c] = Append(toClient[c], PieceOf(c, "body"))
          /\ served'[c] = served[c] \cup {inHand[c]}
      BY <2>1, <3>2
    <3>4. PieceOf(c, "body") \in Piece
      BY <1>0 DEF PieceOf, Piece, ServerTypeOK
    <3>5. Len(toClient'[c]) = 2 /\ toClient'[c][2] = PieceOf(c, "body")
      BY <3>1, <3>3, <3>4, AppendProperties
    <3>6. toClient'[c][2].of = Both(c)
      BY <3>1, <3>5 DEF PieceOf
    <3> QED BY <1>0, <2>1, <3>1, <3>3, <3>5, <3>6 DEF AtResponse, Both, Serving
  <2> QED BY <1>0, <2>2, <2>3, <2>4 DEF InStep
<1>6. CASE WorkerClose(c)
  <2>1. /\ UNCHANGED <<up[c], toServer[c], toClient[c], inHand[c], heard[c], served[c]>>
        /\ wpc[c] = "close" /\ wpc'[c] = "log" /\ conn'[c] = "closed"
    BY <1>0, <1>6 DEF WorkerClose, exchanged, ServerTypeOK, LinkTypeOK
  <2>2. conn[c] # "none"
    BY <1>0, <2>1 DEF Ends
  <2>3. wpc'[c] \in {"none", "log", "done", "cut"}
    BY <2>1
  <2> QED BY <2>1, <2>2, <2>3, InStepClosed
<1> QED BY <1>1, <1>2, <1>3, <1>4, <1>5, <1>6 DEF WorkerStep

LEMMA WorkerFrame ==
    ASSUME TypeOK, NEW c \in Clients, WorkerStep(c), ~ ProcessEnds("killed"),
           UNCHANGED clientVars
    PROVE  /\ UNCHANGED <<mpc, accepted>>
           /\ \A d \in Clients : d # c => UNCHANGED LocalState(d)
BY DEF TypeOK, LinkTypeOK, ServerTypeOK, clientVars, linkVars, exchanged, LocalState, WorkerStep,
       WorkerLoop, WorkerReceive, ReceiveTCP, WorkerProcess, WorkerSendHeader, WorkerSendBody,
       WorkerClose, WorkerLog, Deliver

LEMMA StepInvStep == StepInv /\ [Next]_vars => StepInv'
<1> SUFFICES ASSUME StepInv, [Next]_vars PROVE Fresh' /\ \A d \in Clients : InStep(d)'
  BY TypeStep DEF StepInv
<1>0. TypeOK /\ Fresh /\ \A d \in Clients : InStep(d)
  BY DEF StepInv
<1>1. ASSUME NEW c \in Clients, ClientStep(c) \/ UserStep(c), UNCHANGED serverVars
      PROVE  Fresh' /\ \A d \in Clients : InStep(d)'
  <2>1. InStep(c)'
    BY <1>0, <1>1, InStepClient
  <2>2. ASSUME NEW d \in Clients, d # c PROVE InStep(d)'
    BY <1>0, <1>1, <2>2, ClientFrame, InStepFrame
  <2>3. Fresh'
    <3>1. UNCHANGED <<mpc, accepted, wpc>>
      BY <1>1 DEF serverVars
    <3>2. SUFFICES ASSUME mpc \in {"logging", "spawn"}, NEW d \in Clients, d \in accepted
                   PROVE  conn'[d] = "accepted"
      BY <1>0, <3>1 DEF Fresh, TypeOK, ServerTypeOK
    <3>3. conn[d] = "accepted" /\ wpc[d] = "none"
      BY <1>0, <3>2 DEF Fresh
    <3>4. cpc[d] # "start"
      BY <1>0, <3>3 DEF InStep, Ends
    <3>5. conn'[d] = conn[d]
      BY <1>0, <1>1, <3>4 DEF TypeOK, LinkTypeOK, ClientStep, UserStep, SendEdgesData,
         ReceiveResponse, Connect, SendRequestData, Exit, Kill
    <3> QED BY <3>3, <3>5
  <2> QED BY <2>1, <2>2, <2>3
<1>2. ASSUME NEW c \in Clients, WorkerStep(c), UNCHANGED clientVars
      PROVE  Fresh' /\ \A d \in Clients : InStep(d)'
  <2>1. CASE ProcessEnds("killed")
    <3>1. wpc'[c] = "cut"
      BY <1>2, <2>1 DEF ProcessEnds, WorkerStep, WorkerLoop, WorkerReceive, WorkerProcess,
         WorkerSendHeader, WorkerSendBody, WorkerClose, WorkerLog, Working, WorkerStates
    <3>2. UNCHANGED <<up, toServer, toClient, exchanged>>
      BY <1>0, <1>2, <3>1 DEF TypeOK, ServerTypeOK, WorkerStep, WorkerLoop, WorkerReceive,
         ReceiveTCP, WorkerProcess, WorkerSendHeader, WorkerSendBody, WorkerClose, WorkerLog
    <3> QED BY <1>0, <1>2, <2>1, <3>2, InStepProcessEnds
  <2>2. CASE ~ ProcessEnds("killed")
    <3>1. InStep(c)'
      BY <1>0, <1>2, <2>2, InStepWorker
    <3>2. /\ UNCHANGED <<mpc, accepted>>
          /\ \A d \in Clients : d # c => UNCHANGED LocalState(d)
      BY <1>0, <1>2, <2>2, WorkerFrame
    <3>3. \A d \in Clients : InStep(d)'
      BY <1>0, <3>1, <3>2, InStepFrame
    <3>4. Fresh'
      <4>1. wpc[c] # "none"
        BY <1>2 DEF WorkerStep, WorkerLoop, WorkerReceive, WorkerProcess, WorkerSendHeader,
                    WorkerSendBody, WorkerClose, WorkerLog
      <4>2. \A d \in Clients : d # c => conn'[d] = conn[d] /\ wpc'[d] = wpc[d]
        BY <3>2 DEF LocalState
      <4>3. accepted \subseteq Clients
        BY <1>0 DEF TypeOK, ServerTypeOK
      <4> QED BY <1>0, <3>2, <4>1, <4>2, <4>3 DEF Fresh
    <3> QED BY <3>3, <3>4
  <2> QED BY <2>1, <2>2
<1>3. CASE (MainStep \/ Signal) /\ UNCHANGED clientVars
  BY <1>3, InStepMain
<1>4. CASE UNCHANGED vars
  <2>1. \A d \in Clients : UNCHANGED LocalState(d)
    BY <1>4 DEF vars, linkVars, clientVars, serverVars, exchanged, LocalState
  <2>2. Fresh'
    BY <1>0, <1>4 DEF vars, linkVars, serverVars, Fresh
  <2> QED BY <1>0, <2>1, <2>2, InStepFrame
<1> QED BY <1>1, <1>2, <1>3, <1>4 DEF Next

LEMMA StepInvCorrect == Spec => []StepInv
BY InStepInit, StepInvStep, PTL DEF Spec

(* Wherever the signals strike and whoever dies: whenever a client waits    *)
(* for its user no message of its is under way, in either direction, nor in *)
(* the hands of its worker.                                                 *)
THEOREM ServiceStaysInStep == Spec => []RequestResponseInStep
<1>1. StepInv => RequestResponseInStep
  BY DEF StepInv, InStep, AtPrompt, Serving, RequestResponseInStep
<1> QED BY <1>1, StepInvCorrect, PTL

-----------------------------------------------------------------------------
(***************************************************************************)
(* The service implements RequestReply.                                    *)
(***************************************************************************)
LEMMA PromiseInit == Init => Promise!Init
BY DEF Init, LinkInit, ClientInit, ServerInit, NoAnswer, Promise!Init, Phase, Whole

LEMMA WholeAdd ==
    ASSUME NEW pairs, NEW x \in 1 .. MaxRequests, NEW y \in 1 .. MaxRequests
    PROVE  Whole(pairs \cup {<<x, y>>}) = IF x = y THEN Whole(pairs) \cup {x} ELSE Whole(pairs)
BY DEF Whole

(* A client that ended before its first request lacks no answer.           *)
LEMMA PromiseClientStep ==
    ASSUME StepInv, NEW c \in Clients, ClientStep(c) \/ UserStep(c), UNCHANGED serverVars
    PROVE  [Promise!Next]_(Promise!vars)
<1>0. /\ LinkTypeOK /\ ClientTypeOK /\ ServerTypeOK /\ InStep(c) /\ MaxRequests \in Nat
      /\ UNCHANGED <<heard, served>>
  BY TCPClientAssumption DEF StepInv, TypeOK, serverVars, exchanged
<1> DEFINE phases  == [d \in Clients |-> Phase(d)]
           hold(d) == IF answered[d][1] = answered[d][2] THEN answered[d][1] ELSE Mixture
           answers == [d \in Clients |-> hold(d)]
<1>1. ASSUME NEW d \in Clients, d # c PROVE Phase(d)' = Phase(d) /\ hold(d)' = hold(d)
  <2>1. UNCHANGED <<cpc[d], requests[d], answered[d]>>
    BY <1>1, ClientFrame DEF LocalState, StepInv
  <2> QED BY <2>1 DEF Phase, Answered, Mixture
<1>2. ASSUME NEW p, Phase(c)' = p PROVE phases' = [phases EXCEPT ![c] = p]
  BY <1>1, <1>2, Zenon
<1>3. ASSUME NEW n, hold(c)' = n PROVE answers' = [answers EXCEPT ![c] = n]
  BY <1>1, <1>3, Zenon
<1>4. ASSUME hold(c)' = hold(c) PROVE answers' = answers
  BY <1>1, <1>4, Zenon
<1>5. ASSUME Phase(c)' = Phase(c) PROVE phases' = phases
  BY <1>1, <1>5, Zenon
<1>6. CASE Connect(c, Listening)
  <2>1. /\ UNCHANGED <<requests, answered>> /\ requests[c] = 0 /\ answered[c] = <<0, 0>>
        /\ cpc[c] = "start" /\ cpc'[c] \in {"prompt", "failed"}
    BY <1>0, <1>6 DEF Connect, InStep, Ends, NoAnswer, ClientTypeOK
  <2>2. answers' = answers /\ Phase(c) = "idle"
    BY <2>1 DEF Mixture, Phase
  <2>3. CASE cpc'[c] = "prompt"
    <3>1. phases' = phases
      BY <1>5, <2>1, <2>2, <2>3 DEF Phase
    <3> QED BY <1>0, <2>1, <2>2, <3>1 DEF Promise!vars
  <2>4. CASE cpc'[c] = "failed"
    <3>1. Phase(c)' = "exited"
      BY <2>1, <2>4 DEF Phase, Answered
    <3>2. phases' = [phases EXCEPT ![c] = "exited"]
      BY <1>2, <3>1
    <3>3. Promise!Leave(c)
      BY <1>0, <2>1, <2>2, <3>2 DEF Promise!Leave
    <3> QED BY <3>3 DEF Promise!Next
  <2> QED BY <2>1, <2>3, <2>4
<1>7. CASE SendRequestData(c)
  <2>1. /\ requests' = [requests EXCEPT ![c] = @ + 1] /\ requests[c] < MaxRequests
        /\ answered'[c] = <<0, 0>> /\ cpc[c] = "prompt"
        /\ cpc'[c] \in {"sendEdges", "failed", "killed"}
    <3>1. SendTCP(c, "request", "sendEdges") /\ TypeOK
      BY <1>7 DEF SendRequestData, StepInv
    <3> QED BY <1>0, <1>7, <3>1, SendCases DEF SendRequestData, NoAnswer, ClientTypeOK
  <2>2. hold(c)' = 0
    BY <2>1
  <2>3. answers' = [answers EXCEPT ![c] = 0]
    BY <1>3, <2>2
  <2>4. Phase(c) = "idle" /\ Phase(c)' \in {"pending", "failed"}
    BY <1>0, <2>1 DEF Phase, Answered, ClientTypeOK
  <2>5. \E p \in {"pending", "failed"} : phases' = [phases EXCEPT ![c] = p]
    BY <1>2, <2>4
  <2>6. Promise!Ask(c)
    BY <1>0, <2>1, <2>3, <2>4, <2>5 DEF Promise!Ask
  <2> QED BY <2>6 DEF Promise!Next
<1>8. ASSUME cpc[c] \in {"sendEdges", "receive"}, cpc'[c] \in {"failed", "killed"},
             UNCHANGED <<requests, answered>>
      PROVE  [Promise!Next]_(Promise!vars)
  <2>1. requests[c] # 0 /\ answered[c] = <<0, 0>>
    BY <1>0, <1>8 DEF InStep, NoAnswer
  <2>2. Phase(c) = "pending" /\ Phase(c)' = "failed"
    BY <1>8, <2>1 DEF Phase, Answered
  <2>3. phases' = [phases EXCEPT ![c] = "failed"]
    BY <1>2, <2>2
  <2>4. Promise!GiveUp(c)
    BY <1>0, <1>8, <2>2, <2>3 DEF Promise!GiveUp
  <2> QED BY <2>4 DEF Promise!Next
<1>9. CASE SendEdgesData(c)
  <2>1. /\ UNCHANGED <<requests, answered>> /\ cpc[c] = "sendEdges"
        /\ cpc'[c] \in {"receive", "failed", "killed"}
    <3>1. SendTCP(c, "edges", "receive") /\ TypeOK
      BY <1>9 DEF SendEdgesData, StepInv
    <3> QED BY <1>9, <3>1, SendCases DEF SendEdgesData
  <2>2. CASE cpc'[c] = "receive"
    <3>1. phases' = phases
      BY <1>5, <2>1, <2>2 DEF Phase
    <3> QED BY <1>0, <2>1, <3>1 DEF Promise!vars
  <2> QED BY <1>8, <2>1, <2>2
<1>10. CASE ReceiveResponse(c)
  <2>1. UNCHANGED requests /\ cpc[c] = "receive" /\ AtResponse(c)
    BY <1>0, <1>10 DEF ReceiveResponse, InStep
  <2>2. CASE cpc'[c] = "failed" /\ UNCHANGED answered
    BY <1>8, <2>1, <2>2
  <2>3. CASE ~ (cpc'[c] = "failed" /\ UNCHANGED answered)
    <3>1. cpc'[c] = "prompt" /\ InStep(c)'
      <4>1. InStep(c)'
        BY InStepClient DEF StepInv
      <4> QED BY <1>0, <1>10, <2>3, <4>1 DEF ReceiveResponse, End, ClientTypeOK
    <3>2. answered'[c] = <<requests[c], requests[c]>> /\ hold(c)' = requests[c]
      BY <2>1, <3>1 DEF InStep, AtPrompt, Both
    <3>3. answers' = [answers EXCEPT ![c] = requests[c]]
      BY <1>3, <3>2
    <3>4. Phase(c) = "pending" /\ Phase(c)' = "idle"
      BY <2>1, <3>1 DEF Phase
    <3>5. phases' = [phases EXCEPT ![c] = "idle"]
      BY <1>2, <3>4
    <3>6. requests[c] \in 1 .. MaxRequests
      BY <1>0, <2>1 DEF ClientTypeOK, InStep
    <3>7. ~ Len(toClient[c]) < 2 /\ Len(toClient[c]) # 1 /\ toClient[c] # << >>
      <4>1. Len(toClient[c]) >= 2 /\ toClient[c] \in Seq(Piece)
        BY <1>0, <1>10, <2>3 DEF ReceiveResponse, End, ClientTypeOK, LinkTypeOK
      <4>2. Len(toClient[c]) \in Nat /\ (toClient[c] = << >> => Len(toClient[c]) = 0)
        BY <4>1, LenProperties
      <4>3. \A n \in Nat : n >= 2 => ~ n < 2 /\ n # 1 /\ n # 0
        OBVIOUS
      <4> QED BY <4>1, <4>2, <4>3, Zenon
    <3>8. Both(c) \in served[c]
      BY <2>1, <3>7, Zenon DEF AtResponse
    <3>9. requests[c] \in Whole(served[c])
      BY <3>6, <3>8 DEF Whole, Both
    <3>10. Promise!Answer(c)
      BY <1>0, <2>1, <3>3, <3>4, <3>5, <3>9 DEF Promise!Answer
    <3> QED BY <3>10 DEF Promise!Next
  <2> QED BY <2>2, <2>3
<1>11. CASE Exit(c) \/ Kill(c)
  <2>1. /\ UNCHANGED <<requests, answered>> /\ cpc[c] \in Connected
        /\ cpc'[c] \in {"exited", "killed"}
        /\ cpc'[c] = "exited" => cpc[c] = "prompt"
    BY <1>0, <1>11 DEF Exit, Kill, End, ClientTypeOK, Connected
  <2>2. CASE cpc[c] = "prompt"
    <3>1. Answered(c)
      BY <1>0, <2>2 DEF InStep, AtPrompt, Both, Answered
    <3>2. Phase(c) = "idle" /\ Phase(c)' = "exited"
      BY <2>1, <2>2, <3>1 DEF Phase, Answered
    <3>3. phases' = [phases EXCEPT ![c] = "exited"]
      BY <1>2, <3>2
    <3>4. Promise!Leave(c)
      BY <1>0, <2>1, <3>2, <3>3 DEF Promise!Leave
    <3> QED BY <3>4 DEF Promise!Next
  <2> QED BY <1>8, <2>1, <2>2 DEF Connected
<1> QED BY <1>6, <1>7, <1>9, <1>10, <1>11 DEF ClientStep, UserStep

LEMMA PromiseWorkerStep ==
    ASSUME StepInv, NEW c \in Clients, WorkerStep(c), UNCHANGED clientVars
    PROVE  [Promise!Next]_(Promise!vars)
<1>0. /\ TypeOK /\ ServerTypeOK /\ LinkTypeOK /\ ClientTypeOK /\ Ends(c) /\ InHand(c)
      /\ MaxRequests \in Nat /\ requests[c] \in 0 .. MaxRequests
      /\ UNCHANGED <<cpc, requests, answered>>
  BY TCPClientAssumption DEF StepInv, TypeOK, ClientTypeOK, InStep, clientVars
<1>1. /\ [d \in Clients |-> Phase(d)]' = [d \in Clients |-> Phase(d)]
      /\ \A d \in Clients : Phase(d)' = Phase(d)
  BY <1>0 DEF Phase, Answered
<1>2. ASSUME UNCHANGED <<heard, served>> PROVE [Promise!Next]_(Promise!vars)
  BY <1>0, <1>1, <1>2 DEF Promise!vars
<1>3. CASE WorkerReceive(c)
  <2>1. CASE UNCHANGED heard
    BY <1>2, <1>3, <2>1 DEF WorkerReceive
  <2>2. CASE ~ UNCHANGED heard
    <3>1. /\ served' = served /\ wpc[c] = "recvEdges" /\ toServer[c] # << >>
          /\ heard' = [heard EXCEPT ![c] = @ \cup {<<inHand[c][1], Head(toServer[c]).n>>}]
      BY <1>0, <1>3, <2>2 DEF WorkerReceive, ReceiveTCP, ServerTypeOK
    <3> DEFINE x == inHand[c][1]
               y == Head(toServer[c]).n
    <3>2. toServer[c] \in Seq(Message) /\ requests[c] \in Nat
      BY <1>0 DEF LinkTypeOK
    <3>3. x \in 1 .. requests[c] /\ y \in 1 .. requests[c]
      BY <1>0, <3>1, <3>2, QueueTail DEF InHand, Serving
    <3>4. x \in 1 .. MaxRequests /\ y \in 1 .. MaxRequests
      BY <1>0, <3>3
    <3> HIDE DEF x, y
    <3>5. Whole(heard'[c]) = IF x = y THEN Whole(heard[c]) \cup {x} ELSE Whole(heard[c])
      <4>1. heard'[c] = heard[c] \cup {<<x, y>>}
        BY <1>0, <3>1 DEF ServerTypeOK, x, y
      <4>2. Whole(heard[c] \cup {<<x, y>>}) =
                IF x = y THEN Whole(heard[c]) \cup {x} ELSE Whole(heard[c])
        BY <3>4, WholeAdd
      <4> QED BY <4>1, <4>2, Zenon
    <3>6. \A d \in Clients : d # c => heard'[d] = heard[d]
      BY <1>0, <3>1 DEF ServerTypeOK
    <3>7. CASE x = y
      <4>1. [d \in Clients |-> Whole(heard[d])]' =
                [[d \in Clients |-> Whole(heard[d])] EXCEPT ![c] = @ \cup {x}]
        BY <3>5, <3>6, <3>7
      <4>2. Promise!Hear(c)
        BY <1>0, <1>1, <3>1, <3>3, <4>1 DEF Promise!Hear
      <4> QED BY <4>2 DEF Promise!Next
    <3>8. CASE x # y
      <4>1. [d \in Clients |-> Whole(heard[d])]' = [d \in Clients |-> Whole(heard[d])]
        BY <3>5, <3>6, <3>8
      <4> QED BY <1>0, <1>1, <3>1, <4>1 DEF Promise!vars
    <3> QED BY <3>7, <3>8
  <2> QED BY <2>1, <2>2
<1>4. CASE WorkerSendBody(c)
  <2>1. CASE UNCHANGED served
    BY <1>2, <1>4, <2>1 DEF WorkerSendBody, exchanged
  <2>2. CASE ~ UNCHANGED served
    <3>1. /\ heard' = heard /\ wpc[c] = "sendBody"
          /\ served' = [served EXCEPT ![c] = @ \cup {inHand[c]}]
      BY <1>4, <2>2 DEF WorkerSendBody, exchanged
    <3>2. /\ inHand[c] \in heard[c] /\ inHand[c][1] \in 1 .. MaxRequests
          /\ inHand[c] = <<inHand[c][1], inHand[c][2]>>
      BY <1>0, <3>1 DEF InHand, Serving, ServerTypeOK
    <3>3. CASE inHand[c][1] = inHand[c][2]
      <4> DEFINE x == inHand[c][1]
      <4>1. x \in Whole(heard[c])
        BY <3>2, <3>3 DEF Whole
      <4>2. \A d \in Clients : Whole(served[d])' =
                IF d = c THEN Whole(served[c]) \cup {x} ELSE Whole(served[d])
        BY <1>0, <3>1, <3>2, <3>3 DEF ServerTypeOK, Whole
      <4>3. [d \in Clients |-> Whole(served[d])]' =
                [[d \in Clients |-> Whole(served[d])] EXCEPT ![c] = @ \cup {x}]
        BY <4>2
      <4> HIDE DEF x
      <4>4. Promise!Serve(c)
        BY <1>0, <1>1, <3>1, <4>1, <4>3 DEF Promise!Serve
      <4> QED BY <4>4 DEF Promise!Next
    <3>4. CASE inHand[c][1] # inHand[c][2]
      <4>1. \A d \in Clients : Whole(served[d])' = Whole(served[d])
        BY <1>0, <3>1, <3>2, <3>4 DEF ServerTypeOK, Whole
      <4> QED BY <1>0, <1>1, <3>1, <4>1 DEF Promise!vars
    <3> QED BY <3>3, <3>4
  <2> QED BY <2>1, <2>2
<1>5. CASE WorkerLoop(c) \/ WorkerProcess(c) \/ WorkerSendHeader(c) \/ WorkerClose(c)
           \/ WorkerLog(c)
  BY <1>2, <1>5 DEF WorkerLoop, WorkerProcess, WorkerSendHeader, WorkerClose, WorkerLog, exchanged
<1> QED BY <1>3, <1>4, <1>5 DEF WorkerStep

LEMMA PromiseStep ==
    ASSUME StepInv, [Next]_vars
    PROVE  [Promise!Next]_(Promise!vars)
<1>1. ASSUME UNCHANGED <<clientVars, exchanged>> PROVE [Promise!Next]_(Promise!vars)
  BY <1>1 DEF clientVars, exchanged, Promise!vars, Phase, Answered
<1>2. CASE (MainStep \/ Signal) /\ UNCHANGED clientVars
  <2>1. UNCHANGED exchanged
    BY <1>2 DEF MainStep, Accept, LogConnected, SpawnWorker, RegisterWorker, Stop, Joined, Signal
  <2> QED BY <1>1, <1>2, <2>1
<1>3. CASE UNCHANGED vars
  BY <1>1, <1>3 DEF vars, serverVars
<1> QED BY <1>2, <1>3, PromiseClientStep, PromiseWorkerStep DEF Next

(* For any number of clients, wherever the signals strike and whoever dies: *)
(* the TCP service implements RequestReply, as the UDP exchange does. Each  *)
(* request is ended by the answer computed from its own vertices and edges, *)
(* after the server received them, or by an error that ends the client.     *)
THEOREM ServiceKeepsPromise == Spec => KeepsPromise
<1>1. StepInv /\ [Next]_vars => [Promise!Next]_(Promise!vars)
  BY PromiseStep
<1> QED BY <1>1, StepInvCorrect, PromiseInit, PTL DEF Spec, KeepsPromise, Promise!Spec
=============================================================================
