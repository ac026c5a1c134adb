-------------------------- MODULE ServerProcessProofs --------------------------
(***************************************************************************)
(* Theorems about ServerProcess, for any number of workers, any signals    *)
(* and any number of them.                                                 *)
(*                                                                         *)
(* Steps reduces every action to what it does to one stack, place by       *)
(* place: the top place becomes another one (Gotos), becomes another one   *)
(* with a called function above it (Calls), is left (Returns), or gets a   *)
(* signal handler above it.  What the invariants need of the mutexes and   *)
(* of isRunning follows from the old and the new place.                    *)
(***************************************************************************)
EXTENDS ServerProcess, SequenceTheorems, FiniteSetTheorems, TLAPS

Gotos ==
    { <<"log", "write">>, <<"arguments", "socket">>, <<"socket", "bind">>,
      <<"bind", "started">>, <<"unbound", "failed">>, <<"register", "accept">>, <<"loop", "recv">>, <<"loop", "close">>, <<"recv", "close">>,
      <<"receive", "activity">>, <<"activity", "updating">>, <<"updating", "timeouts">>,
      <<"timeouts", "expiring">>, <<"expiring", "receive">>, <<"stopFlag", "stopClose">>,
      <<"stopClose", "join">>, <<"join", "clear">>, <<"clear", "clearing">> }

(* From a place, to come back to another one, to a function.               *)
Calls ==
    { <<"arguments", "end", "log">>, <<"socket", "failed", "log">>,
      <<"socket", "bind", "log">>, <<"bind", "unbound", "log">>, <<"failed", "return", "log">>, <<"started", "accept", "log">>,
      <<"started", "wait", "log">>, <<"return", "end", "stop">>, <<"accept", "spawn", "log">>,
      <<"accept", "accept", "log">>, <<"spawn", "return", "log">>, <<"recv", "loop", "log">>,
      <<"recv", "close", "log">>, <<"close", "finish", "log">>, <<"wait", "receive", "log">>,
      <<"updating", "timeouts", "log">>, <<"expiring", "expiring", "log">>,
      <<"handler", "handlerStop", "log">>, <<"handlerStop", "handlerExit", "stop">>,
      <<"stop", "stopFlag", "log">> }

Returns == {"write", "finish", "stop", "clearing"}

(* The places in which a thread holds clientsMutex.                        *)
Holding == {"updating", "expiring", "clearing"}

OneGone == \E c \in Workers : client' = [client EXCEPT ![c] = "gone"]

(* What a step from one place to another does to the worker threads.       *)
ThreadsEffect(old, new) ==
    /\ old \notin {"accept", "register", "join", "close"} =>
           UNCHANGED <<accepted, client, clientThreads>>
    /\ old = "close" => OneGone /\ UNCHANGED <<accepted, clientThreads>>
    /\ old = "accept" =>
           /\ UNCHANGED clientThreads
           /\ \/ new = "accept" /\ UNCHANGED <<accepted, client>>
              \/ \E c \in Workers : /\ client[c] = "new" /\ new = "spawn"
                                   /\ client' = [client EXCEPT ![c] = "connected"]
                                   /\ accepted' = {c}
    /\ old = "register" =>
           /\ clientThreads' = clientThreads \o SetToSeq(accepted)
           /\ accepted' = {} /\ UNCHANGED client
    /\ old = "join" =>
           /\ \A i \in DOMAIN clientThreads : Done(clientThreads[i])
           /\ clientThreads' = << >> /\ UNCHANGED <<accepted, client>>

(* What it does besides.                                                   *)
Effect(t, old, new) ==
    /\ logMutex' = IF new = "write" THEN t ELSE IF old = "write" THEN Nobody ELSE logMutex
    /\ new = "write" => logMutex = Nobody
    /\ clientsMutex' = IF new = old THEN clientsMutex
                       ELSE IF new \in Holding THEN t
                       ELSE IF old \in Holding THEN Nobody ELSE clientsMutex
    /\ new \in Holding \ {old} => clientsMutex = Nobody
    /\ isRunning' = IF old = "started" THEN TRUE ELSE IF old = "stopFlag" THEN FALSE ELSE isRunning
    /\ old = "stop" => (isRunning <=> new = "stopFlag")
    /\ UNCHANGED handling
    /\ ThreadsEffect(old, new)

(* The stack of t, of height k, with the top place p, and what follows it.  *)
Height(t, k, p) == DOMAIN stack[t] = 1 .. k /\ stack[t][k] = p
Keeps(t, k)     == \A i \in 1 .. k : stack'[t][i] = stack[t][i]
Others(t)       == \A u \in Threads \ {t} : stack'[u] = stack[u]

GotoStep(t, k, old, new) ==
    /\ Height(t, k, old) /\ Keeps(t, k - 1) /\ Others(t)
    /\ DOMAIN stack'[t] = 1 .. k /\ stack'[t][k] = new
    /\ Effect(t, old, new)

CallStep(t, k, old, new, callee) ==
    /\ Height(t, k, old) /\ Keeps(t, k - 1) /\ Others(t)
    /\ DOMAIN stack'[t] = 1 .. k + 1 /\ stack'[t][k] = new /\ stack'[t][k + 1] = callee
    /\ Effect(t, old, new)

ReturnStep(t, k, old) ==
    /\ Height(t, k, old) /\ Keeps(t, k - 1) /\ Others(t)
    /\ DOMAIN stack'[t] = 1 .. k - 1
    /\ Effect(t, old, "none")

SignalStep(t, k, s) ==
    /\ DOMAIN stack[t] = 1 .. k /\ Keeps(t, k) /\ Others(t)
    /\ DOMAIN stack'[t] = 1 .. k + 1 /\ stack'[t][k + 1] = "handler"
    /\ t # Main => s \in handling[Main]
    /\ handling' = [handling EXCEPT ![t] = @ \cup {s}]
    /\ UNCHANGED <<logMutex, clientsMutex, isRunning, accepted, client, clientThreads>>

SpawnStep ==
    /\ stack[Main] # << >> /\ Last(stack[Main]) = "spawn"
    /\ stack' = [t \in Threads |-> IF t = Main THEN <<"register">>
                                   ELSE IF t \in accepted THEN <<"loop">> ELSE stack[t]]
    /\ UNCHANGED <<logMutex, clientsMutex, isRunning, handling, accepted, client, clientThreads>>

(* A client leaves, or the process ends.                                   *)
QuietStep ==
    /\ UNCHANGED client \/ OneGone
    /\ UNCHANGED <<stack, logMutex, clientsMutex, isRunning, handling, accepted, clientThreads>>

Heights == Nat \ {0}

Steps ==
    \/ \E t \in Threads, k \in Heights, m \in Gotos : GotoStep(t, k, m[1], m[2])
    \/ \E t \in Threads, k \in Heights, m \in Calls : CallStep(t, k, m[1], m[2], m[3])
    \/ \E t \in Threads, k \in Heights, old \in Returns : ReturnStep(t, k, old)
    \/ \E t \in Threads, k \in Heights, s \in Signals : SignalStep(t, k, s)
    \/ SpawnStep
    \/ QuietStep

-----------------------------------------------------------------------------
(***************************************************************************)
(* Stacks.                                                                 *)
(***************************************************************************)
(* s, of height k, and what the operations on stacks make of it.           *)
StackFacts(s, k, p, q) ==
    /\ DOMAIN s = 1 .. k /\ Last(s) = s[k]
    /\ DOMAIN Append(Front(s), p) = 1 .. k /\ Append(Front(s), p)[k] = p
    /\ DOMAIN (Front(s) \o <<p, q>>) = 1 .. k + 1
    /\ (Front(s) \o <<p, q>>)[k] = p /\ (Front(s) \o <<p, q>>)[k + 1] = q
    /\ DOMAIN Front(s) = 1 .. k - 1
    /\ DOMAIN Append(s, p) = 1 .. k + 1 /\ Append(s, p)[k + 1] = p
    /\ \A i \in 1 .. k - 1 : /\ Append(Front(s), p)[i] = s[i]
                            /\ (Front(s) \o <<p, q>>)[i] = s[i]
                            /\ Front(s)[i] = s[i]
    /\ \A i \in 1 .. k : Append(s, p)[i] = s[i]

(* They make stacks of places.                                             *)
LEMMA StackTypes ==
    ASSUME NEW s \in Seq(Places), s # << >>, NEW p \in Places, NEW q \in Places
    PROVE  /\ Front(s) \in Seq(Places)
           /\ Append(Front(s), p) \in Seq(Places)
           /\ Front(s) \o <<p, q>> \in Seq(Places)
           /\ Append(s, p) \in Seq(Places)
<1>1. Len(s) \in Nat \ {0}
  BY EmptySeq, LenProperties
<1>2. \A i \in 1 .. Len(s) - 1 : s[i] \in Places
  BY <1>1, ElementOfSeq
<1>3. Front(s) \in Seq(Places)
  BY <1>1, <1>2, SubSeqProperties DEF Front
<1>4. <<p, q>> \in Seq(Places)
  OBVIOUS
<1> QED BY <1>3, <1>4, AppendProperties, ConcatProperties

LEMMA StackOperations ==
    ASSUME NEW s \in Seq(Places), s # << >>, NEW p, NEW q
    PROVE  \E k \in Heights : StackFacts(s, k, p, q)
<1> DEFINE k == Len(s)
           S == Places \cup {p, q}
<1>1. k \in Heights /\ DOMAIN s = 1 .. k /\ s \in Seq(S)
  BY EmptySeq, LenProperties DEF Heights
<1>2. /\ Front(s) \in Seq(S) /\ Len(Front(s)) = k - 1
      /\ \A i \in 1 .. k - 1 : Front(s)[i] = s[i]
  BY <1>1, SubSeqProperties DEF Front, Heights
<1>3. DOMAIN Front(s) = 1 .. k - 1
  BY <1>2, LenProperties
<1>4. /\ DOMAIN Append(Front(s), p) = 1 .. k /\ Append(Front(s), p)[k] = p
      /\ \A i \in 1 .. k - 1 : Append(Front(s), p)[i] = s[i]
  <2> DEFINE f == Front(s)
  <2>1. f \in Seq(S) /\ Len(f) = k - 1 /\ p \in S
    BY <1>2
  <2> HIDE DEF f
  <2>2. /\ Append(f, p) \in Seq(S) /\ Len(Append(f, p)) = Len(f) + 1
        /\ \A i \in 1 .. Len(f) : Append(f, p)[i] = f[i]
        /\ Append(f, p)[Len(f) + 1] = p
    BY <2>1, AppendProperties
  <2>3. DOMAIN Append(f, p) = 1 .. k /\ Append(f, p)[k] = p
    <3>1. Len(f) + 1 = k
      BY <1>1, <2>1 DEF Heights
    <3>2. DOMAIN Append(f, p) = 1 .. Len(Append(f, p))
      BY <2>2, LenProperties
    <3> QED BY <2>2, <3>1, <3>2
  <2>4. \A i \in 1 .. k - 1 : Append(f, p)[i] = f[i]
    BY <2>1, <2>2
  <2> QED BY <1>2, <2>3, <2>4 DEF f
<1>5. /\ DOMAIN (Front(s) \o <<p, q>>) = 1 .. k + 1
      /\ (Front(s) \o <<p, q>>)[k] = p /\ (Front(s) \o <<p, q>>)[k + 1] = q
      /\ \A i \in 1 .. k - 1 : (Front(s) \o <<p, q>>)[i] = s[i]
  <2>1. <<p, q>> \in Seq(S) /\ Len(<<p, q>>) = 2
    OBVIOUS
  <2> QED BY <1>1, <1>2, <2>1, ConcatProperties DEF Heights
<1>6. /\ DOMAIN Append(s, p) = 1 .. k + 1 /\ Append(s, p)[k + 1] = p
      /\ \A i \in 1 .. k : Append(s, p)[i] = s[i]
  BY <1>1, AppendProperties
<1>7. Last(s) = s[k]
  BY DEF Last
<1>8. /\ \A i \in 1 .. k - 1 : /\ Append(Front(s), p)[i] = s[i]
                              /\ (Front(s) \o <<p, q>>)[i] = s[i]
                              /\ Front(s)[i] = s[i]
  BY <1>2, <1>4, <1>5, Zenon
<1> HIDE DEF k
<1>9. StackFacts(s, k, p, q)
  BY <1>1, <1>3, <1>4, <1>5, <1>6, <1>7, <1>8, Zenon DEF StackFacts
<1> QED BY <1>1, <1>9

StackType == stack \in [Threads -> Seq(Places)]

Goes(t, old, new)          == At(t, old) /\ Goto(t, new) /\ Effect(t, old, new)
CallsTo(t, old, new, call) == At(t, old) /\ Call(t, call, new) /\ Effect(t, old, new)
Comes(t, old)              == At(t, old) /\ Return(t) /\ Effect(t, old, "none")

LEMMA GotoIsStep ==
    ASSUME StackType, NEW t \in Threads, NEW old, NEW new, <<old, new>> \in Gotos,
           Goes(t, old, new)
    PROVE  Steps /\ StackType'
<1> DEFINE s == stack[t]
<1>1. s \in Seq(Places) /\ s # << >> /\ Last(s) = old
  BY DEF StackType, Goes, At
<1>2. stack'[t] = Append(Front(s), new) /\ Others(t)
  BY DEF StackType, Goes, Goto, Others
<1> HIDE DEF s
<1>3. PICK k \in Heights : StackFacts(s, k, new, new)
  BY <1>1, StackOperations
<1>4. GotoStep(t, k, old, new)
  BY <1>1, <1>2, <1>3 DEF StackFacts, GotoStep, Height, Keeps, Goes, s
<1>5. \E m \in Gotos : GotoStep(t, k, m[1], m[2])
  <2> WITNESS <<old, new>> \in Gotos
  <2> QED BY <1>4
<1>6. new \in Places
  BY DEF Gotos, Places, StartPlaces, TCPPlaces, UDPPlaces, WorkerPlaces, HandlerPlaces,
     StopPlaces, LogPlaces
<1>7. StackType'
  BY <1>1, <1>6, StackTypes DEF StackType, Goes, Goto, s
<1> QED BY <1>5, <1>7 DEF Steps

LEMMA CallIsStep ==
    ASSUME StackType, NEW t \in Threads, NEW old, NEW new, NEW callee,
           <<old, new, callee>> \in Calls, CallsTo(t, old, new, callee)
    PROVE  Steps /\ StackType'
<1> DEFINE s == stack[t]
<1>1. s \in Seq(Places) /\ s # << >> /\ Last(s) = old
  BY DEF StackType, CallsTo, At
<1>2. stack'[t] = Front(s) \o <<new, callee>> /\ Others(t)
  BY DEF StackType, CallsTo, Call, Others
<1> HIDE DEF s
<1>3. PICK k \in Heights : StackFacts(s, k, new, callee)
  BY <1>1, StackOperations
<1>4. CallStep(t, k, old, new, callee)
  BY <1>1, <1>2, <1>3 DEF StackFacts, CallStep, Height, Keeps, CallsTo, s
<1>5. \E m \in Calls : CallStep(t, k, m[1], m[2], m[3])
  <2> WITNESS <<old, new, callee>> \in Calls
  <2> QED BY <1>4
<1>6. new \in Places /\ callee \in Places
  BY DEF Calls, Places, StartPlaces, TCPPlaces, UDPPlaces, WorkerPlaces, HandlerPlaces,
     StopPlaces, LogPlaces
<1>7. StackType'
  BY <1>1, <1>6, StackTypes DEF StackType, CallsTo, Call, s
<1> QED BY <1>5, <1>7 DEF Steps

LEMMA ReturnIsStep ==
    ASSUME StackType, NEW t \in Threads, NEW old \in Returns, Comes(t, old)
    PROVE  Steps /\ StackType'
<1> DEFINE s == stack[t]
<1>1. s \in Seq(Places) /\ s # << >> /\ Last(s) = old
  BY DEF StackType, Comes, At
<1>2. stack'[t] = Front(s) /\ Others(t)
  BY DEF StackType, Comes, Return, Others
<1> HIDE DEF s
<1>3. PICK k \in Heights : StackFacts(s, k, old, old)
  BY <1>1, StackOperations
<1>4. ReturnStep(t, k, old)
  BY <1>1, <1>2, <1>3 DEF StackFacts, ReturnStep, Height, Keeps, Comes, s
<1>5. old \in Places
  BY DEF Returns, Places, StartPlaces, TCPPlaces, UDPPlaces, WorkerPlaces, HandlerPlaces,
     StopPlaces, LogPlaces
<1>6. StackType'
  BY <1>1, <1>5, StackTypes DEF StackType, Comes, Return, s
<1> QED BY <1>4, <1>6 DEF Steps

LEMMA SignalIsStep ==
    ASSUME StackType, NEW t \in Threads, NEW g \in Signals, Signal(t, g)
    PROVE  Steps /\ StackType'
<1> DEFINE s == stack[t]
<1>1. s \in Seq(Places) /\ s # << >>
  BY DEF StackType, Signal, Takes
<1>2. stack'[t] = Append(s, "handler") /\ Others(t)
  BY DEF StackType, Signal, Others
<1> HIDE DEF s
<1>3. PICK k \in Heights : StackFacts(s, k, "handler", "handler")
  BY <1>1, StackOperations
<1>4. Keeps(t, k) /\ DOMAIN stack[t] = 1 .. k
      /\ DOMAIN stack'[t] = 1 .. k + 1 /\ stack'[t][k + 1] = "handler"
  BY <1>2, <1>3 DEF StackFacts, Keeps, s
<1>5. SignalStep(t, k, g)
  BY <1>2, <1>4 DEF SignalStep, Signal, Takes, state
<1>6. "handler" \in Places
  BY DEF Places, HandlerPlaces
<1>7. StackType'
  BY <1>1, <1>6, StackTypes DEF StackType, Signal, s
<1> QED BY <1>5, <1>7 DEF Steps

(* Every action takes one of the steps.                                    *)
LEMMA MainTakesStep ==
    ASSUME StackType, MainStep \/ Accept \/ Receive
    PROVE  Steps /\ StackType'
<1> Main \in Threads
  BY DEF Threads
<1> USE DEF Effect, ThreadsEffect, Holding, state, rest
<1>1. CASE CheckArguments
  <2>1. \/ Goes(Main, "arguments", "socket")
        \/ CallsTo(Main, "arguments", "end", "log")
    BY <1>1 DEF CheckArguments, CallsTo, Goes
  <2>2. /\ <<"arguments", "socket">> \in Gotos
        /\ <<"arguments", "end", "log">> \in Calls
    BY DEF Calls, Gotos
  <2> QED BY <2>1, <2>2, CallIsStep, GotoIsStep
<1>2. CASE CreateSocket
  <2>1. \/ Goes(Main, "socket", "bind")
        \/ CallsTo(Main, "socket", "bind", "log")
        \/ CallsTo(Main, "socket", "failed", "log")
    BY <1>2 DEF CreateSocket, CallsTo, Goes
  <2>2. /\ <<"socket", "bind">> \in Gotos
        /\ <<"socket", "bind", "log">> \in Calls
        /\ <<"socket", "failed", "log">> \in Calls
    BY DEF Calls, Gotos
  <2> QED BY <2>1, <2>2, CallIsStep, GotoIsStep
<1>16. CASE BindSocket
  <2>1. \/ Goes(Main, "bind", "started")
        \/ CallsTo(Main, "bind", "unbound", "log")
        \/ Goes(Main, "unbound", "failed")
    BY <1>16 DEF BindSocket, CallsTo, Goes
  <2>2. /\ <<"bind", "started">> \in Gotos
        /\ <<"bind", "unbound", "log">> \in Calls
        /\ <<"unbound", "failed">> \in Gotos
    BY DEF Calls, Gotos
  <2> QED BY <2>1, <2>2, CallIsStep, GotoIsStep
<1>3. CASE StartFailed
  <2>1. CallsTo(Main, "failed", "return", "log") /\ <<"failed", "return", "log">> \in Calls
    BY <1>3 DEF StartFailed, CallsTo, Calls
  <2> QED BY <2>1, CallIsStep
<1>4. CASE Started
  <2>1. \/ CallsTo(Main, "started", "accept", "log")
        \/ CallsTo(Main, "started", "wait", "log")
    BY <1>4 DEF Started, Run, CallsTo
  <2>2. /\ <<"started", "accept", "log">> \in Calls
        /\ <<"started", "wait", "log">> \in Calls
    BY DEF Calls
  <2> QED BY <2>1, <2>2, CallIsStep
<1>5. CASE ReturnFromMain /\ Ends("exited")
  BY <1>5 DEF ReturnFromMain, Ends, Steps, QuietStep, StackType
<1>6. CASE ReturnFromMain /\ ~ Ends("exited")
  <2>1. CallsTo(Main, "return", "end", "stop") /\ <<"return", "end", "stop">> \in Calls
    BY <1>6 DEF ReturnFromMain, CallsTo, Calls
  <2> QED BY <2>1, CallIsStep
<1>7. CASE Spawn /\ Call(Main, "log", "return")
  <2>1. CallsTo(Main, "spawn", "return", "log") /\ <<"spawn", "return", "log">> \in Calls
    BY <1>7 DEF Spawn, CallsTo, Calls
  <2> QED BY <2>1, CallIsStep
<1>8. CASE Spawn /\ ~ Call(Main, "log", "return")
  <2>1. Steps
    BY <1>8 DEF Spawn, Steps, SpawnStep, At
  <2>2. <<"register">> \in Seq(Places) /\ <<"loop">> \in Seq(Places)
    BY DEF Places, TCPPlaces, WorkerPlaces
  <2>3. StackType'
    BY <1>8, <2>2 DEF Spawn, StackType
  <2> QED BY <2>1, <2>3
<1>9. CASE Register
  <2>1. Goes(Main, "register", "accept") /\ <<"register", "accept">> \in Gotos
    BY <1>9 DEF Register, Goes, Gotos
  <2> QED BY <2>1, GotoIsStep
<1>10. CASE Wait
  <2>1. CallsTo(Main, "wait", "receive", "log") /\ <<"wait", "receive", "log">> \in Calls
    BY <1>10 DEF Wait, CallsTo, Calls
  <2> QED BY <2>1, CallIsStep
<1>11. CASE UpdateClientActivity
  <2>1. Goes(Main, "activity", "updating") /\ <<"activity", "updating">> \in Gotos
    BY <1>11 DEF UpdateClientActivity, LockClients, Goes, Gotos
  <2> QED BY <2>1, GotoIsStep
<1>12. CASE HandlePacket
  <2>1. \/ CallsTo(Main, "updating", "timeouts", "log")
        \/ Goes(Main, "updating", "timeouts")
    BY <1>12 DEF HandlePacket, CallsTo, Goes
  <2>2. /\ <<"updating", "timeouts", "log">> \in Calls
        /\ <<"updating", "timeouts">> \in Gotos
    BY DEF Calls, Gotos
  <2> QED BY <2>1, <2>2, CallIsStep, GotoIsStep
<1>13. CASE CheckClientTimeouts
  <2>1. \/ Goes(Main, "timeouts", "expiring")
        \/ CallsTo(Main, "expiring", "expiring", "log")
        \/ Goes(Main, "expiring", "receive")
    BY <1>13 DEF CheckClientTimeouts, LockClients, CallsTo, Goes
  <2>2. /\ <<"timeouts", "expiring">> \in Gotos
        /\ <<"expiring", "expiring", "log">> \in Calls
        /\ <<"expiring", "receive">> \in Gotos
    BY DEF Calls, Gotos
  <2> QED BY <2>1, <2>2, CallIsStep, GotoIsStep
<1>14. CASE Accept
  <2>1. \/ CallsTo(Main, "accept", "spawn", "log")
        \/ CallsTo(Main, "accept", "accept", "log")
    BY <1>14 DEF Accept, CallsTo
  <2>2. /\ <<"accept", "spawn", "log">> \in Calls
        /\ <<"accept", "accept", "log">> \in Calls
    BY DEF Calls
  <2> QED BY <2>1, <2>2, CallIsStep
<1>15. CASE Receive
  <2>1. Goes(Main, "receive", "activity") /\ <<"receive", "activity">> \in Gotos
    BY <1>15 DEF Receive, Goes, Gotos
  <2> QED BY <2>1, GotoIsStep
<1> QED BY <1>1, <1>2, <1>3, <1>4, <1>5, <1>6, <1>7, <1>8, <1>9, <1>10, <1>11, <1>12, <1>13, <1>14, <1>15,
           <1>16 DEF MainStep

LEMMA ThreadTakesStep ==
    ASSUME StackType, NEW t \in Threads, StepOf(t)
    PROVE  Steps /\ StackType'
<1> USE DEF Effect, ThreadsEffect, Holding, state, rest
<1>1. CASE LockLog(t)
  <2>1. Goes(t, "log", "write") /\ <<"log", "write">> \in Gotos
    BY <1>1 DEF LockLog, Goes, Gotos
  <2> QED BY <2>1, GotoIsStep
<1>2. CASE UnlockLog(t)
  <2>1. Comes(t, "write") /\ "write" \in Returns
    BY <1>2 DEF UnlockLog, Comes, Returns
  <2> QED BY <2>1, ReturnIsStep
<1>3. CASE Handler(t) /\ Ends("exited")
  BY <1>3 DEF Handler, Ends, Steps, QuietStep, StackType
<1>4. CASE Handler(t) /\ ~ Ends("exited")
  <2>1. \/ CallsTo(t, "handler", "handlerStop", "log")
        \/ CallsTo(t, "handlerStop", "handlerExit", "stop")
    BY <1>4 DEF Handler, CallsTo
  <2>2. /\ <<"handler", "handlerStop", "log">> \in Calls
        /\ <<"handlerStop", "handlerExit", "stop">> \in Calls
    BY DEF Calls
  <2> QED BY <2>1, <2>2, CallIsStep
<1>5. CASE Stop(t)
  <2>1. \/ CallsTo(t, "stop", "stopFlag", "log")
        \/ Comes(t, "stop")
    BY <1>5 DEF Stop, CallsTo, Comes
  <2>2. /\ <<"stop", "stopFlag", "log">> \in Calls
        /\ "stop" \in Returns
    BY DEF Calls, Returns
  <2> QED BY <2>1, <2>2, CallIsStep, ReturnIsStep
<1>6. CASE StopFlag(t)
  <2>1. Goes(t, "stopFlag", "stopClose") /\ <<"stopFlag", "stopClose">> \in Gotos
    BY <1>6 DEF StopFlag, Goes, Gotos
  <2> QED BY <2>1, GotoIsStep
<1>7. CASE StopClose(t)
  <2>1. Goes(t, "stopClose", "join") /\ <<"stopClose", "join">> \in Gotos
    BY <1>7 DEF StopClose, Goes, Gotos
  <2> QED BY <2>1, GotoIsStep
<1>8. CASE Join(t) /\ Ends("aborted")
  BY <1>8 DEF Join, At, Ends, Steps, QuietStep, StackType
<1>9. CASE Join(t) /\ ~ Ends("aborted")
  <2>1. Goes(t, "join", "clear") /\ <<"join", "clear">> \in Gotos
    BY <1>9 DEF Join, Goes, Gotos
  <2> QED BY <2>1, GotoIsStep
<1>10. CASE ClearClients(t)
  <2>1. \/ Goes(t, "clear", "clearing")
        \/ Comes(t, "clearing")
    BY <1>10 DEF ClearClients, Comes, Goes
  <2>2. /\ <<"clear", "clearing">> \in Gotos
        /\ "clearing" \in Returns
    BY DEF Gotos, Returns
  <2> QED BY <2>1, <2>2, GotoIsStep, ReturnIsStep
<1> QED BY <1>1, <1>2, <1>3, <1>4, <1>5, <1>6, <1>7, <1>8, <1>9, <1>10 DEF StepOf

LEMMA NextTakesStep ==
    ASSUME StackType, [Next]_vars
    PROVE  Steps /\ StackType'
<1> USE DEF Effect, ThreadsEffect, Holding, state, rest
<1>1. CASE MainStep \/ Accept \/ Receive
  BY <1>1, MainTakesStep
<1>2. CASE \E t \in Threads : StepOf(t)
  BY <1>2, ThreadTakesStep
<1>3. ASSUME NEW c \in Workers, WorkerStep(c) \/ WorkerAnswers(c) \/ WorkerBreaks(c)
      PROVE  Steps /\ StackType'
  <2> c \in Threads
    BY DEF Threads
  <2>1. CASE WorkerLoop(c)
    <3>1. \/ Goes(c, "loop", "recv")
          \/ Goes(c, "loop", "close")
      BY <2>1 DEF WorkerLoop, Goes
    <3>2. /\ <<"loop", "recv">> \in Gotos
          /\ <<"loop", "close">> \in Gotos
      BY DEF Gotos
    <3> QED BY <3>1, <3>2, GotoIsStep
  <2>2. CASE WorkerAnswers(c)
    <3>1. CallsTo(c, "recv", "loop", "log") /\ <<"recv", "loop", "log">> \in Calls
      BY <2>2 DEF WorkerAnswers, CallsTo, Calls
    <3> QED BY <3>1, CallIsStep
  <2>3. CASE WorkerEnds(c)
    <3>1. \/ Goes(c, "recv", "close")
          \/ CallsTo(c, "close", "finish", "log")
          \/ Comes(c, "finish")
      BY <2>3 DEF WorkerEnds, CallsTo, Comes, Goes, OneGone
    <3>2. /\ <<"recv", "close">> \in Gotos
          /\ <<"close", "finish", "log">> \in Calls
          /\ "finish" \in Returns
      BY DEF Calls, Gotos, Returns
    <3> QED BY <3>1, <3>2, CallIsStep, GotoIsStep, ReturnIsStep
  <2>4. CASE WorkerBreaks(c)
    <3>1. \/ Goes(c, "recv", "close")
          \/ CallsTo(c, "recv", "close", "log")
      BY <2>4 DEF WorkerBreaks, CallsTo, Goes
    <3>2. /\ <<"recv", "close">> \in Gotos
          /\ <<"recv", "close", "log">> \in Calls
      BY DEF Calls, Gotos
    <3> QED BY <3>1, <3>2, CallIsStep, GotoIsStep
  <2> QED BY <1>3, <2>1, <2>2, <2>3, <2>4 DEF WorkerStep
<1>4. ASSUME NEW c \in Workers, Leave(c) PROVE Steps /\ StackType'
  BY <1>4 DEF Leave, Steps, QuietStep, OneGone, StackType
<1>5. ASSUME NEW t \in Threads, NEW g \in Signals, Signal(t, g) PROVE Steps /\ StackType'
  BY <1>5, SignalIsStep
<1>6. CASE UNCHANGED vars
  BY <1>6 DEF vars, Steps, QuietStep, StackType
<1> QED BY <1>1, <1>2, <1>3, <1>4, <1>5, <1>6 DEF Next, Input

-----------------------------------------------------------------------------
(***************************************************************************)
(* The shape of a stack: the function the thread was started with, and     *)
(* above it only handlers, stop() and the log.                             *)
(***************************************************************************)
Upper     == HandlerPlaces \cup StopPlaces \cup LogPlaces
Bottom(t) == IF t = Main THEN StartPlaces \cup TCPPlaces \cup UDPPlaces ELSE WorkerPlaces

Shape ==
    /\ 1 \in DOMAIN stack[Main]
    /\ \A t \in Threads : \A i \in DOMAIN stack[t] :
          stack[t][i] \in IF i = 1 THEN Bottom(t) ELSE Upper

LEMMA Domains ==
    ASSUME NEW s \in [Threads -> Seq(Places)]
    PROVE  \A t \in Threads : /\ DOMAIN s[t] \subseteq Heights
                             /\ s[t] = << >> <=> 1 \notin DOMAIN s[t]
                             /\ \A i \in DOMAIN s[t] : 1 .. i \subseteq DOMAIN s[t]
<1> SUFFICES ASSUME NEW t \in Threads
             PROVE  /\ DOMAIN s[t] \subseteq Heights
                    /\ s[t] = << >> <=> 1 \notin DOMAIN s[t]
                    /\ \A i \in DOMAIN s[t] : 1 .. i \subseteq DOMAIN s[t]
  OBVIOUS
<1>1. Len(s[t]) \in Nat /\ DOMAIN s[t] = 1 .. Len(s[t])
  BY LenProperties
<1>2. s[t] = << >> <=> Len(s[t]) = 0
  BY EmptySeq
<1> QED BY <1>1, <1>2 DEF Heights

LEMMA ShapeStep ==
    ASSUME Shape, Steps
    PROVE  Shape'
<1> USE ServerProcessAssumption
        DEF Shape, Height, Keeps, Others, Heights, Threads, Bottom, Upper, StartPlaces,
            TCPPlaces, UDPPlaces, WorkerPlaces, HandlerPlaces, StopPlaces, LogPlaces
<1>1. ASSUME NEW t \in Threads, NEW k \in Heights, NEW m \in Gotos,
             GotoStep(t, k, m[1], m[2])
      PROVE  Shape'
  <2>1. stack[t][k] = m[1] /\ stack'[t][k] = m[2] /\ k \in DOMAIN stack[t]
    BY <1>1 DEF GotoStep
  <2>2. m[1] \in (IF k = 1 THEN Bottom(t) ELSE Upper) => m[2] \in IF k = 1 THEN Bottom(t) ELSE Upper
    BY DEF Gotos
  <2> QED BY <1>1, <2>1, <2>2 DEF GotoStep
<1>2. ASSUME NEW t \in Threads, NEW k \in Heights, NEW m \in Calls,
             CallStep(t, k, m[1], m[2], m[3])
      PROVE  Shape'
  <2>1. stack[t][k] = m[1] /\ stack'[t][k] = m[2] /\ k \in DOMAIN stack[t]
    BY <1>2 DEF CallStep
  <2>2. /\ m[1] \in (IF k = 1 THEN Bottom(t) ELSE Upper) => m[2] \in IF k = 1 THEN Bottom(t) ELSE Upper
        /\ m[3] \in Upper
    BY DEF Calls
  <2> QED BY <1>2, <2>1, <2>2 DEF CallStep
<1>3. ASSUME NEW t \in Threads, NEW k \in Heights, NEW old \in Returns, ReturnStep(t, k, old)
      PROVE  Shape'
  <2>1. old \in (IF k = 1 THEN Bottom(t) ELSE Upper)
    BY <1>3 DEF ReturnStep
  <2>2. k = 1 => t # Main
    BY <2>1 DEF Returns
  <2> QED BY <1>3, <2>2 DEF ReturnStep
<1>4. ASSUME NEW t \in Threads, NEW k \in Heights, NEW s \in Signals, SignalStep(t, k, s)
      PROVE  Shape'
  BY <1>4 DEF SignalStep
<1>5. CASE SpawnStep
  BY <1>5 DEF SpawnStep
<1>6. CASE QuietStep
  BY <1>6 DEF QuietStep
<1> QED BY <1>1, <1>2, <1>3, <1>4, <1>5, <1>6 DEF Steps

-----------------------------------------------------------------------------
(***************************************************************************)
(* The worker threads: runTCP starts at most one for a connection, and     *)
(* puts it into clientThreads at its next step.                            *)
(***************************************************************************)
Starting == {"arguments", "socket", "bind", "unbound", "failed", "started"}
InThreads(c) == \E i \in DOMAIN clientThreads : clientThreads[i] = c

WorkersInv ==
    /\ \A c \in Workers : client[c] = "new" =>
           /\ stack[c] = << >>
           /\ c \notin accepted /\ ~ InThreads(c)
    /\ stack[Main][1] \in Starting => \A c \in Workers : stack[c] = << >>
    /\ stack[Main][1] = "spawn" => \A c \in accepted : stack[c] = << >>
    /\ stack[Main][1] \in {"spawn", "register"} => \A c \in accepted : ~ InThreads(c)
    /\ \A c \in Workers : stack[c] # << >> =>
           InThreads(c) \/ (c \in accepted /\ stack[Main][1] = "register")

WorkerTypes ==
    /\ accepted \subseteq Workers /\ Cardinality(accepted) <= 1
    /\ \A c, d \in accepted : c = d
    /\ client \in [Workers -> {"new", "connected", "gone"}]
    /\ clientThreads \in Seq(Workers) /\ IsInjective(clientThreads)

(* What a step may do to the bottom of the main thread's stack, and to an   *)
(* empty one.                                                              *)
LEMMA Bottoms ==
    ASSUME StackType, StackType', Shape, Steps, ~ SpawnStep
    PROVE  /\ \/ stack'[Main][1] = stack[Main][1]
              \/ \E m \in Gotos : /\ GotoStep(Main, 1, m[1], m[2])
                                 /\ stack[Main][1] = m[1] /\ stack'[Main][1] = m[2]
              \/ \E m \in Calls : /\ CallStep(Main, 1, m[1], m[2], m[3])
                                 /\ stack[Main][1] = m[1] /\ stack'[Main][1] = m[2]
           /\ \A c \in Workers : stack[c] = << >> => stack'[c] = << >>
<1>0. Main \in Threads /\ Main \notin Workers /\ Workers \subseteq Threads
  BY ServerProcessAssumption DEF Threads
<1>a. /\ \A t \in Threads : stack[t] = << >> <=> 1 \notin DOMAIN stack[t]
      /\ \A t \in Threads : stack'[t] = << >> <=> 1 \notin DOMAIN stack'[t]
  BY Domains DEF StackType
<1>1. ASSUME NEW t \in Threads, NEW k \in Heights, NEW m \in Gotos,
             GotoStep(t, k, m[1], m[2])
      PROVE  /\ stack'[Main][1] = stack[Main][1] \/ (t = Main /\ k = 1)
             /\ \A c \in Workers : stack[c] = << >> => stack'[c] = << >>
  <2>1. t # Main => stack'[Main][1] = stack[Main][1]
    BY <1>0, <1>1 DEF GotoStep, Others
  <2>2. t = Main /\ k # 1 => stack'[Main][1] = stack[Main][1]
    BY <1>1 DEF GotoStep, Keeps, Heights
  <2>3. ASSUME NEW c \in Workers, stack[c] = << >> PROVE stack'[c] = << >>
    <3>1. t # c
      BY <1>0, <1>a, <1>1, <2>3 DEF GotoStep, Height, Heights
    <3> QED BY <1>0, <1>1, <2>3, <3>1 DEF GotoStep, Others
  <2> QED BY <2>1, <2>2, <2>3
<1>2. ASSUME NEW t \in Threads, NEW k \in Heights, NEW m \in Calls,
             CallStep(t, k, m[1], m[2], m[3])
      PROVE  /\ stack'[Main][1] = stack[Main][1] \/ (t = Main /\ k = 1)
             /\ \A c \in Workers : stack[c] = << >> => stack'[c] = << >>
  <2>1. t # Main => stack'[Main][1] = stack[Main][1]
    BY <1>0, <1>2 DEF CallStep, Others
  <2>2. t = Main /\ k # 1 => stack'[Main][1] = stack[Main][1]
    BY <1>2 DEF CallStep, Keeps, Heights
  <2>3. ASSUME NEW c \in Workers, stack[c] = << >> PROVE stack'[c] = << >>
    <3>1. t # c
      BY <1>0, <1>a, <1>2, <2>3 DEF CallStep, Height, Heights
    <3> QED BY <1>0, <1>2, <2>3, <3>1 DEF CallStep, Others
  <2> QED BY <2>1, <2>2, <2>3
<1>3. ASSUME NEW t \in Threads, NEW k \in Heights, NEW old \in Returns, ReturnStep(t, k, old)
      PROVE  /\ stack'[Main][1] = stack[Main][1]
             /\ \A c \in Workers : stack[c] = << >> => stack'[c] = << >>
  <2>1. t = Main => k # 1
    BY <1>0, <1>3 DEF Shape, ReturnStep, Height, Returns, Bottom, StartPlaces, TCPPlaces, UDPPlaces,
       Heights
  <2> QED BY <1>0, <1>a, <1>3, <2>1 DEF ReturnStep, Height, Keeps, Others, Heights
<1>4. ASSUME NEW t \in Threads, NEW k \in Heights, NEW s \in Signals, SignalStep(t, k, s)
      PROVE  /\ stack'[Main][1] = stack[Main][1]
             /\ \A c \in Workers : stack[c] = << >> => stack'[c] = << >>
  BY <1>0, <1>a, <1>4 DEF SignalStep, Keeps, Others, Heights
<1>5. CASE QuietStep
  BY <1>5 DEF QuietStep
<1>6. ASSUME NEW t \in Threads, NEW k \in Heights, NEW m \in Gotos,
             GotoStep(t, k, m[1], m[2]), t = Main, k = 1
      PROVE  GotoStep(Main, 1, m[1], m[2]) /\ stack[Main][1] = m[1] /\ stack'[Main][1] = m[2]
  BY <1>6 DEF GotoStep, Height
<1>7. ASSUME NEW t \in Threads, NEW k \in Heights, NEW m \in Calls,
             CallStep(t, k, m[1], m[2], m[3]), t = Main, k = 1
      PROVE  CallStep(Main, 1, m[1], m[2], m[3]) /\ stack[Main][1] = m[1] /\ stack'[Main][1] = m[2]
  BY <1>7 DEF CallStep, Height
<1> QED BY <1>1, <1>2, <1>3, <1>4, <1>5, <1>6, <1>7, Zenon DEF Steps

(* A place that changes accepted or client is at the bottom of the main     *)
(* thread's stack.                                                         *)
LEMMA BottomPlaces ==
    ASSUME Shape, NEW t \in Threads, NEW k \in Heights, NEW old, Height(t, k, old),
           old \in {"accept", "register"}
    PROVE  t = Main /\ k = 1
BY DEF Shape, Height, Heights, Bottom, Upper, WorkerPlaces, HandlerPlaces, StopPlaces, LogPlaces

(* The sequence of one element, or of none.                                *)
LEMMA AppendAccepted ==
    ASSUME NEW S, S \subseteq Workers, Cardinality(S) <= 1, \A c, d \in S : c = d,
           NEW q \in Seq(Workers), IsInjective(q), \A i \in DOMAIN q : q[i] \notin S
    PROVE  LET r == q \o SetToSeq(S) IN
           /\ r \in Seq(Workers) /\ IsInjective(r)
           /\ \A c \in Workers :
                  (\E i \in DOMAIN r : r[i] = c) <=> ((\E i \in DOMAIN q : q[i] = c) \/ c \in S)
<1> DEFINE e == SetToSeq(S)
<1>1. CASE S = {}
  <2>1. \E f \in [1 .. 0 -> S] : IsInjective(f)
    <3>1. [i \in 1 .. 0 |-> i] \in [1 .. 0 -> S]
      OBVIOUS
    <3>2. IsInjective([i \in 1 .. 0 |-> i])
      BY DEF IsInjective
    <3> QED BY <3>1, <3>2
  <2>2. e \in [1 .. 0 -> S]
    BY <1>1, <2>1, FS_EmptySet DEF SetToSeq
  <2>3. e = << >>
    BY <1>1, <2>2
  <2>4. q \o e = q
    BY <2>3, ConcatEmptySeq
  <2> QED BY <1>1, <2>4
<1>2. CASE S # {}
  <2>1. PICK c \in Workers : S = {c}
    BY <1>2
  <2>2. Cardinality(S) = 1
    BY <2>1, FS_Singleton
  <2>3. \E f \in [1 .. 1 -> S] : IsInjective(f)
    <3>1. [i \in 1 .. 1 |-> c] \in [1 .. 1 -> S]
      BY <2>1
    <3>2. IsInjective([i \in 1 .. 1 |-> c])
      BY DEF IsInjective
    <3> QED BY <3>1, <3>2
  <2>4. e \in [1 .. 1 -> S]
    BY <2>2, <2>3 DEF SetToSeq
  <2>5. e = <<c>>
    <3>1. e[1] = c /\ DOMAIN e = 1 .. 1
      BY <2>1, <2>4
    <3>2. e = [i \in 1 .. 1 |-> c]
      BY <2>1, <2>4
    <3>3. <<c>> = [i \in 1 .. 1 |-> c]
      OBVIOUS
    <3> QED BY <3>2, <3>3
  <2>6. q \o e = Append(q, c)
    BY <2>5, AppendIsConcat
  <2>7. /\ Append(q, c) \in Seq(Workers) /\ Len(Append(q, c)) = Len(q) + 1
        /\ \A i \in 1 .. Len(q) : Append(q, c)[i] = q[i]
        /\ Append(q, c)[Len(q) + 1] = c
    BY AppendProperties
  <2>8. /\ DOMAIN Append(q, c) = 1 .. Len(q) + 1 /\ DOMAIN q = 1 .. Len(q) /\ Len(q) \in Nat
    BY <2>7, LenProperties
  <2> DEFINE r == Append(q, c)
  <2>9. IsInjective(r)
    <3>1. SUFFICES ASSUME NEW i \in DOMAIN r, NEW j \in DOMAIN r, r[i] = r[j] PROVE i = j
      BY DEF IsInjective
    <3> QED BY <2>1, <2>7, <2>8, <3>1 DEF IsInjective
  <2> HIDE DEF r, e
  <2>10. \A d \in Workers : (\E i \in DOMAIN r : r[i] = d)
                               <=> ((\E i \in DOMAIN q : q[i] = d) \/ d = c)
    BY <2>7, <2>8 DEF r
  <2> QED BY <2>1, <2>6, <2>7, <2>9, <2>10 DEF r, e
<1> QED BY <1>1, <1>2

(* What a step does to the worker threads, and where the main thread is.    *)
Base == stack[Main][1]

BaseKept ==
    /\ Base = "register" <=> Base' = "register"
    /\ Base' = "spawn" => Base = "spawn"
    /\ Base' \in Starting => Base \in Starting

AcceptsClient ==
    /\ Base' = "spawn" /\ UNCHANGED clientThreads
    /\ \E c \in Workers : /\ client[c] = "new"
                         /\ client' = [client EXCEPT ![c] = "connected"]
                         /\ accepted' = {c}

RegistersWorker ==
    /\ Base = "register" /\ Base' = "accept"
    /\ clientThreads' = clientThreads \o SetToSeq(accepted)
    /\ accepted' = {} /\ UNCHANGED client

ThreadsKept == (UNCHANGED client \/ OneGone) /\ UNCHANGED <<accepted, clientThreads>>

JoinsWorkers ==
    /\ BaseKept
    /\ \A i \in DOMAIN clientThreads : Done(clientThreads[i])
    /\ clientThreads' = << >> /\ UNCHANGED <<accepted, client>>

LEMMA ThreadCases ==
    ASSUME StackType, StackType', Shape, Steps, ~ SpawnStep, ~ QuietStep
    PROVE  \/ BaseKept /\ ThreadsKept
           \/ AcceptsClient
           \/ RegistersWorker
           \/ JoinsWorkers
<1> USE DEF Base, ThreadsKept
<1>0. Main \in Threads /\ 1 \in Heights
  BY DEF Threads, Heights
<1>1. ASSUME NEW m \in Gotos, GotoStep(Main, 1, m[1], m[2]),
             Base = m[1], Base' = m[2]
      PROVE  \/ BaseKept /\ ThreadsKept
             \/ RegistersWorker
             \/ JoinsWorkers
  <2>1. ThreadsEffect(m[1], m[2])
    BY <1>1 DEF GotoStep, Effect
  <2>2. CASE m = <<"register", "accept">>
    BY <1>1, <2>1, <2>2 DEF ThreadsEffect, RegistersWorker
  <2>3. CASE m # <<"register", "accept">>
    <3>1. BaseKept
      BY <1>1, <2>3 DEF BaseKept, Gotos, Starting
    <3>2. m[1] \notin {"accept", "register"}
      BY <2>3 DEF Gotos
    <3> QED BY <2>1, <3>1, <3>2 DEF ThreadsEffect, JoinsWorkers
  <2> QED BY <2>2, <2>3
<1>2. ASSUME NEW m \in Calls, CallStep(Main, 1, m[1], m[2], m[3]),
             Base = m[1], Base' = m[2]
      PROVE  \/ BaseKept /\ ThreadsKept
             \/ AcceptsClient
  <2>1. ThreadsEffect(m[1], m[2]) /\ m[1] \notin {"register", "join"}
    BY <1>2 DEF CallStep, Effect, Calls
  <2>2. CASE m[1] = "accept" /\ m[2] = "spawn"
    BY <1>2, <2>1, <2>2 DEF ThreadsEffect, AcceptsClient
  <2>3. CASE ~ (m[1] = "accept" /\ m[2] = "spawn")
    <3>1. BaseKept
      BY <1>2, <2>3 DEF BaseKept, Calls, Starting
    <3> QED BY <2>1, <2>3, <3>1 DEF ThreadsEffect
  <2> QED BY <2>2, <2>3
<1>3. ASSUME Base' = Base, NEW old, NEW new, ThreadsEffect(old, new),
             old \notin {"accept", "register"}
      PROVE  \/ BaseKept /\ ThreadsKept
             \/ JoinsWorkers
  BY <1>3 DEF BaseKept, ThreadsEffect, JoinsWorkers
<1>4. CASE Base' = Base
  <2>1. ASSUME NEW t \in Threads, NEW k \in Heights, NEW m \in Gotos,
               GotoStep(t, k, m[1], m[2])
        PROVE  \/ BaseKept /\ ThreadsKept
               \/ AcceptsClient
               \/ RegistersWorker
               \/ JoinsWorkers
    <3>1. Height(t, k, m[1]) /\ ThreadsEffect(m[1], m[2])
      BY <2>1 DEF GotoStep, Effect
    <3>2. CASE m[1] \in {"accept", "register"}
      <4>1. t = Main /\ k = 1
        BY <3>1, <3>2, BottomPlaces
      <4>2. Base = m[1] /\ Base' = m[2] /\ GotoStep(Main, 1, m[1], m[2])
        BY <2>1, <4>1 DEF GotoStep, Height
      <4> QED BY <1>1, <4>2
    <3> QED BY <1>3, <1>4, <3>1, <3>2
  <2>2. ASSUME NEW t \in Threads, NEW k \in Heights, NEW m \in Calls,
               CallStep(t, k, m[1], m[2], m[3])
        PROVE  \/ BaseKept /\ ThreadsKept
               \/ AcceptsClient
               \/ RegistersWorker
               \/ JoinsWorkers
    <3>1. Height(t, k, m[1]) /\ ThreadsEffect(m[1], m[2])
      BY <2>2 DEF CallStep, Effect
    <3>2. CASE m[1] \in {"accept", "register"}
      <4>1. t = Main /\ k = 1
        BY <3>1, <3>2, BottomPlaces
      <4>2. Base = m[1] /\ Base' = m[2] /\ CallStep(Main, 1, m[1], m[2], m[3])
        BY <2>2, <4>1 DEF CallStep, Height
      <4> QED BY <1>2, <4>2
    <3> QED BY <1>3, <1>4, <3>1, <3>2
  <2>3. ASSUME NEW t \in Threads, NEW k \in Heights, NEW old \in Returns, ReturnStep(t, k, old)
        PROVE  BaseKept /\ ThreadsKept
    BY <1>4, <2>3 DEF ReturnStep, Effect, ThreadsEffect, Returns, BaseKept
  <2>4. ASSUME NEW t \in Threads, NEW k \in Heights, NEW s \in Signals, SignalStep(t, k, s)
        PROVE  BaseKept /\ ThreadsKept
    BY <1>4, <2>4 DEF SignalStep, BaseKept
  <2> QED BY <2>1, <2>2, <2>3, <2>4, Zenon DEF Steps
<1>5. CASE Base' # Base
  BY <1>1, <1>2, <1>5, Bottoms
<1> QED BY <1>4, <1>5

(* A thread is started when nothing else is on the main thread's stack.    *)
LEMMA SpawnBottom ==
    ASSUME StackType, Shape, SpawnStep
    PROVE  Base = "spawn" /\ DOMAIN stack[Main] = 1 .. 1
<1>1. stack[Main] \in Seq(Places) /\ stack[Main] # << >>
  BY DEF SpawnStep, StackType, Threads
<1>2. DOMAIN stack[Main] = 1 .. Len(stack[Main]) /\ Len(stack[Main]) \in Nat \ {0}
  BY <1>1, EmptySeq, LenProperties
<1>3. stack[Main][Len(stack[Main])] = "spawn"
  BY DEF SpawnStep, Last
<1>4. Len(stack[Main]) = 1
  <2>1. Main \in Threads /\ Len(stack[Main]) \in DOMAIN stack[Main]
    BY <1>2 DEF Threads
  <2>2. "spawn" \in IF Len(stack[Main]) = 1 THEN Bottom(Main) ELSE Upper
    BY <1>3, <2>1 DEF Shape
  <2> QED BY <2>2 DEF Upper, HandlerPlaces, StopPlaces, LogPlaces
<1> QED BY <1>2, <1>3, <1>4 DEF Base

LEMMA WorkersStep ==
    ASSUME StackType, StackType', Shape, WorkersInv, WorkerTypes, Steps
    PROVE  WorkersInv' /\ WorkerTypes'
<1>0. Workers \subseteq Threads /\ Main \notin Workers
  BY ServerProcessAssumption DEF Threads
<1> USE DEF Base
<1>1. CASE SpawnStep
  <2>1. Base = "spawn"
    BY <1>1, SpawnBottom
  <2>2. Base' = "register" /\ \A c \in Workers : c \notin accepted => stack'[c] = stack[c]
    BY <1>0, <1>1 DEF SpawnStep, Threads
  <2>3. UNCHANGED <<accepted, client, clientThreads>>
    BY <1>1 DEF SpawnStep
  <2> QED BY <2>1, <2>2, <2>3 DEF WorkersInv, WorkerTypes, InThreads, Starting
<1>2. CASE QuietStep
  <2>1. UNCHANGED <<stack, accepted, clientThreads>>
    BY <1>2 DEF QuietStep
  <2>2. /\ client' \in [Workers -> {"new", "connected", "gone"}]
        /\ \A c \in Workers : client'[c] = "new" => client[c] = "new"
    BY <1>2 DEF QuietStep, OneGone, WorkerTypes
  <2> QED BY <2>1, <2>2 DEF WorkersInv, WorkerTypes, InThreads
<1>3. CASE ~ SpawnStep /\ ~ QuietStep
  <2>1. \A c \in Workers : stack[c] = << >> => stack'[c] = << >>
    BY <1>3, Bottoms
  <2>2. CASE BaseKept /\ ThreadsKept
    <3>1. /\ client' \in [Workers -> {"new", "connected", "gone"}]
          /\ \A c \in Workers : client'[c] = "new" => client[c] = "new"
      BY <2>2 DEF ThreadsKept, OneGone, WorkerTypes
    <3>2. UNCHANGED <<accepted, clientThreads>> /\ BaseKept
      BY <2>2 DEF ThreadsKept
    <3> QED BY <2>1, <3>1, <3>2 DEF BaseKept, WorkersInv, WorkerTypes, InThreads
  <2>3. CASE AcceptsClient
    <3>1. PICK a \in Workers : /\ client[a] = "new"
                              /\ client' = [client EXCEPT ![a] = "connected"]
                              /\ accepted' = {a}
      BY <2>3 DEF AcceptsClient
    <3>2. Base' = "spawn" /\ clientThreads' = clientThreads
      BY <2>3 DEF AcceptsClient
    <3>3. Cardinality(accepted') <= 1
      <4>1. Cardinality({a}) = 1
        BY FS_Singleton, Zenon
      <4> QED BY <3>1, <4>1
    <3>4. stack[a] = << >> /\ ~ InThreads(a)
      BY <3>1 DEF WorkersInv
    <3>5. \A c \in Workers : client'[c] = "new" => client[c] = "new" /\ c # a
      BY <3>1 DEF WorkerTypes
    <3>6. WorkerTypes'
      BY <3>1, <3>2, <3>3 DEF WorkerTypes
    <3>7. Base # "register"
      <4>1. CASE Base = Base'
        BY <3>2, <4>1
      <4>2. CASE Base # Base'
        <5>1. \/ \E m \in Gotos : Base = m[1] /\ Base' = m[2]
              \/ \E m \in Calls : Base = m[1] /\ Base' = m[2]
          BY <1>3, <4>2, Bottoms
        <5> QED BY <3>2, <5>1 DEF Gotos, Calls
      <4> QED BY <4>1, <4>2
    <3> QED BY <2>1, <3>1, <3>2, <3>4, <3>5, <3>6, <3>7 DEF WorkersInv, InThreads, Starting
  <2>4. CASE RegistersWorker
    <3>1. \A i \in DOMAIN clientThreads : clientThreads[i] \notin accepted
      BY <2>4 DEF RegistersWorker, WorkersInv, InThreads
    <3>2. /\ clientThreads' \in Seq(Workers) /\ IsInjective(clientThreads')
          /\ \A c \in Workers : InThreads(c)' <=> (InThreads(c) \/ c \in accepted)
      BY <2>4, <3>1, AppendAccepted DEF RegistersWorker, WorkerTypes, InThreads
    <3>3. accepted' = {} /\ client' = client /\ Base' = "accept" /\ Cardinality(accepted') = 0
      BY <2>4, FS_EmptySet DEF RegistersWorker
    <3>4. WorkerTypes'
      BY <3>2, <3>3 DEF WorkerTypes
    <3> QED BY <2>1, <3>2, <3>3, <3>4 DEF WorkersInv, Starting
  <2>5. CASE JoinsWorkers
    <3>1. clientThreads' = << >> /\ UNCHANGED <<accepted, client>> /\ BaseKept
      BY <2>5 DEF JoinsWorkers
    <3>2. \A c \in Workers : InThreads(c) => stack'[c] = << >>
      BY <2>1, <2>5 DEF JoinsWorkers, InThreads, Done
    <3>4. WorkerTypes'
      <4>1. IsInjective(<< >>) /\ << >> \in Seq(Workers)
        BY DEF IsInjective
      <4> QED BY <3>1, <4>1 DEF WorkerTypes
    <3>5. \A c \in Workers : ~ InThreads(c)'
      BY <3>1 DEF InThreads
    <3>6. \A c \in Workers : stack'[c] # << >> => c \in accepted' /\ Base' = "register"
      BY <2>1, <3>1, <3>2, Zenon DEF WorkersInv, BaseKept
    <3>7. accepted \subseteq Workers /\ accepted' = accepted
      BY <3>1 DEF WorkerTypes
    <3> QED BY <2>1, <3>1, <3>4, <3>5, <3>6, <3>7 DEF WorkersInv, BaseKept
  <2> QED BY <1>3, <2>2, <2>3, <2>4, <2>5, ThreadCases
<1> QED BY <1>1, <1>2, <1>3

-----------------------------------------------------------------------------
(***************************************************************************)
(* The mutexes.  A thread that holds one has a place that holds it on its  *)
(* stack, and only once, so that leaving that place leaves none behind.    *)
(***************************************************************************)
HeldBy(mutex, places, s) ==
    \A t \in Threads :
        /\ mutex = t <=> \E i \in DOMAIN s[t] : s[t][i] \in places
        /\ \A i, j \in DOMAIN s[t] : s[t][i] \in places /\ s[t][j] \in places => i = j

MutexInv == HeldBy(logMutex, {"write"}, stack) /\ HeldBy(clientsMutex, Holding, stack)

LEMMA HeldByStep ==
    ASSUME NEW places, NEW mutex, HeldBy(mutex, places, stack),
           NEW t \in Threads, NEW k \in Heights, NEW old, NEW new, NEW h \in {k - 1, k, k + 1},
           Height(t, k, old), Keeps(t, k - 1), Others(t), DOMAIN stack'[t] = 1 .. h,
           h = k - 1 => new \notin places,
           h >= k => stack'[t][k] = new,
           h = k + 1 => stack'[t][k + 1] \notin places,
           new \in places /\ old \notin places => mutex = Nobody
    PROVE  HeldBy(IF new \in places /\ old \notin places THEN t
                  ELSE IF old \in places /\ new \notin places THEN Nobody ELSE mutex,
                  places, stack')
<1>0. /\ k \in DOMAIN stack[t] /\ stack[t][k] = old /\ Nobody \notin Threads
      /\ DOMAIN stack[t] = 1 .. k
  BY ServerProcessAssumption DEF Height, Heights
<1> DEFINE m == IF new \in places /\ old \notin places THEN t
                ELSE IF old \in places /\ new \notin places THEN Nobody ELSE mutex
<1>1. ASSUME NEW i \in DOMAIN stack'[t], stack'[t][i] \in places
      PROVE  (i = k /\ new \in places) \/ (i \in 1 .. k - 1 /\ stack[t][i] \in places)
  <2>1. i \in 1 .. h
    BY <1>1
  <2>2. CASE i = k
    BY <1>1, <2>1, <2>2 DEF Heights
  <2>3. CASE i = k + 1
    BY <1>1, <2>1, <2>3 DEF Heights
  <2>4. CASE i # k /\ i # k + 1
    <3>1. i \in 1 .. k - 1
      BY <2>1, <2>4 DEF Heights
    <3> QED BY <1>1, <3>1 DEF Keeps
  <2> QED BY <2>2, <2>3, <2>4
<1>2. \A i, j \in DOMAIN stack[t] : stack[t][i] \in places /\ stack[t][j] \in places => i = j
  BY DEF HeldBy
<1>3. ASSUME new \in places PROVE \A i \in 1 .. k - 1 : stack[t][i] \notin places
  <2>1. CASE old \in places
    BY <1>0, <1>2, <2>1 DEF Heights
  <2>2. CASE old \notin places
    BY <1>0, <1>3, <2>2 DEF HeldBy, Heights
  <2> QED BY <2>1, <2>2
<1>4. ASSUME NEW u \in Threads
      PROVE  \A i, j \in DOMAIN stack'[u] :
                 stack'[u][i] \in places /\ stack'[u][j] \in places => i = j
  <2>1. CASE u = t
    BY <1>0, <1>1, <1>2, <1>3, <2>1 DEF Heights
  <2>2. CASE u # t
    BY <2>2 DEF HeldBy, Others
  <2> QED BY <2>1, <2>2
<1>5. m = t <=> \E i \in DOMAIN stack'[t] : stack'[t][i] \in places
  <2>1. CASE new \in places
    <3>1. m = t
      BY <1>0, <2>1 DEF HeldBy
    <3>2. k \in DOMAIN stack'[t] /\ stack'[t][k] = new
      BY <2>1 DEF Heights
    <3> QED BY <2>1, <3>1, <3>2
  <2>2. CASE new \notin places /\ old \in places
    <3>1. m # t
      BY <1>0, <2>2
    <3>2. \A i \in 1 .. k - 1 : stack[t][i] \notin places
      BY <1>0, <1>2, <2>2 DEF Heights
    <3> QED BY <1>1, <2>2, <3>1, <3>2
  <2>3. CASE new \notin places /\ old \notin places
    <3>1. m = mutex
      BY <2>3
    <3>2. (\E i \in DOMAIN stack[t] : stack[t][i] \in places)
            <=> (\E i \in 1 .. k - 1 : stack[t][i] \in places)
      BY <1>0, <2>3 DEF Heights
    <3>3. (\E i \in DOMAIN stack'[t] : stack'[t][i] \in places)
            <=> (\E i \in 1 .. k - 1 : stack[t][i] \in places)
      BY <1>1, <2>3 DEF Keeps, Heights
    <3> QED BY <3>1, <3>2, <3>3 DEF HeldBy
  <2> QED BY <2>1, <2>2, <2>3
<1>6. ASSUME NEW u \in Threads, u # t
      PROVE  m = u <=> \E i \in DOMAIN stack'[u] : stack'[u][i] \in places
  <2>1. stack'[u] = stack[u]
    BY <1>6 DEF Others
  <2>2. mutex = u <=> m = u
    <3>1. CASE new \in places /\ old \notin places
      BY <1>0, <1>6, <3>1
    <3>2. CASE old \in places /\ new \notin places
      BY <1>0, <1>6, <3>2 DEF HeldBy
    <3> QED BY <3>1, <3>2
  <2> QED BY <2>1, <2>2 DEF HeldBy
<1> HIDE DEF m
<1>7. HeldBy(m, places, stack')
  BY <1>4, <1>5, <1>6 DEF HeldBy
<1> QED BY <1>7 DEF m

(* A step that changes no place that holds a mutex.                        *)
LEMMA HeldBySame ==
    ASSUME NEW places, NEW mutex, HeldBy(mutex, places, stack),
           \A t \in Threads : \A i :
               (i \in DOMAIN stack'[t] /\ stack'[t][i] \in places)
                   <=> (i \in DOMAIN stack[t] /\ stack[t][i] \in places)
    PROVE  HeldBy(mutex, places, stack')
<1> SUFFICES ASSUME NEW t \in Threads
             PROVE  /\ mutex = t <=> \E i \in DOMAIN stack'[t] : stack'[t][i] \in places
                    /\ \A i, j \in DOMAIN stack'[t] :
                           stack'[t][i] \in places /\ stack'[t][j] \in places => i = j
  BY DEF HeldBy
<1>1. /\ mutex = t <=> \E i \in DOMAIN stack[t] : stack[t][i] \in places
      /\ \A i, j \in DOMAIN stack[t] : stack[t][i] \in places /\ stack[t][j] \in places => i = j
  BY DEF HeldBy
<1> QED BY <1>1

LEMMA MutexStep ==
    ASSUME StackType, Shape, WorkersInv, accepted \subseteq Workers, MutexInv, Steps
    PROVE  MutexInv'
<1>1. ASSUME NEW t \in Threads, NEW k \in Heights, NEW old, NEW new,
             NEW h \in {k - 1, k, k + 1},
             Height(t, k, old), Keeps(t, k - 1), Others(t), DOMAIN stack'[t] = 1 .. h,
             h = k - 1 => new = "none",
             h >= k => stack'[t][k] = new,
             h = k + 1 => stack'[t][k + 1] \in {"log", "stop"},
             Effect(t, old, new), old = new => old # "write",
             old # new => old \notin Holding \/ new \notin Holding
      PROVE  MutexInv'
  <2>1. HeldBy(logMutex', {"write"}, stack')
    <3>1. logMutex' = IF new \in {"write"} /\ old \notin {"write"} THEN t
                     ELSE IF old \in {"write"} /\ new \notin {"write"} THEN Nobody ELSE logMutex
      BY <1>1 DEF Effect
    <3>2. HeldBy(logMutex, {"write"}, stack)
      BY DEF MutexInv
    <3>3. /\ h = k - 1 => new \notin {"write"}
          /\ h = k + 1 => stack'[t][k + 1] \notin {"write"}
          /\ new \in {"write"} /\ old \notin {"write"} => logMutex = Nobody
      BY <1>1 DEF Effect
    <3> QED BY <1>1, <3>1, <3>2, <3>3, HeldByStep, ZenonT(40)
  <2>2. HeldBy(clientsMutex', Holding, stack')
    <3>1. clientsMutex' = IF new \in Holding /\ old \notin Holding THEN t
                     ELSE IF old \in Holding /\ new \notin Holding THEN Nobody ELSE clientsMutex
      BY <1>1 DEF Effect
    <3>2. HeldBy(clientsMutex, Holding, stack)
      BY DEF MutexInv
    <3>3. /\ h = k - 1 => new \notin Holding
          /\ h = k + 1 => stack'[t][k + 1] \notin Holding
          /\ new \in Holding /\ old \notin Holding => clientsMutex = Nobody
      BY <1>1 DEF Effect, Holding
    <3> QED BY <1>1, <3>1, <3>2, <3>3, HeldByStep
  <2> QED BY <2>1, <2>2 DEF MutexInv
<1>2. ASSUME NEW t \in Threads, NEW k \in Heights, NEW m \in Gotos,
             GotoStep(t, k, m[1], m[2])
      PROVE  MutexInv'
  <2>1. /\ k \in {k - 1, k, k + 1} /\ k # k - 1 /\ k # k + 1
        /\ m[1] # m[2] /\ (m[1] \notin Holding \/ m[2] \notin Holding)
    BY DEF Gotos, Heights, Holding
  <2> QED BY <1>1, <1>2, <2>1 DEF GotoStep
<1>3. ASSUME NEW t \in Threads, NEW k \in Heights, NEW m \in Calls,
             CallStep(t, k, m[1], m[2], m[3])
      PROVE  MutexInv'
  <2>1. /\ k + 1 \in {k - 1, k, k + 1} /\ k + 1 # k - 1
        /\ m[1] = m[2] => m[1] # "write"
        /\ m[1] # m[2] => m[1] \notin Holding \/ m[2] \notin Holding
        /\ m[3] \in {"log", "stop"}
    BY DEF Calls, Heights, Holding
  <2> QED BY <1>1, <1>3, <2>1 DEF CallStep
<1>4. ASSUME NEW t \in Threads, NEW k \in Heights, NEW old \in Returns, ReturnStep(t, k, old)
      PROVE  MutexInv'
  <2>1. /\ k - 1 \in {k - 1, k, k + 1} /\ ~ (k - 1 >= k) /\ k - 1 # k + 1
        /\ old # "none" /\ "none" \notin Holding
    BY DEF Returns, Heights, Holding
  <2> QED BY <1>1, <1>4, <2>1 DEF ReturnStep
<1>5. ASSUME NEW t \in Threads, NEW k \in Heights, NEW s \in Signals, SignalStep(t, k, s)
      PROVE  MutexInv'
  <2>1. ASSUME NEW places \in {{"write"}, Holding}, NEW u \in Threads, NEW i
        PROVE  (i \in DOMAIN stack'[u] /\ stack'[u][i] \in places)
                   <=> (i \in DOMAIN stack[u] /\ stack[u][i] \in places)
    <3>1. CASE u = t
      <4>1. /\ DOMAIN stack[u] = 1 .. k /\ DOMAIN stack'[u] = 1 .. k + 1
            /\ stack'[u][k + 1] \notin places
            /\ \A j \in 1 .. k : stack'[u][j] = stack[u][j]
        BY <1>5, <3>1 DEF SignalStep, Keeps, Holding
      <4> QED BY <4>1 DEF Heights
    <3>2. CASE u # t
      BY <1>5, <3>2 DEF SignalStep, Others
    <3> QED BY <3>1, <3>2
  <2>2. UNCHANGED <<logMutex, clientsMutex>>
    BY <1>5 DEF SignalStep
  <2> QED BY <2>1, <2>2, HeldBySame DEF MutexInv
<1>6. CASE SpawnStep
  <2>1. /\ UNCHANGED <<logMutex, clientsMutex>>
        /\ stack'[Main] = <<"register">>
        /\ \A t \in Threads : t # Main /\ t \in accepted => stack'[t] = <<"loop">>
        /\ \A t \in Threads : t # Main /\ t \notin accepted => stack'[t] = stack[t]
    BY <1>6 DEF SpawnStep, Threads
  <2>2. DOMAIN stack[Main] = 1 .. 1 /\ stack[Main][1] = "spawn"
    BY <1>6, SpawnBottom DEF Base
  <2>3. \A t \in accepted : stack[t] = << >>
    BY <2>2 DEF WorkersInv
  <2>4. ASSUME NEW places \in {{"write"}, Holding}, NEW t \in Threads, NEW i
        PROVE  (i \in DOMAIN stack'[t] /\ stack'[t][i] \in places)
                   <=> (i \in DOMAIN stack[t] /\ stack[t][i] \in places)
    <3>0. {"register", "spawn", "loop"} \cap places = {}
      BY DEF Holding
    <3>1. CASE t = Main
      <4>1. DOMAIN stack'[t] = 1 .. 1 /\ stack'[t][1] = "register"
        BY <2>1, <3>1
      <4>2. i \in 1 .. 1 => i = 1
        OBVIOUS
      <4> QED BY <2>2, <3>0, <3>1, <4>1, <4>2
    <3>2. CASE t # Main /\ t \in accepted
      <4>1. DOMAIN stack'[t] = 1 .. 1 /\ stack'[t][1] = "loop"
        BY <2>1, <3>2
      <4>2. i \notin DOMAIN stack[t]
        BY <2>3, <3>2
      <4>3. i \in 1 .. 1 => i = 1
        OBVIOUS
      <4> QED BY <3>0, <4>1, <4>2, <4>3
    <3>3. CASE t # Main /\ t \notin accepted
      BY <2>1, <3>3
    <3> QED BY <3>1, <3>2, <3>3
  <2> QED BY <2>1, <2>4, HeldBySame DEF MutexInv
<1>7. CASE QuietStep
  BY <1>7 DEF QuietStep, MutexInv, HeldBy
<1> QED BY <1>2, <1>3, <1>4, <1>5, <1>6, <1>7 DEF Steps

-----------------------------------------------------------------------------
(***************************************************************************)
(* Types.                                                                  *)
(***************************************************************************)
PlainTypes ==
    /\ args \in Arguments
    /\ ended \in {"no", "exited", "aborted"}
    /\ isRunning \in BOOLEAN
    /\ socket \in {"none", "open", "closed"}
    /\ logMutex \in Threads \cup {Nobody} /\ clientsMutex \in Threads \cup {Nobody}
    /\ handling \in [Threads -> SUBSET Signals]
    /\ arrived \in 0 .. MaxSignals

ProcessInv ==
    /\ StackType /\ Shape
    /\ WorkersInv /\ WorkerTypes
    /\ MutexInv
    /\ PlainTypes

LEMMA PlainStep ==
    ASSUME PlainTypes, [Next]_vars
    PROVE  PlainTypes'
<1> Main \in Threads /\ Workers \subseteq Threads
  BY DEF Threads
<1> USE DEF PlainTypes, state, rest, Ends
<1>1. CASE MainStep
  BY <1>1 DEF MainStep, CheckArguments, CreateSocket, BindSocket, StartFailed, Started, ReturnFromMain,
      Spawn, Register, Wait, UpdateClientActivity, HandlePacket, CheckClientTimeouts, LockClients
<1>2. ASSUME NEW c \in Workers, WorkerStep(c) PROVE PlainTypes'
  BY <1>2 DEF WorkerStep, WorkerLoop, WorkerEnds
<1>3. ASSUME NEW t \in Threads, StepOf(t) PROVE PlainTypes'
  BY <1>3 DEF StepOf, LockLog, UnlockLog, Handler, Stop, StopFlag, StopClose, Join, ClearClients
<1>4. CASE Accept \/ Receive \/ \E c \in Workers : WorkerAnswers(c) \/ WorkerBreaks(c) \/ Leave(c)
  BY <1>4 DEF Accept, Receive, WorkerAnswers, WorkerBreaks, Leave
<1>5. ASSUME NEW t \in Threads, NEW s \in Signals, Signal(t, s) PROVE PlainTypes'
  BY <1>5, ServerProcessAssumption DEF Signal
<1>6. CASE UNCHANGED vars
  BY <1>6 DEF vars
<1> QED BY <1>1, <1>2, <1>3, <1>4, <1>5, <1>6 DEF Next, Input

LEMMA ProcessInit == Init => ProcessInv
<1> SUFFICES ASSUME Init PROVE ProcessInv
  OBVIOUS
<1>0. Main \in Threads /\ Main \notin Workers /\ Nobody \notin Threads /\ Workers \subseteq Threads
  BY ServerProcessAssumption DEF Threads
<1>1. stack[Main] = <<"arguments">> /\ \A t \in Threads : t # Main => stack[t] = << >>
  BY <1>0 DEF Init
<1>2. StackType
  <2>1. <<"arguments">> \in Seq(Places) /\ << >> \in Seq(Places)
    BY DEF Places, StartPlaces
  <2> QED BY <2>1 DEF Init, StackType
<1>3. DOMAIN stack[Main] = 1 .. 1 /\ stack[Main][1] = "arguments"
  BY <1>1
<1>4. \A t \in Threads : t # Main => DOMAIN stack[t] = {}
  BY <1>1
<1>5. Shape
  BY <1>3, <1>4 DEF Shape, Bottom, StartPlaces
<1>6. \A c \in Workers : stack[c] = << >> /\ ~ InThreads(c) /\ c \notin accepted
  BY <1>0, <1>1 DEF Init, InThreads
<1>7. WorkersInv
  BY <1>3, <1>6 DEF WorkersInv, Init
<1>8. WorkerTypes
  <2>1. Cardinality({}) = 0 /\ accepted = {} /\ clientThreads = << >>
    BY FS_EmptySet DEF Init
  <2>2. clientThreads \in Seq(Workers) /\ IsInjective(clientThreads)
    BY <2>1 DEF IsInjective
  <2> QED BY <2>1, <2>2 DEF WorkerTypes, Init
<1>9. MutexInv
  <2>1. ASSUME NEW places \in {{"write"}, Holding} PROVE HeldBy(Nobody, places, stack)
    BY <1>0, <1>3, <1>4 DEF HeldBy, Holding
  <2> QED BY <2>1 DEF MutexInv, Init
<1>10. PlainTypes
  <2>1. 0 \in 0 .. MaxSignals
    BY ServerProcessAssumption
  <2>2. handling \in [Threads -> SUBSET Signals]
    BY DEF Init
  <2> QED BY <2>1, <2>2 DEF PlainTypes, Init
<1> QED BY <1>2, <1>5, <1>7, <1>8, <1>9, <1>10 DEF ProcessInv

LEMMA ProcessStep ==
    ASSUME ProcessInv, [Next]_vars
    PROVE  ProcessInv'
<1>1. Steps /\ StackType'
  BY NextTakesStep DEF ProcessInv
<1>2. Shape'
  BY <1>1, ShapeStep DEF ProcessInv
<1>3. WorkersInv' /\ WorkerTypes'
  BY <1>1, WorkersStep DEF ProcessInv
<1>4. MutexInv'
  BY <1>1, MutexStep DEF ProcessInv, WorkerTypes
<1>5. PlainTypes'
  BY PlainStep DEF ProcessInv
<1> QED BY <1>1, <1>2, <1>3, <1>4, <1>5 DEF ProcessInv

LEMMA ProcessInvCorrect == Spec => []ProcessInv
BY ProcessInit, ProcessStep, PTL DEF Spec

(* The types of ServerProcess.  A thread holds logMutex or clientsMutex    *)
(* exactly as long as a place between its lock and its unlock is on its    *)
(* stack, whatever handlers came in between; no worker is registered       *)
(* twice, so that stop() joins no thread twice.                            *)
THEOREM TypeCorrect == Spec => []TypeOK
<1>1. ProcessInv => TypeOK
  BY DEF ProcessInv, TypeOK, StackType, WorkerTypes, PlainTypes, MutexInv, HeldBy, MutexesOK,
      Has, Holding
<1> QED BY <1>1, ProcessInvCorrect, PTL

-----------------------------------------------------------------------------
(***************************************************************************)
(* The end of the process.                                                 *)
(***************************************************************************)
(* Nothing happens after it.                                               *)
LEMMA Halted ==
    ASSUME ended # "no", [Next]_vars
    PROVE  UNCHANGED vars
<1> USE DEF At, state, rest
<1>1. CASE MainStep
  BY <1>1 DEF MainStep, CheckArguments, CreateSocket, BindSocket, StartFailed, Started, ReturnFromMain,
      Spawn, Register, Wait, UpdateClientActivity, HandlePacket, CheckClientTimeouts, LockClients
<1>2. ASSUME NEW c \in Workers, WorkerStep(c) PROVE FALSE
  BY <1>2 DEF WorkerStep, WorkerLoop, WorkerEnds
<1>3. ASSUME NEW t \in Threads, StepOf(t) PROVE FALSE
  BY <1>3 DEF StepOf, LockLog, UnlockLog, Handler, Stop, StopFlag, StopClose, Join, ClearClients
<1>4. CASE Input
  BY <1>4 DEF Input, Accept, Receive, WorkerAnswers, WorkerBreaks, Leave, Signal
<1> QED BY <1>1, <1>2, <1>3, <1>4 DEF Next

(* How the process ends: exit(0) in a handler, the return of main, or a    *)
(* join that throws.                                                       *)
Aborts(t) == At(t, "join") /\ JoinThrows(t) /\ ended' = "aborted"
Exits(t)  == /\ ended' = "exited"
             /\ At(t, "handlerExit") \/ (t = Main /\ At(Main, "end"))

LEMMA EndStep ==
    ASSUME [Next]_vars, ended' # ended
    PROVE  /\ \E t \in Threads : Aborts(t) \/ Exits(t)
           /\ UNCHANGED <<stack, handling, accepted>>
<1> USE DEF state, rest, Ends, Aborts, Exits
<1>0. Main \in Threads
  BY DEF Threads
<1>1. CASE MainStep
  <2>1. CASE ReturnFromMain
    BY <1>0, <2>1 DEF ReturnFromMain
  <2>2. CASE ~ ReturnFromMain
    BY <1>1, <2>2 DEF MainStep, CheckArguments, CreateSocket, BindSocket, StartFailed, Started,
        Spawn, Register, Wait, UpdateClientActivity, HandlePacket, CheckClientTimeouts,
        LockClients
  <2> QED BY <2>1, <2>2
<1>2. ASSUME NEW c \in Workers, WorkerStep(c) PROVE FALSE
  BY <1>2 DEF WorkerStep, WorkerLoop, WorkerEnds
<1>3. ASSUME NEW t \in Threads, StepOf(t)
      PROVE  (Aborts(t) \/ Exits(t)) /\ UNCHANGED <<stack, handling, accepted>>
  <2>1. CASE Handler(t)
    BY <2>1 DEF Handler
  <2>2. CASE Join(t)
    BY <2>2 DEF Join
  <2> QED BY <1>3, <2>1, <2>2
      DEF StepOf, LockLog, UnlockLog, Stop, StopFlag, StopClose, ClearClients
<1>4. CASE Input
  BY <1>4 DEF Input, Accept, Receive, WorkerAnswers, WorkerBreaks, Leave, Signal
<1>5. CASE UNCHANGED vars
  BY <1>5 DEF vars
<1> QED BY <1>1, <1>2, <1>3, <1>4, <1>5 DEF Next

-----------------------------------------------------------------------------
(***************************************************************************)
(* Who stops the server.  A worker stops it only in the handler of a       *)
(* signal that the main thread handles, too.  The main thread alone never  *)
(* waits in two calls of join: from StopFlag on isRunning is false, and a  *)
(* stop() of a handler on top of that returns at once.                     *)
(***************************************************************************)
Stopping  == HandlerPlaces \cup StopPlaces
AfterFlag == {"stopClose", "join", "clear", "clearing"}

SignalInv ==
    /\ \A c \in Workers : Has(c, Stopping) =>
           \E s \in Signals : s \in handling[c] /\ s \in handling[Main]
    /\ \A t \in Threads : Has(t, AfterFlag) => ~ isRunning
    /\ \A t \in Threads : \A i, j \in DOMAIN stack[t] :
           i < j /\ stack[t][i] \in AfterFlag => stack[t][j] \notin AfterFlag \cup {"stopFlag"}

LEMMA SignalInvStep ==
    ASSUME ProcessInv, SignalInv, Steps
    PROVE  SignalInv'
<1>0. /\ Main \in Threads /\ Main \notin Workers /\ Workers \subseteq Threads
      /\ \A t \in Threads : DOMAIN stack[t] \subseteq Nat
  <2>1. \A t \in Threads : DOMAIN stack[t] \subseteq Nat
    BY Domains DEF ProcessInv, StackType, Heights
  <2> QED BY <2>1, ServerProcessAssumption DEF Threads
<1>1. ASSUME NEW t \in Threads, NEW k \in Heights, NEW m \in Gotos,
             GotoStep(t, k, m[1], m[2])
      PROVE  SignalInv'
  <2>1. /\ m[2] \in Stopping => m[1] \in Stopping
        /\ m[2] \in AfterFlag => m[1] \in AfterFlag \cup {"stopFlag"}
        /\ m[2] # "stopFlag" /\ m[1] # "started"
    BY DEF Gotos, Stopping, AfterFlag, HandlerPlaces, StopPlaces
  <2>2. /\ DOMAIN stack[t] = 1 .. k /\ stack[t][k] = m[1] /\ k \in 1 .. k
        /\ DOMAIN stack'[t] = 1 .. k /\ stack'[t][k] = m[2]
        /\ \A i \in 1 .. k : i < k => stack'[t][i] = stack[t][i]
        /\ \A u \in Threads \ {t} : stack'[u] = stack[u]
        /\ UNCHANGED handling
        /\ isRunning' = IF m[1] = "stopFlag" THEN FALSE ELSE isRunning
    BY <1>1, <2>1 DEF GotoStep, Height, Keeps, Others, Heights, Effect
  <2>3. \A u \in Threads : Has(u, Stopping)' => Has(u, Stopping)
    BY <2>1, <2>2 DEF Has, Heights
  <2>4. \A u \in Threads : Has(u, AfterFlag)' => Has(u, AfterFlag) \/ m[1] = "stopFlag"
    BY <2>1, <2>2 DEF Has, Heights
  <2>5. ASSUME NEW v \in Threads, NEW i \in DOMAIN stack'[v], NEW j \in DOMAIN stack'[v], i < j,
               stack'[v][i] \in AfterFlag
        PROVE  stack'[v][j] \notin AfterFlag \cup {"stopFlag"}
    <3>1. CASE t = v
      <4>1. i \in 1 .. k /\ i < k /\ stack[v][i] \in AfterFlag
        BY <2>2, <2>5, <3>1 DEF Heights
      <4> QED BY <2>1, <2>2, <2>5, <3>1, <4>1 DEF SignalInv, Heights
    <3>2. CASE t # v
      BY <1>0, <2>2, <2>5, <3>2 DEF SignalInv
    <3> QED BY <3>1, <3>2
  <2> QED BY <1>0, <2>2, <2>3, <2>4, <2>5 DEF SignalInv
<1>2. ASSUME NEW t \in Threads, NEW k \in Heights, NEW m \in Calls,
             CallStep(t, k, m[1], m[2], m[3])
      PROVE  SignalInv'
  <2>1. /\ m[2] \in Stopping => m[1] \in Stopping
        /\ m[3] \in Stopping => m[1] \in Stopping \/ m[1] = "return"
        /\ m[2] \notin AfterFlag /\ m[3] \notin AfterFlag /\ m[3] # "stopFlag"
        /\ m[1] # "stopFlag"
        /\ m[2] = "stopFlag" => m[1] = "stop"
    BY DEF Calls, Stopping, AfterFlag, HandlerPlaces, StopPlaces
  <2>2. /\ DOMAIN stack[t] = 1 .. k /\ stack[t][k] = m[1] /\ k \in 1 .. k
        /\ DOMAIN stack'[t] = 1 .. k + 1 /\ stack'[t][k] = m[2] /\ stack'[t][k + 1] = m[3]
        /\ \A i \in 1 .. k : i < k => stack'[t][i] = stack[t][i]
        /\ \A u \in Threads \ {t} : stack'[u] = stack[u]
        /\ UNCHANGED handling
        /\ isRunning' = IF m[1] = "started" THEN TRUE ELSE isRunning
        /\ m[2] = "stopFlag" => isRunning
    BY <1>2, <2>1 DEF CallStep, Height, Keeps, Others, Heights, Effect
  <2>3. ASSUME NEW c \in Workers, Has(c, Stopping)' PROVE Has(c, Stopping)
    <3>1. c = t => m[1] # "return"
      BY <1>0, <2>2 DEF ProcessInv, Shape, Bottom, Upper, WorkerPlaces, HandlerPlaces,
          StopPlaces, LogPlaces
    <3>2. PICK i \in DOMAIN stack'[c] : stack'[c][i] \in Stopping
      BY <2>3 DEF Has
    <3>3. CASE c = t
      <4>1. (i \in 1 .. k /\ i < k) \/ i = k \/ i = k + 1
        BY <2>2, <3>2, <3>3 DEF Heights
      <4> QED BY <2>1, <2>2, <3>1, <3>2, <3>3, <4>1 DEF Has
    <3>4. CASE c # t
      BY <1>0, <2>2, <3>2, <3>4 DEF Has
    <3> QED BY <3>3, <3>4
  <2>4. \A u \in Threads : Has(u, AfterFlag)' => Has(u, AfterFlag)
    <3> SUFFICES ASSUME NEW u \in Threads, NEW i \in DOMAIN stack'[u], stack'[u][i] \in AfterFlag
                 PROVE  Has(u, AfterFlag)
      BY DEF Has
    <3>1. CASE u = t
      <4>1. (i \in 1 .. k /\ i < k) \/ i = k \/ i = k + 1
        BY <2>2, <3>1 DEF Heights
      <4> QED BY <2>1, <2>2, <3>1, <4>1 DEF Has
    <3>2. CASE u # t
      BY <2>2, <3>2 DEF Has
    <3> QED BY <3>1, <3>2
  <2>5. ASSUME m[1] = "started", NEW u \in Threads PROVE ~ Has(u, AfterFlag)
    <3>1. t = Main /\ k = 1
      BY <1>0, <2>2, <2>5 DEF ProcessInv, Shape, Bottom, Upper, WorkerPlaces, HandlerPlaces,
          StopPlaces, LogPlaces, Heights
    <3>2. CASE u = Main
      <4>1. \A i \in DOMAIN stack[u] : i = 1
        BY <2>2, <3>1, <3>2
      <4> QED BY <2>2, <2>5, <3>1, <3>2, <4>1 DEF Has, AfterFlag
    <3>3. CASE u # Main
      <4>1. u \in Workers /\ stack[Main][1] \in Starting
        BY <2>2, <2>5, <3>1, <3>3 DEF Threads, Starting
      <4>2. stack[u] = << >>
        BY <4>1 DEF ProcessInv, WorkersInv
      <4> QED BY <4>2 DEF Has
    <3> QED BY <3>2, <3>3
  <2>6. ASSUME NEW v \in Threads, NEW i \in DOMAIN stack'[v], NEW j \in DOMAIN stack'[v], i < j,
               stack'[v][i] \in AfterFlag
        PROVE  stack'[v][j] \notin AfterFlag \cup {"stopFlag"}
    <3>1. CASE t = v
      <4>1. i \in 1 .. k /\ i < k /\ stack[v][i] \in AfterFlag
        BY <2>1, <2>2, <2>6, <3>1 DEF Heights
      <4>2. m[2] # "stopFlag"
        BY <1>0, <2>2, <3>1, <4>1 DEF SignalInv, Has
      <4>3. (j \in 1 .. k /\ j < k) \/ j = k \/ j = k + 1
        BY <2>2, <3>1, SMTT(30) DEF Heights
      <4> QED BY <2>1, <2>2, <2>6, <3>1, <4>1, <4>2, <4>3 DEF SignalInv
    <3>2. CASE t # v
      BY <1>0, <2>2, <2>6, <3>2 DEF SignalInv
    <3> QED BY <3>1, <3>2
  <2>7. \A c \in Workers : Has(c, Stopping)' =>
            \E s \in Signals : s \in handling'[c] /\ s \in handling'[Main]
    BY <2>2, <2>3 DEF SignalInv
  <2>8. \A u \in Threads : Has(u, AfterFlag)' => ~ isRunning'
    BY <2>2, <2>4, <2>5 DEF SignalInv
  <2> QED BY <2>6, <2>7, <2>8 DEF SignalInv
<1>3. ASSUME NEW t \in Threads, NEW k \in Heights, NEW old \in Returns, ReturnStep(t, k, old)
      PROVE  SignalInv'
  <2>1. /\ \A u \in Threads : \A i \in DOMAIN stack'[u] :
               i \in DOMAIN stack[u] /\ stack'[u][i] = stack[u][i]
        /\ UNCHANGED <<handling, isRunning>>
    <3>1. ASSUME NEW u \in Threads, NEW i \in DOMAIN stack'[u]
          PROVE  i \in DOMAIN stack[u] /\ stack'[u][i] = stack[u][i]
      <4>1. CASE u = t
        BY <1>3, <4>1 DEF ReturnStep, Height, Keeps, Heights
      <4>2. CASE u # t
        BY <1>3, <4>2 DEF ReturnStep, Others
      <4> QED BY <4>1, <4>2
    <3>2. UNCHANGED <<handling, isRunning>>
      BY <1>3 DEF ReturnStep, Effect, Returns
    <3> QED BY <3>1, <3>2
  <2>2. \A u \in Threads : \A places : Has(u, places)' => Has(u, places)
    BY <2>1 DEF Has
  <2> QED BY <1>0, <2>1, <2>2 DEF SignalInv
<1>4. ASSUME NEW t \in Threads, NEW k \in Heights, NEW s \in Signals, SignalStep(t, k, s)
      PROVE  SignalInv'
  <2>1. /\ DOMAIN stack[t] = 1 .. k /\ DOMAIN stack'[t] = 1 .. k + 1
        /\ stack'[t][k + 1] = "handler"
        /\ \A i \in 1 .. k : stack'[t][i] = stack[t][i]
        /\ \A u \in Threads \ {t} : stack'[u] = stack[u]
        /\ t # Main => s \in handling[Main]
        /\ handling' = [handling EXCEPT ![t] = @ \cup {s}]
        /\ UNCHANGED isRunning
    BY <1>4 DEF SignalStep, Keeps, Others
  <2>2. /\ s \in handling'[t] /\ \A u \in Threads : handling[u] \subseteq handling'[u]
        /\ \A u \in Threads \ {t} : handling'[u] = handling[u]
    BY <2>1 DEF ProcessInv, PlainTypes
  <2>3. \A i \in 1 .. k + 1 : i \in 1 .. k \/ i = k + 1
    BY DEF Heights
  <2>4. \A u \in Threads \ {t} : \A places : Has(u, places)' => Has(u, places)
    BY <2>1 DEF Has
  <2>5. ASSUME NEW c \in Workers, Has(c, Stopping)'
        PROVE  \E g \in Signals : g \in handling'[c] /\ g \in handling'[Main]
    <3>1. CASE c = t
      BY <1>0, <2>1, <2>2, <3>1
    <3>2. CASE c # t
      BY <1>0, <2>2, <2>4, <2>5, <3>2 DEF SignalInv
    <3> QED BY <3>1, <3>2
  <2>6. \A u \in Threads : Has(u, AfterFlag)' => Has(u, AfterFlag)
    BY <2>1, <2>3, <2>4 DEF Has, AfterFlag
  <2>7. ASSUME NEW v \in Threads, NEW i \in DOMAIN stack'[v], NEW j \in DOMAIN stack'[v], i < j,
               stack'[v][i] \in AfterFlag
        PROVE  stack'[v][j] \notin AfterFlag \cup {"stopFlag"}
    <3>1. CASE t = v
      <4>1. i \in 1 .. k
        BY <2>1, <2>3, <2>7, <3>1 DEF AfterFlag
      <4>2. CASE j = k + 1
        BY <2>1, <3>1, <4>2 DEF AfterFlag
      <4>3. CASE j \in 1 .. k
        BY <2>1, <2>7, <3>1, <4>1, <4>3 DEF SignalInv
      <4> QED BY <2>1, <2>3, <3>1, <4>2, <4>3
    <3>2. CASE t # v
      BY <1>0, <2>1, <2>7, <3>2 DEF SignalInv
    <3> QED BY <3>1, <3>2
  <2>8. \A u \in Threads : Has(u, AfterFlag)' => ~ isRunning'
    BY <2>1, <2>6 DEF SignalInv
  <2> QED BY <2>5, <2>7, <2>8 DEF SignalInv
<1>5. CASE SpawnStep
  <2>1. /\ stack'[Main] = <<"register">>
        /\ \A t \in Threads : t # Main /\ t \in accepted => stack'[t] = <<"loop">>
        /\ \A t \in Threads : t # Main /\ t \notin accepted => stack'[t] = stack[t]
        /\ UNCHANGED <<handling, isRunning>>
    BY <1>5 DEF SpawnStep, Threads
  <2>2. ASSUME NEW t \in Threads, NEW places \in {Stopping, AfterFlag}, Has(t, places)'
        PROVE  Has(t, places)
    <3>1. "register" \notin places /\ "loop" \notin places
      BY DEF Stopping, AfterFlag, HandlerPlaces, StopPlaces
    <3>2. \A i \in 1 .. 1 : i = 1
      OBVIOUS
    <3> QED BY <2>1, <2>2, <3>1, <3>2 DEF Has
  <2>3. ASSUME NEW t \in Threads, NEW i \in DOMAIN stack'[t], NEW j \in DOMAIN stack'[t], i < j
        PROVE  stack'[t] = stack[t]
    <3>1. ~ (DOMAIN stack'[t] = 1 .. 1)
      BY <2>3
    <3> QED BY <2>1, <3>1
  <2> QED BY <1>0, <2>1, <2>2, <2>3 DEF SignalInv
<1>6. CASE QuietStep
  BY <1>6 DEF QuietStep, SignalInv, Has
<1> QED BY <1>1, <1>2, <1>3, <1>4, <1>5, <1>6 DEF Steps

(* At the start only the main thread runs.                                 *)
LEMMA InitialStack ==
    ASSUME Init
    PROVE  /\ \A t \in Threads : \A i \in DOMAIN stack[t] :
                  t = Main /\ i = 1 /\ stack[t][i] = "arguments"
           /\ \A c \in Workers : Done(c)
           /\ Main \notin Workers /\ Workers \subseteq Threads /\ Main \in Threads
<1>1. \A t \in Threads : stack[t] = << >> \/ (t = Main /\ stack[t] = <<"arguments">>)
  BY DEF Init
<1>2. \A i \in 1 .. 1 : i = 1
  OBVIOUS
<1>3. Main \notin Workers /\ Workers \subseteq Threads /\ Main \in Threads
  BY ServerProcessAssumption DEF Threads
<1> QED BY <1>1, <1>2, <1>3 DEF Done

LEMMA SignalInvCorrect == Spec => []SignalInv
<1>1. Init => SignalInv
  BY InitialStack DEF SignalInv, Has, AfterFlag
<1>2. ProcessInv /\ SignalInv /\ [Next]_vars => SignalInv'
  BY NextTakesStep, SignalInvStep DEF ProcessInv
<1> QED BY <1>1, <1>2, ProcessInvCorrect, PTL DEF Spec

(* A set with more than one element has two.                               *)
LEMMA TwoElements ==
    ASSUME NEW S, Cardinality(S) > 1
    PROVE  \E x, y \in S : x # y
<1>1. S # {}
  BY FS_EmptySet
<1>2. \A x : S # {x}
  BY FS_Singleton
<1> QED BY <1>1, <1>2

(* Which calls of join an abort takes.                                     *)
LEMMA AbortNeedsWorker ==
    ASSUME ProcessInv, SignalInv, NEW t \in Threads, At(t, "join"), JoinThrows(t)
    PROVE  \E c \in Workers : Has(c, Stopping)
<1>1. \A u \in Threads : \A i \in DOMAIN stack[u] : stack[u][i] = "join" => Has(u, Stopping)
  BY DEF Has, Stopping, StopPlaces
<1>2. Has(t, Stopping)
  <2>1. stack[t] \in Seq(Places) /\ stack[t] # << >> /\ stack[t][Len(stack[t])] = "join"
    BY DEF At, Last, ProcessInv, StackType
  <2>2. Len(stack[t]) \in DOMAIN stack[t]
    BY <2>1, EmptySeq, LenProperties
  <2> QED BY <1>1, <2>1, <2>2
<1>3. PICK i \in DOMAIN clientThreads : clientThreads[i] = t \/ Cardinality(Joins) > 1
  BY DEF JoinThrows
<1>4. CASE clientThreads[i] = t
  <2>1. t \in Workers
    BY <1>4, ElementOfSeq, LenProperties DEF ProcessInv, WorkerTypes
  <2> QED BY <1>2, <2>1
<1>5. CASE Cardinality(Joins) > 1
  <2>1. PICK x, y \in Joins : x # y
    BY <1>5, TwoElements
  <2>2. PICK u \in Threads : \E e \in DOMAIN stack[u] : x = <<u, e>> /\ stack[u][e] = "join"
    BY DEF Joins
  <2>3. PICK v \in Threads : \E e \in DOMAIN stack[v] : y = <<v, e>> /\ stack[v][e] = "join"
    BY DEF Joins
  <2>4. ~ (u = Main /\ v = Main)
    <3> SUFFICES ASSUME u = Main, v = Main PROVE FALSE
      OBVIOUS
    <3>1. PICK a \in DOMAIN stack[Main], b \in DOMAIN stack[Main] :
              stack[Main][a] = "join" /\ stack[Main][b] = "join" /\ a # b
      BY <2>1, <2>2, <2>3
    <3>2. a \in Nat /\ b \in Nat
      BY <3>1, Domains DEF ProcessInv, StackType, Heights, Threads
    <3>3. a < b \/ b < a
      BY <3>1, <3>2
    <3> QED BY <3>1, <3>3 DEF SignalInv, AfterFlag
  <2> QED BY <1>1, <2>2, <2>3, <2>4 DEF Threads
<1> QED BY <1>3, <1>4, <1>5

(* Only a signal that a worker handles on top of the main thread's handler *)
(* of the same signal can make stop() abort the process.                   *)
THEOREM AbortIsRare == Spec => []AbortNeedsSameSignalTwice
<1>1. Init => AbortNeedsSameSignalTwice
  BY DEF Init, AbortNeedsSameSignalTwice
<1>2. ProcessInv /\ SignalInv /\ AbortNeedsSameSignalTwice /\ [Next]_vars
          => AbortNeedsSameSignalTwice'
  <2> SUFFICES ASSUME ProcessInv, SignalInv, AbortNeedsSameSignalTwice, [Next]_vars,
                      ended' = "aborted"
               PROVE  \E c \in Workers, s \in Signals : s \in handling'[c] /\ s \in handling'[Main]
    BY DEF AbortNeedsSameSignalTwice
  <2>1. CASE ended = "aborted"
    <3>1. UNCHANGED handling
      BY <2>1, Halted DEF vars
    <3>2. \E c \in Workers, s \in Signals : s \in handling[c] /\ s \in handling[Main]
      BY <2>1 DEF AbortNeedsSameSignalTwice
    <3> QED BY <3>1, <3>2
  <2>2. CASE ended # "aborted"
    <3>1. UNCHANGED handling /\ \E t \in Threads : Aborts(t) \/ Exits(t)
      BY <2>2, EndStep
    <3>2. \E t \in Threads : At(t, "join") /\ JoinThrows(t)
      BY <3>1 DEF Aborts, Exits
    <3>3. \E c \in Workers : Has(c, Stopping)
      BY <3>2, AbortNeedsWorker
    <3>4. \E c \in Workers, s \in Signals : s \in handling[c] /\ s \in handling[Main]
      BY <3>3 DEF SignalInv
    <3> QED BY <3>1, <3>4
  <2> QED BY <2>1, <2>2
<1> QED BY <1>1, <1>2, ProcessInvCorrect, SignalInvCorrect, PTL DEF Spec

-----------------------------------------------------------------------------
(***************************************************************************)
(* Where a place of a stack comes from, and what becomes of it.            *)
(***************************************************************************)
LEMMA Origin ==
    ASSUME ProcessInv, Steps, ~ SpawnStep, NEW t \in Threads, NEW i \in DOMAIN stack'[t]
    PROVE  \/ i \in DOMAIN stack[t] /\ stack'[t][i] = stack[t][i]
           \/ i \in Heights /\ \E m \in Gotos : GotoStep(t, i, m[1], m[2])
           \/ i \in Heights /\ \E m \in Calls : CallStep(t, i, m[1], m[2], m[3])
           \/ i - 1 \in Heights /\ \E m \in Calls : CallStep(t, i - 1, m[1], m[2], m[3])
           \/ i - 1 \in Heights /\ \E s \in Signals : SignalStep(t, i - 1, s)
<1> DEFINE Goal ==
           \/ i \in DOMAIN stack[t] /\ stack'[t][i] = stack[t][i]
           \/ i \in Heights /\ \E m \in Gotos : GotoStep(t, i, m[1], m[2])
           \/ i \in Heights /\ \E m \in Calls : CallStep(t, i, m[1], m[2], m[3])
           \/ i - 1 \in Heights /\ \E m \in Calls : CallStep(t, i - 1, m[1], m[2], m[3])
           \/ i - 1 \in Heights /\ \E s \in Signals : SignalStep(t, i - 1, s)
<1>1. ASSUME NEW u \in Threads, NEW k \in Heights, NEW m \in Gotos,
             GotoStep(u, k, m[1], m[2])
      PROVE  Goal
  <2>1. CASE u = t /\ i = k
    BY <1>1, <2>1
  <2>2. CASE u = t /\ i # k
    <3>1. i \in 1 .. k - 1 /\ i \in 1 .. k
      BY <1>1, <2>2 DEF GotoStep, Heights
    <3>2. i \in DOMAIN stack[t] /\ stack'[t][i] = stack[t][i]
      BY <1>1, <2>2, <3>1 DEF GotoStep, Height, Keeps
    <3> QED BY <3>2
  <2>3. CASE u # t
    BY <1>1, <2>3 DEF GotoStep, Others
  <2> QED BY <2>1, <2>2, <2>3
<1>2. ASSUME NEW u \in Threads, NEW k \in Heights, NEW m \in Calls,
             CallStep(u, k, m[1], m[2], m[3])
      PROVE  Goal
  <2>1. CASE u = t /\ i = k
    BY <1>2, <2>1
  <2>2. CASE u = t /\ i = k + 1
    <3>1. i - 1 = k
      BY <2>2 DEF Heights
    <3> QED BY <1>2, <2>2, <3>1
  <2>3. CASE u = t /\ i # k /\ i # k + 1
    <3>1. i \in 1 .. k - 1 /\ i \in 1 .. k
      BY <1>2, <2>3 DEF CallStep, Heights
    <3>2. i \in DOMAIN stack[t] /\ stack'[t][i] = stack[t][i]
      BY <1>2, <2>3, <3>1 DEF CallStep, Height, Keeps
    <3> QED BY <3>2
  <2>4. CASE u # t
    BY <1>2, <2>4 DEF CallStep, Others
  <2> QED BY <2>1, <2>2, <2>3, <2>4
<1>3. ASSUME NEW u \in Threads, NEW k \in Heights, NEW old \in Returns, ReturnStep(u, k, old)
      PROVE  Goal
  <2>1. CASE u = t
    <3>1. i \in 1 .. k - 1 /\ i \in 1 .. k
      BY <1>3, <2>1 DEF ReturnStep, Heights
    <3>2. i \in DOMAIN stack[t] /\ stack'[t][i] = stack[t][i]
      BY <1>3, <2>1, <3>1 DEF ReturnStep, Height, Keeps
    <3> QED BY <3>2
  <2>2. CASE u # t
    BY <1>3, <2>2 DEF ReturnStep, Others
  <2> QED BY <2>1, <2>2
<1>4. ASSUME NEW u \in Threads, NEW k \in Heights, NEW s \in Signals, SignalStep(u, k, s)
      PROVE  Goal
  <2>1. CASE u = t /\ i = k + 1
    <3>1. i - 1 = k
      BY <2>1 DEF Heights
    <3> QED BY <1>4, <2>1, <3>1
  <2>2. CASE u = t /\ i # k + 1
    <3>1. i \in 1 .. k
      BY <1>4, <2>2 DEF SignalStep, Heights
    <3>2. i \in DOMAIN stack[t] /\ stack'[t][i] = stack[t][i]
      BY <1>4, <2>2, <3>1 DEF SignalStep, Keeps
    <3> QED BY <3>2
  <2>3. CASE u # t
    BY <1>4, <2>3 DEF SignalStep, Others
  <2> QED BY <2>1, <2>2, <2>3
<1>5. ASSUME QuietStep PROVE Goal
  BY <1>5 DEF QuietStep
<1> HIDE DEF Goal
<1>6. Goal
  BY <1>1, <1>2, <1>3, <1>4, <1>5 DEF Steps
<1> QED BY <1>6 DEF Goal

LEMMA Fate ==
    ASSUME ProcessInv, Steps, ~ SpawnStep, NEW t \in Threads, NEW i \in DOMAIN stack[t]
    PROVE  \/ i \in DOMAIN stack'[t] /\ stack'[t][i] = stack[t][i]
           \/ i \in Heights /\ \E m \in Gotos : GotoStep(t, i, m[1], m[2])
           \/ i \in Heights /\ \E m \in Calls : CallStep(t, i, m[1], m[2], m[3])
           \/ i \in Heights /\ \E old \in Returns : ReturnStep(t, i, old)
<1> DEFINE Goal ==
           \/ i \in DOMAIN stack'[t] /\ stack'[t][i] = stack[t][i]
           \/ i \in Heights /\ \E m \in Gotos : GotoStep(t, i, m[1], m[2])
           \/ i \in Heights /\ \E m \in Calls : CallStep(t, i, m[1], m[2], m[3])
           \/ i \in Heights /\ \E old \in Returns : ReturnStep(t, i, old)
<1>1. ASSUME NEW u \in Threads, NEW k \in Heights, NEW m \in Gotos,
             GotoStep(u, k, m[1], m[2])
      PROVE  Goal
  <2>1. CASE u = t /\ i = k
    BY <1>1, <2>1
  <2>2. CASE u = t /\ i # k
    <3>1. i \in 1 .. k - 1 /\ i \in 1 .. k
      BY <1>1, <2>2 DEF GotoStep, Height, Heights
    <3>2. i \in DOMAIN stack'[t] /\ stack'[t][i] = stack[t][i]
      BY <1>1, <2>2, <3>1 DEF GotoStep, Keeps
    <3> QED BY <3>2
  <2>3. CASE u # t
    BY <1>1, <2>3 DEF GotoStep, Others
  <2> QED BY <2>1, <2>2, <2>3
<1>2. ASSUME NEW u \in Threads, NEW k \in Heights, NEW m \in Calls,
             CallStep(u, k, m[1], m[2], m[3])
      PROVE  Goal
  <2>1. CASE u = t /\ i = k
    BY <1>2, <2>1
  <2>2. CASE u = t /\ i # k
    <3>1. i \in 1 .. k - 1 /\ i \in 1 .. k + 1
      BY <1>2, <2>2 DEF CallStep, Height, Heights
    <3>2. i \in DOMAIN stack'[t] /\ stack'[t][i] = stack[t][i]
      BY <1>2, <2>2, <3>1 DEF CallStep, Keeps
    <3> QED BY <3>2
  <2>3. CASE u # t
    BY <1>2, <2>3 DEF CallStep, Others
  <2> QED BY <2>1, <2>2, <2>3
<1>3. ASSUME NEW u \in Threads, NEW k \in Heights, NEW old \in Returns, ReturnStep(u, k, old)
      PROVE  Goal
  <2>1. CASE u = t /\ i = k
    BY <1>3, <2>1
  <2>2. CASE u = t /\ i # k
    <3>1. i \in 1 .. k - 1
      BY <1>3, <2>2 DEF ReturnStep, Height, Heights
    <3>2. i \in DOMAIN stack'[t] /\ stack'[t][i] = stack[t][i]
      BY <1>3, <2>2, <3>1 DEF ReturnStep, Keeps
    <3> QED BY <3>2
  <2>3. CASE u # t
    BY <1>3, <2>3 DEF ReturnStep, Others
  <2> QED BY <2>1, <2>2, <2>3
<1>4. ASSUME NEW u \in Threads, NEW k \in Heights, NEW s \in Signals, SignalStep(u, k, s)
      PROVE  Goal
  <2>1. CASE u = t
    <3>1. i \in 1 .. k /\ i \in 1 .. k + 1
      BY <1>4, <2>1 DEF SignalStep, Heights
    <3>2. i \in DOMAIN stack'[t] /\ stack'[t][i] = stack[t][i]
      BY <1>4, <2>1, <3>1 DEF SignalStep, Keeps
    <3> QED BY <3>2
  <2>2. CASE u # t
    BY <1>4, <2>2 DEF SignalStep, Others
  <2> QED BY <2>1, <2>2
<1>5. ASSUME QuietStep PROVE Goal
  BY <1>5 DEF QuietStep
<1> HIDE DEF Goal
<1>6. Goal
  BY <1>1, <1>2, <1>3, <1>4, <1>5 DEF Steps
<1> QED BY <1>6 DEF Goal

LEMMA StackDomains ==
    ASSUME ProcessInv, NEW t \in Threads
    PROVE  DOMAIN stack[t] \subseteq Heights
<1>1. stack \in [Threads -> Seq(Places)]
  BY DEF ProcessInv, StackType
<1>2. stack[t] \in Seq(Places)
  BY <1>1
<1> QED BY <1>2, LenProperties DEF Heights

(* A handler is not left while the process runs, and what is below it      *)
(* stays as it is.                                                         *)
LEMMA HandlerStays ==
    ASSUME ProcessInv, Steps, NEW t \in Threads, NEW j \in DOMAIN stack[t],
           stack[t][j] \in HandlerPlaces
    PROVE  /\ j \in DOMAIN stack'[t] /\ stack'[t][j] \in HandlerPlaces
           /\ \A i \in DOMAIN stack[t] : i < j =>
                  i \in DOMAIN stack'[t] /\ stack'[t][i] = stack[t][i]
<1>1. CASE SpawnStep
  <2>1. Base = "spawn" /\ DOMAIN stack[Main] = 1 .. 1
    BY <1>1, SpawnBottom DEF ProcessInv
  <2>2. t # Main
    <3>1. \A i \in 1 .. 1 : i = 1
      OBVIOUS
    <3> QED BY <2>1, <3>1 DEF Base, HandlerPlaces
  <2>3. t \notin accepted
    BY <2>1 DEF Base, ProcessInv, WorkersInv
  <2>4. stack'[t] = stack[t]
    BY <1>1, <2>2, <2>3 DEF SpawnStep
  <2> QED BY <2>4
<1>2. CASE ~ SpawnStep
  <2>1. ASSUME NEW m \in Gotos, GotoStep(t, j, m[1], m[2]) PROVE FALSE
    BY <2>1 DEF GotoStep, Height, Gotos, HandlerPlaces
  <2>2. ASSUME NEW m \in Calls, j \in Heights, CallStep(t, j, m[1], m[2], m[3])
        PROVE  j \in DOMAIN stack'[t] /\ stack'[t][j] \in HandlerPlaces
    BY <2>2 DEF CallStep, Height, Calls, HandlerPlaces, Heights
  <2>3. ASSUME NEW old \in Returns, ReturnStep(t, j, old) PROVE FALSE
    BY <2>3 DEF ReturnStep, Height, Returns, HandlerPlaces
  <2>4. j \in DOMAIN stack'[t] /\ stack'[t][j] \in HandlerPlaces
    BY <1>2, <2>1, <2>2, <2>3, Fate
  <2>5. ASSUME NEW i \in DOMAIN stack[t], i < j
        PROVE  i \in DOMAIN stack'[t] /\ stack'[t][i] = stack[t][i]
    <3>1. i \in Heights /\ j \in Heights
      BY StackDomains
    <3>2. DOMAIN stack[t] # 1 .. i
      BY <2>5, <3>1 DEF Heights
    <3> QED BY <1>2, <3>2, Fate DEF GotoStep, CallStep, ReturnStep, Height
  <2> QED BY <2>4, <2>5
<1> QED BY <1>1, <1>2

-----------------------------------------------------------------------------
(***************************************************************************)
(* The graceful end.  NoneLeft is what stop() achieves: no worker runs but *)
(* the one that runTCP is about to register, below a handler, or one of    *)
(* the excuses of GracefulExit holds.  None of this ever goes away.        *)
(***************************************************************************)
Excused  == Interrupted(StopPlaces \cup HandlerPlaces) \/ HandledByWorker
CutOff   == Interrupted({"register"})
NoneLeft == Excused \/ \A c \in Workers : Done(c) \/ (CutOff /\ c \in accepted)

(* stop() is called by a handler or at the end of main.                    *)
StopCalled ==
    \A t \in Threads : \A i \in DOMAIN stack[t] : stack[t][i] \in StopPlaces =>
        \/ \E k \in DOMAIN stack[t] : k < i /\ stack[t][k] \in HandlerPlaces
        \/ t = Main /\ Base = "end"

(* The main thread goes on from join() only when none is left,             *)
AfterJoin == Has(Main, {"clear", "clearing"}) => NoneLeft

(* returns from stop() likewise,                                           *)
AfterStop ==
    \A i \in DOMAIN stack[Main] :
        /\ stack[Main][i] \in {"handlerExit", "end"}
        /\ i + 1 \in DOMAIN stack[Main] => stack[Main][i + 1] \in LogPlaces
        => NoneLeft

(* and a second stop() that returns at once leaves the first to be waited  *)
(* for, by the main thread below it;                                       *)
NotRunning == ~ isRunning => NoneLeft \/ Has(Main, {"stopClose", "join"})

(* runTCP goes on after stop() only below the handler that called it.      *)
StillAccepting == ~ isRunning /\ Base \in TCPPlaces => Excused \/ Has(Main, HandlerPlaces)

GracefulInv == StopCalled /\ AfterJoin /\ AfterStop /\ NotRunning /\ StillAccepting

LEMMA ExcusedStays ==
    ASSUME ProcessInv, Steps
    PROVE  /\ Excused => Excused'
           /\ CutOff => CutOff'
           /\ Has(Main, HandlerPlaces) => Has(Main, HandlerPlaces)'
<1>0. Main \in Threads /\ Workers \subseteq Threads
  BY DEF Threads
<1>1. ASSUME NEW t \in Threads, Has(t, HandlerPlaces) PROVE Has(t, HandlerPlaces)'
  BY <1>1, HandlerStays DEF Has
<1>2. ASSUME NEW places, Interrupted(places)
      PROVE  \E t \in Threads : \E i, j \in DOMAIN stack'[t] :
                 i < j /\ stack'[t][i] \in places /\ stack'[t][j] \in HandlerPlaces
  BY <1>2, HandlerStays DEF Interrupted, InterruptedIn
<1>3. /\ Interrupted(StopPlaces \cup HandlerPlaces)
             => Interrupted(StopPlaces \cup HandlerPlaces)'
      /\ CutOff => CutOff'
  BY <1>2 DEF CutOff, Interrupted, InterruptedIn
<1>4. HandledByWorker => HandledByWorker'
  BY <1>0, <1>1 DEF HandledByWorker
<1> QED BY <1>0, <1>1, <1>3, <1>4 DEF Excused

(* Only the main thread is ever at "register", at its bottom.              *)
LEMMA CutOffBase ==
    ASSUME StackType, Shape, CutOff
    PROVE  Base = "register"
<1>1. PICK t \in Threads : \E i \in DOMAIN stack[t] : stack[t][i] = "register"
  BY DEF CutOff, Interrupted, InterruptedIn
<1>2. PICK i \in DOMAIN stack[t] : stack[t][i] = "register"
  BY <1>1
<1>3. t = Main /\ i = 1
  BY <1>2 DEF Shape, Bottom, Upper, WorkerPlaces, HandlerPlaces, StopPlaces, LogPlaces
<1> QED BY <1>2, <1>3 DEF Base

LEMMA NoneLeftStays ==
    ASSUME ProcessInv, StackType', Steps, ~ SpawnStep, NoneLeft
    PROVE  NoneLeft'
<1>1. \A c \in Workers : stack[c] = << >> => stack'[c] = << >>
  BY Bottoms DEF ProcessInv
<1>2. ASSUME CutOff PROVE accepted' = accepted
  <2>1. Base' = "register"
    <3>1. CutOff' /\ Shape'
      BY <1>2, ExcusedStays, ShapeStep DEF ProcessInv
    <3>2. (StackType /\ Shape /\ CutOff => Base = "register")'
      BY CutOffBase, PTL
    <3> QED BY <3>1, <3>2
  <2>2. CASE QuietStep
    BY <2>2 DEF QuietStep
  <2>3. CASE ~ QuietStep
    BY <2>1, <2>3, ThreadCases DEF ProcessInv, AcceptsClient, RegistersWorker, JoinsWorkers,
       ThreadsKept
  <2> QED BY <2>2, <2>3
<1> QED BY <1>1, <1>2, ExcusedStays DEF NoneLeft, Done

(* At its end main has nothing more to do.                                 *)
LEMMA EndStays ==
    ASSUME ProcessInv, Steps, Base = "end"
    PROVE  Base' = "end"
<1>1. ~ SpawnStep
  BY SpawnBottom DEF ProcessInv
<1>2. Main \in Threads /\ 1 \in DOMAIN stack[Main] /\ stack[Main][1] = "end"
  BY DEF Threads, ProcessInv, Shape, Base
<1>3. /\ \A m \in Gotos : ~ GotoStep(Main, 1, m[1], m[2])
      /\ \A m \in Calls : ~ CallStep(Main, 1, m[1], m[2], m[3])
      /\ \A old \in Returns : ~ ReturnStep(Main, 1, old)
  BY <1>2 DEF GotoStep, CallStep, ReturnStep, Height, Gotos, Calls, Returns
<1> QED BY <1>1, <1>2, <1>3, Fate DEF Base

LEMMA StopCalledStep ==
    ASSUME ProcessInv, StopCalled, Steps
    PROVE  StopCalled'
<1> SUFFICES ASSUME NEW t \in Threads, NEW i \in DOMAIN stack'[t], stack'[t][i] \in StopPlaces
             PROVE  \/ \E k \in DOMAIN stack'[t] : k < i /\ stack'[t][k] \in HandlerPlaces
                    \/ t = Main /\ Base' = "end"
  BY DEF StopCalled
<1>1. ASSUME i \in DOMAIN stack[t], stack[t][i] \in StopPlaces
      PROVE  \/ \E k \in DOMAIN stack'[t] : k < i /\ stack'[t][k] \in HandlerPlaces
             \/ t = Main /\ Base' = "end"
  <2>1. CASE \E k \in DOMAIN stack[t] : k < i /\ stack[t][k] \in HandlerPlaces
    BY <2>1, HandlerStays
  <2>2. CASE t = Main /\ Base = "end"
    BY <2>2, EndStays
  <2> QED BY <1>1, <2>1, <2>2 DEF StopCalled
<1>2. CASE SpawnStep
  <2>1. stack'[t] = <<"register">> \/ stack'[t] = <<"loop">> \/ stack'[t] = stack[t]
    BY <1>2 DEF SpawnStep
  <2>2. \A n \in 1 .. 1 : n = 1
    OBVIOUS
  <2>3. stack'[t] = stack[t]
    BY <2>1, <2>2 DEF StopPlaces
  <2> QED BY <1>1, <2>3
<1>3. CASE ~ SpawnStep
  <2>1. CASE i \in DOMAIN stack[t] /\ stack'[t][i] = stack[t][i]
    BY <1>1, <2>1
  <2>2. ASSUME NEW m \in Gotos, i \in Heights, GotoStep(t, i, m[1], m[2])
        PROVE  i \in DOMAIN stack[t] /\ stack[t][i] \in StopPlaces
    BY <2>2 DEF GotoStep, Height, Gotos, StopPlaces, Heights
  <2>3. ASSUME NEW m \in Calls, i \in Heights, CallStep(t, i, m[1], m[2], m[3])
        PROVE  i \in DOMAIN stack[t] /\ stack[t][i] \in StopPlaces
    BY <2>3 DEF CallStep, Height, Calls, StopPlaces, Heights
  <2>4. ASSUME NEW m \in Calls, i - 1 \in Heights, CallStep(t, i - 1, m[1], m[2], m[3])
        PROVE  \/ \E k \in DOMAIN stack'[t] : k < i /\ stack'[t][k] \in HandlerPlaces
               \/ t = Main /\ Base' = "end"
    <3>1. /\ DOMAIN stack[t] = 1 .. i - 1 /\ stack[t][i - 1] = m[1]
          /\ DOMAIN stack'[t] = 1 .. i - 1 + 1
          /\ stack'[t][i - 1] = m[2] /\ stack'[t][i - 1 + 1] = m[3]
      BY <2>4 DEF CallStep, Height
    <3>2. i \in Nat /\ i - 1 + 1 = i /\ i - 1 < i /\ i - 1 \in 1 .. i - 1 + 1 /\ i - 1 \in 1 .. i - 1
      BY <2>4, <3>1 DEF Heights
    <3>3. m[2] = "handlerExit" \/ (m[1] = "return" /\ m[2] = "end")
      BY <3>1, <3>2 DEF Calls, StopPlaces
    <3>4. CASE m[2] = "handlerExit"
      BY <3>1, <3>2, <3>4 DEF HandlerPlaces
    <3>5. CASE m[1] = "return" /\ m[2] = "end"
      <4>1. t = Main /\ i - 1 = 1
        BY <3>1, <3>2, <3>5 DEF ProcessInv, Shape, Bottom, Upper, WorkerPlaces, HandlerPlaces,
            StopPlaces, LogPlaces
      <4> QED BY <3>1, <3>5, <4>1 DEF Base
    <3> QED BY <3>3, <3>4, <3>5
  <2>5. ASSUME NEW s \in Signals, i - 1 \in Heights, SignalStep(t, i - 1, s)
        PROVE  FALSE
    <3>1. i - 1 + 1 = i
      BY <2>5 DEF SignalStep, Heights
    <3> QED BY <2>5, <3>1 DEF SignalStep, StopPlaces
  <2> QED BY <1>1, <1>3, <2>1, <2>2, <2>3, <2>4, <2>5, Origin
<1> QED BY <1>2, <1>3

(* A call of stop() by a worker is an excuse, and one above runTCP's place *)
(* "register" cuts off the worker there.                                   *)
LEMMA StopExcuses ==
    ASSUME ProcessInv, StopCalled, NEW t \in Threads, NEW i \in DOMAIN stack[t],
           stack[t][i] \in StopPlaces
    PROVE  /\ t # Main => Excused
           /\ Base = "register" => Excused \/ CutOff
           /\ Base = "end" \/ Excused \/ Has(Main, HandlerPlaces)
<1>1. t = Main \/ t \in Workers
  BY DEF Threads
<1>2. ASSUME NEW k \in DOMAIN stack[t], stack[t][k] \in HandlerPlaces
      PROVE  /\ t # Main => Excused
             /\ t = Main => Has(Main, HandlerPlaces)
             /\ t = Main /\ Base = "register" => CutOff
  <2>1. t # Main => HandledByWorker
    BY <1>1, <1>2 DEF HandledByWorker, Has
  <2>2. t = Main => Has(Main, HandlerPlaces)
    BY <1>2 DEF Has
  <2>3. ASSUME t = Main, Base = "register" PROVE CutOff
    <3>1. 1 \in DOMAIN stack[t] /\ stack[t][1] = "register"
      BY <2>3 DEF ProcessInv, Shape, Base
    <3>2. k \in Nat /\ 1 < k
      <4>1. k \in Heights /\ k # 1
        BY <1>2, <3>1, StackDomains DEF HandlerPlaces
      <4> QED BY <4>1 DEF Heights
    <3> QED BY <1>2, <3>1, <3>2 DEF CutOff, Interrupted, InterruptedIn
  <2> QED BY <2>1, <2>2, <2>3 DEF Excused
<1>3. \/ \E k \in DOMAIN stack[t] : stack[t][k] \in HandlerPlaces
      \/ t = Main /\ Base = "end"
  BY DEF StopCalled
<1> QED BY <1>2, <1>3

(* What a thread that goes on from join() knows.                           *)
LEMMA JoinLeavesNone ==
    ASSUME ProcessInv, StopCalled, NEW t \in Threads, NEW i \in Heights,
           NEW new, GotoStep(t, i, "join", new)
    PROVE  NoneLeft
<1>1. i \in DOMAIN stack[t] /\ stack[t][i] \in StopPlaces
  BY DEF GotoStep, Height, StopPlaces, Heights
<1>2. Base = "register" => Excused \/ CutOff
  BY <1>1, StopExcuses
<1>3. \A n \in DOMAIN clientThreads : Done(clientThreads[n])
  BY DEF GotoStep, Effect, ThreadsEffect
<1>4. ASSUME NEW c \in Workers PROVE Done(c) \/ (Base = "register" /\ c \in accepted)
  BY <1>3, <1>4 DEF ProcessInv, WorkersInv, InThreads, Base, Done
<1> QED BY <1>2, <1>4 DEF NoneLeft

LEMMA AfterJoinStep ==
    ASSUME ProcessInv, StackType', StopCalled, AfterJoin, Steps
    PROVE  AfterJoin'
<1> SUFFICES ASSUME NEW i \in DOMAIN stack'[Main], stack'[Main][i] \in {"clear", "clearing"}
             PROVE  NoneLeft'
  BY DEF AfterJoin, Has
<1>0. Main \in Threads
  BY DEF Threads
<1>1. ~ SpawnStep
  <2> SUFFICES ASSUME SpawnStep PROVE FALSE
    OBVIOUS
  <2>1. stack'[Main] = <<"register">> /\ \A n \in 1 .. 1 : n = 1
    BY <1>0 DEF SpawnStep
  <2> QED BY <2>1
<1>2. CASE i \in DOMAIN stack[Main] /\ stack[Main][i] \in {"clear", "clearing"}
  BY <1>1, <1>2, NoneLeftStays DEF AfterJoin, Has
<1>3. ASSUME NEW m \in Gotos, i \in Heights, GotoStep(Main, i, m[1], m[2])
      PROVE  NoneLeft'
  <2>1. i \in DOMAIN stack[Main] /\ stack[Main][i] = m[1] /\ stack'[Main][i] = m[2]
    BY <1>3 DEF GotoStep, Height, Heights
  <2>2. m[1] = "join" \/ m[1] = "clear"
    BY <2>1 DEF Gotos
  <2>3. CASE m[1] = "join"
    BY <1>0, <1>1, <1>3, <2>3, JoinLeavesNone, NoneLeftStays
  <2> QED BY <1>2, <2>1, <2>2, <2>3
<1>4. ASSUME NEW m \in Calls, NEW k \in Heights, k = i \/ k = i - 1,
             CallStep(Main, k, m[1], m[2], m[3])
      PROVE  FALSE
  <2>1. stack'[Main][k] = m[2] /\ stack'[Main][k + 1] = m[3] /\ DOMAIN stack'[Main] = 1 .. k + 1
    BY <1>4 DEF CallStep
  <2>2. k = i \/ k + 1 = i
    BY <1>4, <2>1 DEF Heights
  <2> QED BY <2>1, <2>2 DEF Calls
<1>5. ASSUME NEW s \in Signals, i - 1 \in Heights, SignalStep(Main, i - 1, s)
      PROVE  FALSE
  <2>1. i - 1 + 1 = i
    BY <1>5 DEF SignalStep, Heights
  <2> QED BY <1>5, <2>1 DEF SignalStep
<1> QED BY <1>0, <1>1, <1>2, <1>3, <1>4, <1>5, Origin

LEMMA AfterStopStep ==
    ASSUME ProcessInv, StackType', StopCalled, AfterJoin, AfterStop, NotRunning, Steps
    PROVE  AfterStop'
<1> SUFFICES ASSUME NEW i \in DOMAIN stack'[Main],
                    stack'[Main][i] \in {"handlerExit", "end"},
                    i + 1 \in DOMAIN stack'[Main] => stack'[Main][i + 1] \in LogPlaces
             PROVE  NoneLeft'
  BY DEF AfterStop
<1>0. Main \in Threads
  BY DEF Threads
<1>1. ~ SpawnStep
  <2> SUFFICES ASSUME SpawnStep PROVE FALSE
    OBVIOUS
  <2>1. stack'[Main] = <<"register">> /\ \A n \in 1 .. 1 : n = 1
    BY <1>0 DEF SpawnStep
  <2> QED BY <2>1
<1>2. CASE NoneLeft
  BY <1>1, <1>2, NoneLeftStays
<1>3. ASSUME i \in DOMAIN stack[Main], stack'[Main][i] = stack[Main][i]
      PROVE  NoneLeft
  <2>0. i \in Heights
    BY <1>0, <1>3, StackDomains
  <2>1. CASE i + 1 \notin DOMAIN stack[Main] \/ stack[Main][i + 1] \in LogPlaces
    BY <1>3, <2>1 DEF AfterStop
  <2>2. CASE i + 1 \in DOMAIN stack[Main] /\ stack[Main][i + 1] \notin LogPlaces
    <3>1. ~ (i + 1 \in DOMAIN stack'[Main] /\ stack'[Main][i + 1] = stack[Main][i + 1])
      BY <2>2
    <3>2. ASSUME NEW m \in Gotos, i + 1 \in Heights, GotoStep(Main, i + 1, m[1], m[2])
          PROVE  FALSE
      <4>1. /\ stack[Main][i + 1] = m[1] /\ stack'[Main][i + 1] = m[2]
            /\ i + 1 \in DOMAIN stack'[Main]
        BY <3>2 DEF GotoStep, Height, Heights
      <4> QED BY <2>2, <4>1 DEF Gotos, LogPlaces
    <3>3. ASSUME NEW m \in Calls, i + 1 \in Heights, CallStep(Main, i + 1, m[1], m[2], m[3])
          PROVE  FALSE
      <4>1. stack'[Main][i + 1] = m[2] /\ i + 1 \in DOMAIN stack'[Main]
        BY <3>3, SMTT(40) DEF CallStep, Heights
      <4> QED BY <4>1 DEF Calls, LogPlaces
    <3>4. ASSUME NEW old \in Returns, i + 1 \in Heights, ReturnStep(Main, i + 1, old)
          PROVE  NoneLeft
      <4>1. /\ DOMAIN stack[Main] = 1 .. i + 1 /\ stack[Main][i + 1] = old
            /\ old = "stop" => ~ isRunning
        BY <3>4 DEF ReturnStep, Height, Effect
      <4>2. old # "finish"
        BY <1>0, <2>0, <2>2, <4>1 DEF ProcessInv, Shape, Upper, HandlerPlaces, StopPlaces,
            LogPlaces, Bottom, StartPlaces, TCPPlaces, UDPPlaces, Heights
      <4>3. CASE old = "clearing"
        BY <2>2, <4>1, <4>3 DEF AfterJoin, Has
      <4>4. CASE old = "stop"
        <5> SUFFICES ASSUME Has(Main, {"stopClose", "join"}) PROVE NoneLeft
          BY <4>1, <4>4 DEF NotRunning
        <5>1. PICK n \in DOMAIN stack[Main] : stack[Main][n] \in {"stopClose", "join"}
          BY DEF Has
        <5>2. n # i + 1 /\ n # i
          BY <1>3, <4>1, <4>4, <5>1
        <5>3. n \in 1 .. i + 1
          BY <4>1
        <5>4. n < i /\ i # 1
          BY <2>0, <5>2, <5>3 DEF Heights
        <5>5. stack[Main][i] = "handlerExit"
          BY <1>0, <1>3, <5>4 DEF ProcessInv, Shape, Upper, HandlerPlaces, StopPlaces, LogPlaces
        <5>6. stack[Main][n] \in StopPlaces /\ stack[Main][i] \in HandlerPlaces
          BY <5>1, <5>5 DEF StopPlaces, HandlerPlaces
        <5>7. Interrupted(StopPlaces \cup HandlerPlaces)
          BY <1>0, <1>3, <5>4, <5>6 DEF Interrupted, InterruptedIn
        <5> QED BY <5>7 DEF Excused, NoneLeft
      <4>5. old # "write"
        BY <2>2, <4>1 DEF LogPlaces
      <4> QED BY <4>2, <4>3, <4>4, <4>5 DEF Returns
    <3> QED BY <1>0, <1>1, <2>2, <3>1, <3>2, <3>3, <3>4, Fate, SMTT(60)
  <2> QED BY <2>1, <2>2
<1>4. ASSUME NEW m \in Gotos, i \in Heights, GotoStep(Main, i, m[1], m[2])
      PROVE  FALSE
  BY <1>4 DEF GotoStep, Gotos
<1>5. ASSUME NEW m \in Calls, i \in Heights, CallStep(Main, i, m[1], m[2], m[3])
      PROVE  NoneLeft
  <2>1. /\ stack[Main][i] = m[1] /\ stack'[Main][i] = m[2] /\ i \in DOMAIN stack[Main]
        /\ i + 1 \in DOMAIN stack'[Main] /\ stack'[Main][i + 1] = m[3]
    BY <1>5, SMTT(40) DEF CallStep, Height, Heights
  <2>2. m[1] = "arguments"
    BY <2>1 DEF Calls, LogPlaces
  <2>3. i = 1
    BY <1>0, <2>1, <2>2 DEF ProcessInv, Shape, Upper, HandlerPlaces, StopPlaces, LogPlaces
  <2>4. stack[Main][1] \in Starting
    BY <2>1, <2>2, <2>3 DEF Starting
  <2> QED BY <2>4 DEF ProcessInv, WorkersInv, NoneLeft, Done
<1>6. ASSUME NEW m \in Calls, i - 1 \in Heights, CallStep(Main, i - 1, m[1], m[2], m[3])
      PROVE  FALSE
  <2>1. i - 1 + 1 = i
    BY <1>6 DEF CallStep, Heights
  <2>2. stack'[Main][i] = m[3]
    BY <1>6, <2>1 DEF CallStep
  <2> QED BY <2>2 DEF Calls
<1>7. ASSUME NEW s \in Signals, i - 1 \in Heights, SignalStep(Main, i - 1, s)
      PROVE  FALSE
  <2>1. i - 1 + 1 = i
    BY <1>7 DEF SignalStep, Heights
  <2> QED BY <1>7, <2>1 DEF SignalStep
<1> QED BY <1>0, <1>1, <1>2, <1>3, <1>4, <1>5, <1>6, <1>7, Origin

(* Who clears isRunning.                                                   *)
LEMMA FlagCleared ==
    ASSUME Steps, isRunning' # isRunning, ~ isRunning'
    PROVE  \E t \in Threads, k \in Heights : GotoStep(t, k, "stopFlag", "stopClose")
<1>1. ASSUME NEW t \in Threads, NEW k \in Heights, NEW m \in Gotos, GotoStep(t, k, m[1], m[2])
      PROVE  \E u \in Threads, n \in Heights : GotoStep(u, n, "stopFlag", "stopClose")
  <2>1. m[1] = "stopFlag"
    BY <1>1 DEF GotoStep, Effect
  <2>2. m[2] = "stopClose"
    BY <2>1 DEF Gotos
  <2> QED BY <1>1, <2>1, <2>2
<1>2. ASSUME NEW t \in Threads, NEW k \in Heights, NEW m \in Calls,
             CallStep(t, k, m[1], m[2], m[3])
      PROVE  FALSE
  <2>1. m[1] # "stopFlag"
    BY DEF Calls
  <2> QED BY <1>2, <2>1 DEF CallStep, Effect
<1>3. ASSUME NEW t \in Threads, NEW k \in Heights, NEW old \in Returns, ReturnStep(t, k, old)
      PROVE  FALSE
  BY <1>3 DEF ReturnStep, Effect, Returns
<1>4. ASSUME NEW t \in Threads, NEW k \in Heights, NEW s \in Signals, SignalStep(t, k, s)
      PROVE  FALSE
  BY <1>4 DEF SignalStep
<1>5. ~ SpawnStep /\ ~ QuietStep
  BY DEF SpawnStep, QuietStep
<1> QED BY <1>1, <1>2, <1>3, <1>4, <1>5 DEF Steps

LEMMA NotRunningStep ==
    ASSUME ProcessInv, StackType', StopCalled, NotRunning, StillAccepting, Steps
    PROVE  NotRunning'
<1> SUFFICES ASSUME ~ isRunning' PROVE NoneLeft' \/ Has(Main, {"stopClose", "join"})'
  BY DEF NotRunning
<1>0. Main \in Threads
  BY DEF Threads
<1>1. CASE SpawnStep
  <2>1. ~ isRunning
    BY <1>1 DEF SpawnStep
  <2>2. Base = "spawn" /\ DOMAIN stack[Main] = 1 .. 1
    BY <1>1, SpawnBottom DEF ProcessInv
  <2>3. ~ Has(Main, HandlerPlaces)
    <3>1. \A n \in 1 .. 1 : n = 1
      OBVIOUS
    <3> QED BY <2>2, <3>1 DEF Has, Base, HandlerPlaces
  <2>4. Excused
    BY <2>1, <2>2, <2>3 DEF StillAccepting, TCPPlaces
  <2> QED BY <2>4, ExcusedStays DEF NoneLeft
<1>2. CASE ~ SpawnStep /\ NoneLeft
  BY <1>2, NoneLeftStays
<1>3. CASE isRunning /\ ~ SpawnStep
  <2>1. PICK t \in Threads, k \in Heights : GotoStep(t, k, "stopFlag", "stopClose")
    BY <1>3, FlagCleared
  <2>2. CASE t = Main
    BY <2>1, <2>2 DEF Has, GotoStep, Heights
  <2>3. CASE t # Main
    <3>1. k \in DOMAIN stack[t] /\ stack[t][k] \in StopPlaces
      BY <2>1 DEF GotoStep, Height, StopPlaces, Heights
    <3>2. Excused
      BY <2>3, <3>1, StopExcuses
    <3> QED BY <3>2, ExcusedStays DEF NoneLeft
  <2> QED BY <2>2, <2>3
<1>4. ASSUME ~ isRunning, ~ SpawnStep, NEW i \in DOMAIN stack[Main],
             stack[Main][i] \in {"stopClose", "join"}
      PROVE  NoneLeft' \/ Has(Main, {"stopClose", "join"})'
  <2>1. CASE i \in DOMAIN stack'[Main] /\ stack'[Main][i] = stack[Main][i]
    BY <1>4, <2>1 DEF Has
  <2>2. ASSUME NEW m \in Gotos, i \in Heights, GotoStep(Main, i, m[1], m[2])
        PROVE  NoneLeft' \/ Has(Main, {"stopClose", "join"})'
    <3>1. stack[Main][i] = m[1] /\ stack'[Main][i] = m[2] /\ i \in DOMAIN stack'[Main]
      BY <2>2 DEF GotoStep, Height, Heights
    <3>2. CASE m[1] = "join"
      BY <1>0, <1>4, <2>2, <3>2, JoinLeavesNone, NoneLeftStays
    <3>3. CASE m[1] # "join"
      <4>1. m[2] = "join"
        BY <1>4, <3>1, <3>3 DEF Gotos
      <4> QED BY <3>1, <4>1 DEF Has
    <3> QED BY <3>2, <3>3
  <2>3. ASSUME NEW m \in Calls, CallStep(Main, i, m[1], m[2], m[3]) PROVE FALSE
    BY <1>4, <2>3 DEF CallStep, Height, Calls
  <2>4. ASSUME NEW old \in Returns, ReturnStep(Main, i, old) PROVE FALSE
    BY <1>4, <2>4 DEF ReturnStep, Height, Returns
  <2> QED BY <1>0, <1>4, <2>1, <2>2, <2>3, <2>4, Fate
<1> QED BY <1>1, <1>2, <1>3, <1>4 DEF NotRunning, Has

LEMMA StillAcceptingStep ==
    ASSUME ProcessInv, StackType', StopCalled, StillAccepting, Steps
    PROVE  StillAccepting'
<1> SUFFICES ASSUME ~ isRunning', Base' \in TCPPlaces
             PROVE  Excused' \/ Has(Main, HandlerPlaces)'
  BY DEF StillAccepting
<1>0. Main \in Threads
  BY DEF Threads
<1>1. CASE Excused \/ Has(Main, HandlerPlaces)
  BY <1>1, ExcusedStays
<1>2. CASE isRunning
  <2>1. PICK t \in Threads, k \in Heights : GotoStep(t, k, "stopFlag", "stopClose")
    BY <1>2, FlagCleared
  <2>2. k \in DOMAIN stack[t] /\ stack[t][k] \in StopPlaces
    BY <2>1 DEF GotoStep, Height, StopPlaces, Heights
  <2>3. Base # "end"
    BY EndStays DEF TCPPlaces
  <2> QED BY <1>1, <2>2, <2>3, StopExcuses
<1>3. CASE ~ isRunning /\ Base \in TCPPlaces
  BY <1>1, <1>3 DEF StillAccepting
<1>4. CASE ~ isRunning /\ Base \notin TCPPlaces
  <2>1. ~ SpawnStep
    BY <1>4, SpawnBottom DEF ProcessInv, TCPPlaces
  <2>2. Base' # Base
    BY <1>4
  <2>3. ASSUME NEW m \in Gotos, Base = m[1], Base' = m[2] PROVE FALSE
    BY <1>4, <2>3 DEF Gotos, TCPPlaces
  <2>4. ASSUME NEW m \in Calls, CallStep(Main, 1, m[1], m[2], m[3]), Base = m[1], Base' = m[2]
        PROVE  FALSE
    <3>1. m[1] = "started"
      BY <1>4, <2>4 DEF Calls, TCPPlaces
    <3>2. isRunning'
      BY <2>4, <3>1 DEF CallStep, Effect
    <3> QED BY <3>2
  <2> QED BY <2>1, <2>2, <2>3, <2>4, Bottoms DEF ProcessInv, Base
<1> QED BY <1>2, <1>3, <1>4

LEMMA GracefulInvStep ==
    ASSUME ProcessInv, GracefulInv, [Next]_vars
    PROVE  GracefulInv'
<1>1. Steps /\ StackType'
  BY NextTakesStep DEF ProcessInv
<1> QED BY <1>1, StopCalledStep, AfterJoinStep, AfterStopStep, NotRunningStep,
    StillAcceptingStep DEF GracefulInv

(* Where the process exits, no worker is left or the exit is excused.      *)
LEMMA ExitStep ==
    ASSUME ProcessInv, GracefulInv, NEW t \in Threads, Exits(t)
    PROVE  NoneLeft
<1>1. /\ stack[t] \in Seq(Places) /\ stack[t] # << >>
      /\ stack[t][Len(stack[t])] = "handlerExit" \/ (t = Main /\ stack[t][Len(stack[t])] = "end")
  BY DEF Exits, At, Last, ProcessInv, StackType
<1>2. Len(stack[t]) \in DOMAIN stack[t] /\ Len(stack[t]) + 1 \notin DOMAIN stack[t]
  BY <1>1, EmptySeq, LenProperties
<1>3. CASE t = Main
  BY <1>1, <1>2, <1>3 DEF GracefulInv, AfterStop
<1>4. CASE t # Main
  <2>1. t \in Workers /\ stack[t][Len(stack[t])] \in HandlerPlaces
    BY <1>1, <1>4 DEF Threads, HandlerPlaces
  <2>2. HandledByWorker
    BY <1>2, <2>1 DEF HandledByWorker, Has
  <2> QED BY <2>2 DEF NoneLeft, Excused
<1> QED BY <1>3, <1>4

LEMMA GracefulInvCorrect == Spec => []GracefulInv
<1>1. Init => GracefulInv
  <2> SUFFICES ASSUME Init PROVE GracefulInv
    OBVIOUS
  <2>1. Base = "arguments"
    BY InitialStack DEF Base, Init
  <2>2. NoneLeft
    BY InitialStack DEF NoneLeft
  <2>3. StopCalled
    BY InitialStack DEF StopCalled, StopPlaces
  <2>4. AfterJoin /\ AfterStop /\ NotRunning
    BY <2>2 DEF AfterJoin, AfterStop, NotRunning
  <2>5. StillAccepting
    BY <2>1 DEF StillAccepting, TCPPlaces
  <2> QED BY <2>3, <2>4, <2>5 DEF GracefulInv
<1>2. ProcessInv /\ GracefulInv /\ [Next]_vars => GracefulInv'
  BY GracefulInvStep
<1> QED BY <1>1, <1>2, ProcessInvCorrect, PTL DEF Spec

(* exit() and the return of main leave no worker running, but for signals  *)
(* that strike again while the server is being stopped, or that a worker   *)
(* handles; one that strikes between the start of a thread and its place   *)
(* in clientThreads leaves that thread running and no other.               *)
THEOREM ExitIsGraceful == Spec => []GracefulExit
<1>1. Init => GracefulExit
  BY DEF Init, GracefulExit
<1>2. ProcessInv /\ GracefulInv /\ GracefulExit /\ [Next]_vars => GracefulExit'
  <2> SUFFICES ASSUME ProcessInv, GracefulInv, GracefulExit, [Next]_vars, ended' = "exited"
               PROVE  NoneLeft'
    BY DEF GracefulExit, NoneLeft, Excused, CutOff
  <2>1. NoneLeft /\ UNCHANGED <<stack, accepted>>
    <3>1. CASE ended = "exited"
      BY <3>1, Halted DEF GracefulExit, NoneLeft, Excused, CutOff, vars
    <3>2. CASE ended # "exited"
      <4>1. UNCHANGED <<stack, accepted>> /\ \E t \in Threads : Aborts(t) \/ Exits(t)
        BY <3>2, EndStep
      <4>2. \E t \in Threads : Exits(t)
        BY <4>1 DEF Aborts
      <4> QED BY <4>1, <4>2, ExitStep
    <3> QED BY <3>1, <3>2
  <2> QED BY <2>1 DEF NoneLeft, Excused, CutOff, Interrupted, InterruptedIn, HandledByWorker,
      Has, Done
<1> QED BY <1>1, <1>2, ProcessInvCorrect, GracefulInvCorrect, PTL DEF Spec

-----------------------------------------------------------------------------
(***************************************************************************)
(* Who waits for itself.  Above the places that hold a mutex and call      *)
(* nothing there is only a handler.                                        *)
(***************************************************************************)
Covered ==
    \A t \in Threads : \A i \in DOMAIN stack[t] :
        stack[t][i] \in {"write", "updating"} /\ i + 1 \in DOMAIN stack[t] =>
            stack[t][i + 1] \in HandlerPlaces

LEMMA CoveredStep ==
    ASSUME ProcessInv, Covered, Steps
    PROVE  Covered'
<1> SUFFICES ASSUME NEW t \in Threads, NEW i \in DOMAIN stack'[t],
                    stack'[t][i] \in {"write", "updating"}, i + 1 \in DOMAIN stack'[t]
             PROVE  stack'[t][i + 1] \in HandlerPlaces
  BY DEF Covered
<1>1. CASE SpawnStep
  <2>1. ~ (DOMAIN stack'[t] = 1 .. 1)
    OBVIOUS
  <2>2. stack'[t] = stack[t]
    BY <1>1, <2>1 DEF SpawnStep
  <2> QED BY <2>2 DEF Covered
<1>2. CASE ~ SpawnStep
  <2>0. \A k \in Heights : i \in 1 .. k => i \in Heights /\ i - 1 + 1 = i /\ i + 1 - 1 = i
    BY DEF Heights
  <2>1. ASSUME NEW m \in Gotos, GotoStep(t, i, m[1], m[2]) PROVE FALSE
    <3>1. DOMAIN stack'[t] = 1 .. i
      BY <2>1 DEF GotoStep
    <3> QED BY <3>1
  <2>2. ASSUME NEW m \in Calls, CallStep(t, i, m[1], m[2], m[3]) PROVE FALSE
    BY <2>2 DEF CallStep, Calls
  <2>3. ASSUME NEW m \in Calls, i - 1 \in Heights, CallStep(t, i - 1, m[1], m[2], m[3])
        PROVE  FALSE
    <3>1. stack'[t][i] = m[3]
      BY <2>3 DEF CallStep, Heights
    <3> QED BY <3>1 DEF Calls
  <2>4. ASSUME NEW s \in Signals, i - 1 \in Heights, SignalStep(t, i - 1, s) PROVE FALSE
    <3>1. stack'[t][i] = "handler"
      BY <2>4 DEF SignalStep, Heights
    <3> QED BY <3>1
  <2>5. i \in DOMAIN stack[t] /\ stack[t][i] \in {"write", "updating"}
    BY <1>2, <2>1, <2>2, <2>3, <2>4, Origin
  <2>6. i \in Heights
    BY <2>5, StackDomains
  <2>7. CASE i + 1 \in DOMAIN stack[t]
    BY <2>5, <2>7, HandlerStays DEF Covered
  <2>8. ASSUME NEW n \in DOMAIN stack'[t], n = i + 1, n \notin DOMAIN stack[t]
        PROVE  stack'[t][n] \in HandlerPlaces
    <3>1. ASSUME NEW m \in Gotos, GotoStep(t, n, m[1], m[2]) PROVE FALSE
      BY <2>6, <2>8, <3>1 DEF GotoStep, Height, Heights
    <3>2. ASSUME NEW m \in Calls, CallStep(t, n, m[1], m[2], m[3]) PROVE FALSE
      BY <2>6, <2>8, <3>2 DEF CallStep, Height, Heights
    <3>3. n - 1 = i
      BY <2>6, <2>8 DEF Heights
    <3>4. ASSUME NEW s \in Signals, SignalStep(t, n - 1, s)
          PROVE  stack'[t][n] \in HandlerPlaces
      BY <2>8, <3>3, <3>4 DEF SignalStep, HandlerPlaces
    <3>5. ASSUME NEW m \in Calls, CallStep(t, n - 1, m[1], m[2], m[3]) PROVE FALSE
      BY <2>2, <3>3, <3>5
    <3> QED BY <1>2, <2>8, <3>1, <3>2, <3>4, <3>5, Origin
  <2> QED BY <2>7, <2>8
<1> QED BY <1>1, <1>2

LEMMA CoveredCorrect == Spec => []Covered
<1>1. Init => Covered
  BY InitialStack DEF Covered
<1>2. ProcessInv /\ Covered /\ [Next]_vars => Covered'
  BY NextTakesStep, CoveredStep DEF ProcessInv
<1> QED BY <1>1, <1>2, ProcessInvCorrect, PTL DEF Spec

(* A thread locks a mutex that it holds only in the handler of a signal    *)
(* that struck it in Logger::log, updateClientActivity or                  *)
(* checkClientTimeouts.                                                    *)
THEOREM SelfDeadlockNeedsSignal == Spec => []DeadlockNeedsSignal
<1>1. ProcessInv /\ SignalInv /\ StopCalled /\ Covered => DeadlockNeedsSignal
  <2> SUFFICES ASSUME ProcessInv, SignalInv, StopCalled, Covered,
                      NEW t \in Threads, WaitsForItself(t)
               PROVE  InterruptedIn(t, {"write", "updating", "expiring"})
    BY DEF DeadlockNeedsSignal, StruckInLock
  <2>1. PICK k \in DOMAIN stack[t] : stack[t][k] = Last(stack[t]) /\ DOMAIN stack[t] = 1 .. k
    <3>1. stack[t] \in Seq(Places) /\ stack[t] # << >>
      BY DEF WaitsForItself, At, ProcessInv, StackType
    <3>2. Len(stack[t]) \in DOMAIN stack[t] /\ DOMAIN stack[t] = 1 .. Len(stack[t])
      BY <3>1, EmptySeq, LenProperties
    <3> QED BY <3>2 DEF Last
  <2>2. \A i \in DOMAIN stack[t] : i \in Heights
    BY StackDomains
  <2>3. ASSUME NEW i \in DOMAIN stack[t], i # k, stack[t][i] \in {"write", "updating"}
        PROVE  InterruptedIn(t, {"write", "updating", "expiring"})
    <3>1. i + 1 \in DOMAIN stack[t] /\ i < i + 1
      BY <2>1, <2>2, <2>3 DEF Heights
    <3> QED BY <2>3, <3>1 DEF Covered, InterruptedIn
  <2>4. CASE At(t, "log") /\ logMutex = t
    <3>1. PICK i \in DOMAIN stack[t] : stack[t][i] = "write"
      BY <2>4 DEF ProcessInv, MutexInv, HeldBy
    <3> QED BY <2>1, <2>3, <2>4, <3>1 DEF At
  <2>5. CASE At(t, "clear") /\ clientsMutex = t
    <3>1. PICK i \in DOMAIN stack[t] : stack[t][i] \in Holding
      BY <2>5 DEF ProcessInv, MutexInv, HeldBy
    <3>2. stack[t][k] = "clear" /\ i < k
      BY <2>1, <2>2, <2>5, <3>1 DEF At, Holding, Heights
    <3>3. stack[t][i] # "clearing"
      BY <3>2 DEF SignalInv, AfterFlag
    <3>4. CASE stack[t][i] = "updating"
      BY <2>3, <3>2, <3>4 DEF Heights
    <3>5. CASE stack[t][i] = "expiring"
      <4>1. i = 1 /\ t = Main
        BY <3>5 DEF ProcessInv, Shape, Bottom, Upper, WorkerPlaces, HandlerPlaces, StopPlaces,
           LogPlaces
      <4>2. PICK j \in DOMAIN stack[t] : stack[t][j] \in HandlerPlaces
        BY <3>2, <3>5, <4>1 DEF StopCalled, StopPlaces, Base
      <4>3. 1 < j
        <5>1. j # 1
          BY <3>5, <4>1, <4>2 DEF HandlerPlaces
        <5> QED BY <2>2, <5>1 DEF Heights
      <4> QED BY <3>5, <4>1, <4>2, <4>3 DEF InterruptedIn
    <3> QED BY <3>1, <3>3, <3>4, <3>5 DEF Holding
  <2>6. ASSUME NEW place \in {"activity", "timeouts"}, At(t, place), clientsMutex = t
        PROVE  FALSE
    <3>1. stack[t][k] = place
      BY <2>1, <2>6 DEF At
    <3>2. k = 1
      BY <3>1 DEF ProcessInv, Shape, Upper, HandlerPlaces, StopPlaces, LogPlaces
    <3>3. PICK i \in DOMAIN stack[t] : stack[t][i] \in Holding
      BY <2>6 DEF ProcessInv, MutexInv, HeldBy
    <3>4. i = k
      BY <2>1, <3>2, <3>3
    <3> QED BY <3>1, <3>3, <3>4 DEF Holding
  <2> QED BY <2>4, <2>5, <2>6 DEF WaitsForItself
<1> QED BY <1>1, ProcessInvCorrect, SignalInvCorrect, GracefulInvCorrect, CoveredCorrect, PTL
    DEF GracefulInv
=============================================================================
