------------------------------ MODULE RequestReply ------------------------------
(***************************************************************************)
(* What Client::sendRequest promises its caller (client/Client.h): it      *)
(* sends a request to the server and obtains the answer.  A client has one *)
(* request pending at a time; it ends with the answer to that very         *)
(* request, computed by the server from what the server received of it, or *)
(* with an error, after which the client asks nothing more.  The server    *)
(* may receive and answer a request any number of times.                   *)
(***************************************************************************)
EXTENDS Naturals

CONSTANTS Clients, MaxRequests

VARIABLES
    phase,      \* "idle", "pending", "failed" or "exited", by client
    asked,      \* how many requests the client made
    heard,      \* the requests of the client the server received
    served,     \* the requests of the client the server answered
    answered    \* the request whose answer the client holds; 0: none

vars == <<phase, asked, heard, served, answered>>

Init ==
    /\ phase = [c \in Clients |-> "idle"]
    /\ asked = [c \in Clients |-> 0]
    /\ heard = [c \in Clients |-> {}]
    /\ served = [c \in Clients |-> {}]
    /\ answered = [c \in Clients |-> 0]

(* The first send may fail at once. *)
Ask(c) ==
    /\ phase[c] = "idle"
    /\ asked[c] < MaxRequests
    /\ \E p \in {"pending", "failed"} : phase' = [phase EXCEPT ![c] = p]
    /\ asked' = [asked EXCEPT ![c] = @ + 1]
    /\ answered' = [answered EXCEPT ![c] = 0]
    /\ UNCHANGED <<heard, served>>

Hear(c) ==
    /\ \E n \in 1 .. asked[c] : heard' = [heard EXCEPT ![c] = @ \cup {n}]
    /\ UNCHANGED <<phase, asked, served, answered>>

Serve(c) ==
    /\ \E n \in heard[c] : served' = [served EXCEPT ![c] = @ \cup {n}]
    /\ UNCHANGED <<phase, asked, heard, answered>>

Answer(c) ==
    /\ phase[c] = "pending"
    /\ asked[c] \in served[c]
    /\ phase' = [phase EXCEPT ![c] = "idle"]
    /\ answered' = [answered EXCEPT ![c] = asked[c]]
    /\ UNCHANGED <<asked, heard, served>>

GiveUp(c) ==
    /\ phase[c] = "pending"
    /\ phase' = [phase EXCEPT ![c] = "failed"]
    /\ UNCHANGED <<asked, heard, served, answered>>

Leave(c) ==
    /\ phase[c] = "idle"
    /\ phase' = [phase EXCEPT ![c] = "exited"]
    /\ UNCHANGED <<asked, heard, served, answered>>

Next == \E c \in Clients :
            Ask(c) \/ Hear(c) \/ Serve(c) \/ Answer(c) \/ GiveUp(c) \/ Leave(c)

Spec == Init /\ [][Next]_vars
=============================================================================
