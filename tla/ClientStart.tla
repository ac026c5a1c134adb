------------------------------ MODULE ClientStart ------------------------------
(***************************************************************************)
(* How the client starts: the checks of main (client/ClientMain.cpp) with  *)
(* utils/Validator.cpp, and Client::connect.  An address is the sequence   *)
(* of what lies between its dots:                                          *)
(*   "octet"  a number up to 255 as it is usually written,                 *)
(*   "zeros"  the same with zeros before it,                               *)
(*   "large"  a larger number, or one that stoi refuses,                   *)
(*   "empty"  nothing,                                                     *)
(*   "word"   anything with a character that is no digit.                  *)
(* A port is a number, or NotANumber where stoi throws.                    *)
(***************************************************************************)
EXTENDS Integers, Sequences

NotANumber == -1
MIN_PORT == 1024
MAX_PORT == 65535

IsValidPort(port) == port \in MIN_PORT .. MAX_PORT

(* getline(ss, segment, '.') finds nothing behind a last dot. *)
Segments(ip) ==
    IF ip[Len(ip)] = "empty" THEN SubSeq(ip, 1, Len(ip) - 1) ELSE ip

(* Wrong variant: an empty segment passes. *)
IsValidIPWithEmpty(ip) ==
    /\ Len(Segments(ip)) = 4
    /\ \A k \in 1 .. 4 : Segments(ip)[k] \in {"octet", "zeros", "empty"}

IsValidIP(ip) ==
    /\ Len(Segments(ip)) = 4
    /\ \A k \in 1 .. 4 : Segments(ip)[k] \in {"octet", "zeros"}

(* inet_pton: four numbers, no zeros before them, nothing else. *)
InetPton(ip) == Len(ip) = 4 /\ \A k \in 1 .. 4 : ip[k] = "octet"

(* std::transform with tolower. *)
Lower(protocol) ==
    CASE protocol \in {"tcp", "TCP", "Tcp"} -> "tcp"
      [] protocol \in {"udp", "UDP", "Udp"} -> "udp"
      [] OTHER -> "other"

IsValidProtocol(protocol) == Lower(protocol) \in {"tcp", "udp"}

(* main goes on to connect. *)
Accepted(args) ==
    /\ args.port # NotANumber
    /\ IsValidIP(args.ip)
    /\ IsValidProtocol(args.protocol)
    /\ IsValidPort(args.port)

(* Client::connect; over UDP it asks nobody. *)
Connects(args, server) ==
    /\ InetPton(args.ip)
    /\ Lower(args.protocol) = "tcp" => server = "tcp"
=============================================================================
