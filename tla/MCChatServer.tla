---------------------------- MODULE MCChatServer ----------------------------
(* Instances of ChatServer for TLC: Talkers clients send a message each,   *)
(* the others only listen.                                                 *)
EXTENDS ChatServer

CONSTANT Talkers

MCTalks == {f \in [Clients -> {0, 1}] : Cardinality({c \in Clients : f[c] = 1}) = Talkers}
=============================================================================
