---------------------------- MODULE EchoService ----------------------------
(***************************************************************************)
(* What an echo server promises, however it is built: each client gets its *)
(* own bytes back, in order, and is hung up on only after it has got them  *)
(* all.  A client the server has given up (it could not fork, or dropped   *)
(* bytes) is promised nothing more.                                        *)
(***************************************************************************)
EXTENDS Naturals, Sequences

CONSTANT Conns

VARIABLES
  said,      \* by client: how many bytes it has said
  echoed,    \* by client: the bytes written back to it
  done,      \* the clients that will say no more
  over,      \* the clients that were hung up on
  given      \* the clients the server has given up

service == <<said, echoed, done, over, given>>

(* The first n bytes of client c.                                          *)
Stream(c, n) == [k \in 1 .. n |-> <<c, k>>]

ServiceInit ==
  /\ said = [c \in Conns |-> 0] /\ echoed = [c \in Conns |-> <<>>]
  /\ done = {} /\ over = {} /\ given = {}

ClientSays(c) ==
  /\ c \notin done
  /\ said'[c] > said[c] /\ said' = [said EXCEPT ![c] = said'[c]]
  /\ UNCHANGED <<echoed, done, over, given>>

ClientEnds(c) ==
  /\ done' = done \cup {c}
  /\ UNCHANGED <<said, echoed, over, given>>

Echoes(c) ==
  /\ c \notin over
  /\ given' \in {given, given \cup {c}}
  /\ echoed' = [echoed EXCEPT ![c] = echoed'[c]]
  /\ \/ c \in given'
     \/ \E n \in Len(echoed[c]) .. said[c] : echoed'[c] = Stream(c, n)
  /\ UNCHANGED <<said, done, over>>

HangsUpOn(c) ==
  /\ given' \in {given, given \cup {c}}
  /\ c \in given' \/ (c \in done /\ Len(echoed[c]) = said[c])
  /\ over' = over \cup {c}
  /\ UNCHANGED <<said, echoed, done>>

ServiceNext ==
  \E c \in Conns : ClientSays(c) \/ ClientEnds(c) \/ Echoes(c) \/ HangsUpOn(c)

ServiceSpec == ServiceInit /\ [][ServiceNext]_service
============================================================================
