---------------------------- MODULE EchoSockets ----------------------------
(***************************************************************************)
(* The ground that the echo servers stand on: clients like echo_mpclient,  *)
(* which say something, shut down and read until the end, their sockets,   *)
(* and the kernel's sets of descriptors that are watched and ready.        *)
(***************************************************************************)
EXTENDS Naturals, Sequences, FiniteSets

CONSTANTS Conns,      \* the clients; client c's socket is c at both ends
          Buf,        \* BUF_SIZE: the bytes of one read
          Room,       \* the bytes a socket holds on the way to its client
          MaxSent     \* by client: the bytes it says, at most

ASSUME BoundsAssumption ==
  Buf \in Nat \ {0} /\ Room \in Nat \ {0} /\ MaxSent \in [Conns -> Nat]

VARIABLES
  server,      \* the program that runs
  backlog,     \* the connections that wait for accept
  begun,       \* the clients that have connected
  sent,        \* by client: how many bytes it has said
  in,          \* by client: its bytes that the server has not read
  out,         \* by client: the bytes on the way back to it
  got,         \* by client: the bytes it has read
  shut,        \* the clients that have shut down their side
  hung,        \* the clients whose socket the server has closed
  lost,        \* history: the clients that were refused or lost bytes
  registered,  \* the descriptors in the fd_set, or added with epoll_ctl
  ready        \* the descriptors on epoll's ready list

clients == <<begun, sent, got, shut>>
watch == <<registered, ready>>
sockets == <<server, backlog, clients, in, out, hung, lost, watch>>

serv_sock == "serv_sock"
ASSUME ServSockAssumption == serv_sock \notin Conns

ForkServers == {"echo_server", "echo_mpserv", "echo_storeserv"}
EventServers == {"echo_selectserv", "echo_epollserv", "echo_EPETserv"}
Bytes == Conns \X Nat
Least(a, b) == IF a < b THEN a ELSE b
First(s, n) == SubSeq(s, 1, n)
Rest(s, n) == SubSeq(s, n + 1, Len(s))

SocketsInit ==
  /\ server \in ForkServers \cup EventServers
  /\ backlog = <<>> /\ begun = {}
  /\ sent = [c \in Conns |-> 0]
  /\ in = [c \in Conns |-> <<>>] /\ out = [c \in Conns |-> <<>>]
  /\ got = [c \in Conns |-> <<>>]
  /\ shut = {} /\ hung = {} /\ lost = {}
  /\ registered = IF server \in EventServers THEN {serv_sock} ELSE {}
  /\ ready = {}

(* Something arrives at a descriptor: an edge, if epoll watches it.        *)
Arrives(f) ==
  ready' = IF f \in registered /\ server # "echo_selectserv" THEN ready \cup {f} ELSE ready

Connect(c) ==
  /\ c \notin begun
  /\ begun' = begun \cup {c}
  /\ backlog' = Append(backlog, c)
  /\ Arrives(serv_sock)
  /\ UNCHANGED <<server, sent, got, shut, in, out, hung, lost, registered>>

(* write_routine of the client: a line, or the end.                        *)
Say(c) ==
  /\ c \in begun \ (shut \cup hung)
  /\ \E n \in 1 .. MaxSent[c] - sent[c] :
       /\ sent' = [sent EXCEPT ![c] = @ + n]
       /\ in' = [in EXCEPT ![c] = @ \o [k \in 1 .. n |-> <<c, sent[c] + k>>]]
  /\ Arrives(c)
  /\ UNCHANGED <<server, backlog, begun, got, shut, out, hung, lost, registered>>

Shutdown(c) ==
  /\ c \in begun \ (shut \cup hung)
  /\ shut' = shut \cup {c}
  /\ Arrives(c)
  /\ UNCHANGED <<server, backlog, begun, sent, got, in, out, hung, lost, registered>>

(* read_routine of the client.                                             *)
Hear(c) ==
  /\ out[c] # <<>>
  /\ got' = [got EXCEPT ![c] = Append(@, Head(out[c]))]
  /\ out' = [out EXCEPT ![c] = Tail(@)]
  /\ UNCHANGED <<server, backlog, begun, sent, shut, in, hung, lost, watch>>

Client(c) == Connect(c) \/ Say(c) \/ Shutdown(c) \/ Hear(c)
----------------------------------------------------------------------------
(* What a server does with a socket: a read takes what there is, up to Buf *)
(* bytes, a write adds what there is room for.                             *)
AtEnd(c) == in[c] = <<>> /\ c \in shut
Taken(c) == First(in[c], Least(Buf, Len(in[c])))
Take(c) == in' = [in EXCEPT ![c] = Rest(@, Least(Buf, Len(@)))]
Fits(c, bytes) == Least(Room - Len(out[c]), Len(bytes))
Put(c, bytes) == out' = [out EXCEPT ![c] = @ \o First(bytes, Fits(c, bytes))]
============================================================================
