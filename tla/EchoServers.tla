---------------------------- MODULE EchoServers ----------------------------
(***************************************************************************)
(* The six echo servers, one of which runs, and their clients; and what    *)
(* each of them promises.                                                  *)
(***************************************************************************)
EXTENDS EchoFork, EchoEvent

vars == <<sockets, forking, loop>>

Init == SocketsInit /\ ForkInit /\ EventInit

ClientStep(c) == Client(c) /\ UNCHANGED <<forking, loop>>
ProcessStep(c) == Process(c) /\ UNCHANGED loop
ParentStep == Parent /\ UNCHANGED loop
WriterStep == WriterProcess /\ UNCHANGED loop
HandlerStep == Handler /\ UNCHANGED loop
LoopStep == Loop /\ UNCHANGED forking

Next ==
  \/ \E c \in Conns : ClientStep(c) \/ ProcessStep(c)
  \/ ParentStep \/ WriterStep \/ HandlerStep \/ LoopStep

Spec == Init /\ [][Next]_vars

(* Every process of the server that can go on does.  Nothing is assumed of *)
(* the clients.                                                            *)
Fairness ==
  /\ WF_vars(ParentStep) /\ WF_vars(WriterStep) /\ WF_vars(HandlerStep) /\ WF_vars(LoopStep)
  /\ \A c \in Conns : WF_vars(ProcessStep(c))

FairSpec == Spec /\ Fairness
----------------------------------------------------------------------------
(* Every variable stays in its type; no socket holds more than it can.     *)
SocketsOK ==
  /\ server \in ForkServers \cup EventServers
  /\ backlog \in Seq(Conns) /\ begun \subseteq Conns
  /\ sent \in [Conns -> Nat] /\ \A c \in Conns : sent[c] <= MaxSent[c]
  /\ in \in [Conns -> Seq(Bytes)] /\ got \in [Conns -> Seq(Bytes)]
  /\ out \in [Conns -> Seq(Bytes)] /\ \A c \in Conns : Len(out[c]) <= Room
  /\ shut \subseteq begun /\ hung \subseteq begun /\ lost \subseteq begun
  /\ registered \subseteq begun \cup {serv_sock} /\ ready \subseteq registered

ParentOK ==
  /\ main \in {"accept", "fork", "close", "serve", "none"}
  /\ clnt_sock \in Conns \cup {NoConn}

ChildrenOK ==
  /\ pc \in [Conns -> {"none", "read", "write", "store", "close", "exit", "ended"}]
  /\ buf \in [Conns -> Seq(Bytes)] /\ tostore \in [Conns -> Seq(Bytes)]

StoringOK ==
  /\ writer \in {"none", "read", "exit", "ended"} /\ reads \in 0 .. Quota
  /\ pipe \in Seq(Bytes) /\ Len(pipe) <= PipeRoom /\ file \in Seq(Bytes)

ReapingOK ==
  /\ zombies \subseteq Conns \cup {Writer} /\ sigchld \in BOOLEAN
  /\ handler \in BOOLEAN /\ merged \in Nat

LoopOK ==
  /\ step \in {"wait", "event", "read", "write", "none"}
  /\ events \subseteq registered /\ fd \in Conns \cup {serv_sock}
  /\ chunk \in Seq(Bytes)

TypeOK == SocketsOK /\ ParentOK /\ ChildrenOK /\ StoringOK /\ ReapingOK /\ LoopOK

(* Every one of the servers is the echo service.                           *)
Service == INSTANCE EchoService
             WITH said <- sent, echoed <- [c \in Conns |-> got[c] \o out[c]],
                  done <- shut, over <- hung, given <- lost
ImplementsService == Service!ServiceSpec

(* A zombie stays only because of a merged signal: there are never more    *)
(* zombies than children that ended while the signal of another was        *)
(* pending, the one whose signal is pending and the one that the handler   *)
(* is going to wait for.  A signal that comes while the handler runs is    *)
(* not forgotten, and no zombie waits for a signal that has been used up.  *)
ZombiesAreMerged ==
  Cardinality(zombies) <= merged + (IF sigchld THEN 1 ELSE 0) + (IF handler THEN 1 ELSE 0)

(* The bytes of client c among those of s, in their order.                 *)
Of(c, s) ==
  LET of[n \in 0 .. Len(s)] ==
        IF n = 0 THEN <<>>
        ELSE IF s[n][1] = c THEN Append(of[n - 1], s[n]) ELSE of[n - 1]
  IN  of[Len(s)]

(* The file and the pipe have, of each client, what was echoed to it, in   *)
(* order and without a gap, up to the read that its child is working on.   *)
StoredIsEchoed ==
  server = "echo_storeserv" =>
    \A c \in Conns : Of(c, file \o pipe) \o tostore[c] = got[c] \o out[c] \o buf[c]

(* If every client that has come reads and at last shuts down, every one   *)
(* sees the end, also where one may hold up all: where a write waits in a  *)
(* process that serves several, and in echo_server, which serves the next  *)
(* only when this one ends.  Not with echo_epollserv, which may leave a    *)
(* connection or bytes for an edge that never comes, and not with          *)
(* echo_storeserv when the pipe is full and nobody reads it any more.      *)
Reads(c) == WF_vars(Hear(c) /\ UNCHANGED <<forking, loop>>)
Jammed == writer = "ended" /\ \E c \in Conns : pc[c] = "store"
EndsForAll ==
  /\ server # "echo_epollserv"
  /\ \A c \in Conns : Reads(c)
  /\ <>[](begun \subseteq shut)
  => <>[](begun \subseteq hung \/ Jammed)

(* A client that reads and at last says no more is served: what it has     *)
(* said is echoed, and when it shuts down it sees the end.  echo_mpserv    *)
(* does so whatever the other clients do, also when they never read.       *)
(* echo_EPETserv does so though the others do not read, but only when they *)
(* too say no more at last: it reads a socket until it is empty, and a     *)
(* client that always fills it keeps the server.                           *)
Served(c) == (in[c] = <<>> \/ c \in lost) /\ (c \in shut => c \in hung)
Silent(cs) == <>[][\A c \in cs : ~Say(c)]_vars
WorksAlone ==
  \A c \in Conns :
    /\ server = "echo_mpserv" /\ Reads(c) /\ Silent({c}) => []<>Served(c)
    /\ server = "echo_EPETserv" /\ Reads(c) /\ Silent(Conns) => []<>Served(c)
============================================================================
