----------------------------- MODULE EchoEvent -----------------------------
(***************************************************************************)
(* The echo servers in which one process serves all clients, told by the   *)
(* kernel which descriptors are ready: echo_selectserv, echo_epollserv,    *)
(* which is told of edges and reads once at each, and echo_EPETserv, which *)
(* is told of edges at the clients' sockets and reads them empty, without  *)
(* ever waiting in a read or a write.                                      *)
(***************************************************************************)
EXTENDS EchoSockets

VARIABLES
  step,       \* "wait", "event", "read", "write" or "none"
  events,     \* the ready descriptors that are still to be served
  fd,         \* the one that is served
  chunk       \* what was read from it and not yet written

loop == <<step, events, fd, chunk>>

EventInit ==
  /\ step = IF server \in EventServers THEN "wait" ELSE "none"
  /\ events = {} /\ fd = serv_sock /\ chunk = <<>>
----------------------------------------------------------------------------
(* select and epoll_wait.  A descriptor watched for its level stays on the *)
(* ready list; one watched for its edges leaves it.  (select's timeout     *)
(* only makes it wait again.)                                              *)
IsReady(f) == IF f = serv_sock THEN backlog # <<>> ELSE in[f] # <<>> \/ f \in shut
ByLevel == IF server = "echo_EPETserv" THEN {serv_sock} ELSE {}
Watched == IF server = "echo_selectserv" THEN registered ELSE ready

Wait ==
  /\ step = "wait"
  /\ events' = {f \in Watched : IsReady(f)}
  /\ events' # {}
  /\ ready' = events' \cap ByLevel
  /\ step' = "event"
  /\ UNCHANGED <<server, backlog, clients, in, out, hung, lost, registered, fd, chunk>>

NextEvent ==
  /\ step = "event" /\ events = {}
  /\ step' = "wait"
  /\ UNCHANGED <<sockets, events, fd, chunk>>

(* A socket that is readable when it is added is ready.                    *)
AcceptEvent ==
  /\ step = "event" /\ serv_sock \in events
  /\ LET c == Head(backlog) IN
       /\ registered' = registered \cup {c}
       /\ ready' = IF server # "echo_selectserv" /\ IsReady(c) THEN ready \cup {c} ELSE ready
  /\ backlog' = Tail(backlog)
  /\ events' = events \ {serv_sock}
  /\ UNCHANGED <<server, clients, in, out, hung, lost, step, fd, chunk>>

ClientEvent(c) ==
  /\ step = "event" /\ c \in events
  /\ fd' = c
  /\ events' = events \ {c}
  /\ step' = "read"
  /\ UNCHANGED <<sockets, chunk>>

ReadEvent ==
  /\ step = "read" /\ in[fd] # <<>>
  /\ Take(fd)
  /\ chunk' = Taken(fd)
  /\ step' = "write"
  /\ UNCHANGED <<server, backlog, clients, out, hung, lost, watch, events, fd>>

CloseEvent ==
  /\ step = "read" /\ AtEnd(fd)
  /\ registered' = registered \ {fd} /\ ready' = ready \ {fd}
  /\ hung' = hung \cup {fd}
  /\ step' = "event"
  /\ UNCHANGED <<server, backlog, clients, in, out, lost, events, fd, chunk>>

(* EAGAIN: only where the socket is read until there is nothing.           *)
NothingLeft ==
  /\ step = "read" /\ server = "echo_EPETserv" /\ in[fd] = <<>> /\ fd \notin shut
  /\ step' = "event"
  /\ UNCHANGED <<sockets, events, fd, chunk>>

(* A blocking write waits for room.                                        *)
WriteEvent ==
  /\ step = "write" /\ server # "echo_EPETserv" /\ Fits(fd, chunk) > 0
  /\ Put(fd, chunk)
  /\ chunk' = Rest(chunk, Fits(fd, chunk))
  /\ step' = IF chunk' = <<>> THEN "event" ELSE "write"
  /\ UNCHANGED <<server, backlog, clients, in, hung, lost, watch, events, fd>>

(* A write that does not block adds what fits; nobody looks at its result. *)
BugWriteNow ==
  /\ step = "write" /\ server = "echo_EPETserv"
  /\ Put(fd, chunk)
  /\ lost' = IF Fits(fd, chunk) < Len(chunk) THEN lost \cup {fd} ELSE lost
  /\ chunk' = <<>>
  /\ step' = "event"
  /\ UNCHANGED <<server, backlog, clients, in, hung, watch, events, fd>>

WriteNow ==
  /\ step = "write" /\ server = "echo_EPETserv"
  /\ Put(fd, chunk)
  /\ lost' = IF Fits(fd, chunk) < Len(chunk) THEN lost \cup {fd} ELSE lost
  /\ chunk' = <<>>
  /\ step' = "read"
  /\ UNCHANGED <<server, backlog, clients, in, hung, watch, events, fd>>
----------------------------------------------------------------------------
Loop == Wait \/ NextEvent \/ AcceptEvent \/ (\E c \in Conns : ClientEvent(c)) \/ ReadEvent
        \/ CloseEvent \/ NothingLeft \/ WriteEvent \/ WriteNow
============================================================================
