------------------------------ MODULE EchoFork ------------------------------
(***************************************************************************)
(* The echo servers in which a process serves a client with blocking reads *)
(* and writes: echo_server, which serves one client after the other itself,*)
(* echo_mpserv, which forks a child for each, and echo_storeserv, whose    *)
(* children also send what they echo through a pipe to a child that writes *)
(* it to a file.                                                           *)
(*                                                                         *)
(* A child that ends is a zombie, and SIGCHLD is pending once however many *)
(* end; the handler waits for one.  A signal may come between any two      *)
(* steps of the parent (accept fails with EINTR and is called again).      *)
(***************************************************************************)
EXTENDS EchoSockets

CONSTANTS Quota,       \* the reads the writing child does (10)
          PipeRoom,    \* the bytes a pipe holds
          Writer       \* the child that writes the file

ASSUME WriterAssumption == Writer \notin Conns
ASSUME PipeAssumption == Quota \in Nat \ {0} /\ PipeRoom \in Nat /\ PipeRoom >= Buf

VARIABLES
  main,      \* the parent: "accept", "fork", "close", "serve" or "none"
  clnt_sock, \* the parent's, once there is one
  pc,        \* by client: its process, "none", "read", "write", "store", "close",
             \* "exit" or "ended"
  buf,       \* by client: what its process has read and not yet written
  tostore,   \* by client: what its process has read and not yet stored
  writer,    \* the writing child: "none", "read", "exit" or "ended"
  reads,     \* how many reads it has done
  pipe,      \* the bytes in the pipe
  file,      \* the bytes in the file
  zombies, sigchld, handler,   \* ended children, the signal, its handler runs
  merged     \* history: how many children ended while the signal was pending

parent == <<main, clnt_sock>>
children == <<pc, buf, tostore>>
storing == <<writer, reads, pipe, file>>
reaping == <<zombies, sigchld, handler, merged>>
forking == <<parent, children, storing, reaping>>

NoConn == "none"

ForkInit ==
  /\ main = IF server \in ForkServers THEN "accept" ELSE "none"
  /\ clnt_sock = NoConn
  /\ pc = [c \in Conns |-> "none"]
  /\ buf = [c \in Conns |-> <<>>] /\ tostore = [c \in Conns |-> <<>>]
  /\ writer = IF server = "echo_storeserv" THEN "read" ELSE "none"
  /\ reads = 0 /\ pipe = <<>> /\ file = <<>>
  /\ zombies = {} /\ sigchld = FALSE /\ handler = FALSE /\ merged = 0
----------------------------------------------------------------------------
(* The parent.                                                             *)
Accept ==
  /\ main = "accept" /\ ~handler /\ backlog # <<>>
  /\ clnt_sock' = Head(backlog)
  /\ backlog' = Tail(backlog)
  /\ IF server = "echo_server"
     THEN main' = "serve" /\ pc' = [pc EXCEPT ![Head(backlog)] = "read"]
     ELSE main' = "fork" /\ UNCHANGED pc
  /\ UNCHANGED <<server, clients, in, out, hung, lost, watch,
                 buf, tostore, storing, reaping>>

Fork ==
  /\ main = "fork" /\ ~handler
  /\ pc' = [pc EXCEPT ![clnt_sock] = "read"]
  /\ main' = "close"
  /\ UNCHANGED <<sockets, clnt_sock, buf, tostore, storing, reaping>>

ForkFails ==
  /\ main = "fork" /\ ~handler
  /\ hung' = hung \cup {clnt_sock}
  /\ lost' = lost \cup {clnt_sock}
  /\ main' = "accept" /\ clnt_sock' = NoConn
  /\ UNCHANGED <<server, backlog, clients, in, out, watch, children, storing, reaping>>

(* The client sees the end when the last process has closed its socket.    *)
HasSocket(c) == pc[c] \in {"read", "write", "store", "close"}

BugCloseParent ==
  /\ main = "close" /\ ~handler
  /\ main' = "accept" /\ clnt_sock' = NoConn
  /\ UNCHANGED <<sockets, children, storing, reaping>>

CloseParent ==
  /\ main = "close" /\ ~handler
  /\ main' = "accept" /\ clnt_sock' = NoConn
  /\ hung' = IF HasSocket(clnt_sock) THEN hung ELSE hung \cup {clnt_sock}
  /\ UNCHANGED <<server, backlog, clients, in, out, lost, watch,
                 children, storing, reaping>>
----------------------------------------------------------------------------
(* The process of a client: a child, or echo_server itself.                *)
Read(c) ==
  /\ pc[c] = "read" /\ (in[c] # <<>> \/ AtEnd(c))
  /\ IF AtEnd(c)
     THEN pc' = [pc EXCEPT ![c] = "close"] /\ UNCHANGED <<in, buf, tostore>>
     ELSE /\ Take(c)
          /\ buf' = [buf EXCEPT ![c] = Taken(c)]
          /\ tostore' = IF server = "echo_storeserv"
                        THEN [tostore EXCEPT ![c] = Taken(c)] ELSE tostore
          /\ pc' = [pc EXCEPT ![c] = "write"]
  /\ UNCHANGED <<server, backlog, clients, out, hung, lost, watch,
                 parent, storing, reaping>>

(* A write that does not fit goes on when the client has read.             *)
BugWrite(c) ==
  /\ pc[c] = "write" /\ Fits(c, buf[c]) > 0
  /\ Put(c, buf[c])
  /\ buf' = [buf EXCEPT ![c] = <<>>]
  /\ pc' = [pc EXCEPT ![c] = IF server = "echo_storeserv" THEN "store" ELSE "read"]
  /\ UNCHANGED <<server, backlog, clients, in, hung, lost, watch,
                 parent, tostore, storing, reaping>>

Write(c) ==
  /\ pc[c] = "write" /\ Fits(c, buf[c]) > 0
  /\ Put(c, buf[c])
  /\ buf' = [buf EXCEPT ![c] = Rest(@, Fits(c, @))]
  /\ pc' = [pc EXCEPT ![c] = IF Fits(c, buf[c]) < Len(buf[c]) THEN "write"
                             ELSE IF server = "echo_storeserv" THEN "store" ELSE "read"]
  /\ UNCHANGED <<server, backlog, clients, in, hung, lost, watch,
                 parent, tostore, storing, reaping>>

(* A write to a pipe of up to PIPE_BUF bytes is whole or waits.            *)
Store(c) ==
  /\ pc[c] = "store" /\ Len(pipe) + Len(tostore[c]) <= PipeRoom
  /\ pipe' = pipe \o tostore[c]
  /\ tostore' = [tostore EXCEPT ![c] = <<>>]
  /\ pc' = [pc EXCEPT ![c] = "read"]
  /\ UNCHANGED <<sockets, parent, buf, writer, reads, file, reaping>>

CloseChild(c) ==
  /\ pc[c] = "close"
  /\ hung' = IF main # "accept" /\ clnt_sock = c /\ server # "echo_server"
             THEN hung ELSE hung \cup {c}
  /\ IF server = "echo_server"
     THEN /\ main' = "accept" /\ clnt_sock' = NoConn
          /\ pc' = [pc EXCEPT ![c] = "ended"]
     ELSE /\ pc' = [pc EXCEPT ![c] = "exit"]
          /\ UNCHANGED parent
  /\ UNCHANGED <<server, backlog, clients, in, out, lost, watch,
                 buf, tostore, storing, reaping>>

(* A child ends: the parent gets a zombie and a signal.                    *)
Ends(child) ==
  /\ zombies' = zombies \cup {child}
  /\ sigchld' = TRUE
  /\ merged' = IF sigchld THEN merged + 1 ELSE merged
  /\ UNCHANGED handler

Exit(c) ==
  /\ pc[c] = "exit" /\ Ends(c)
  /\ pc' = [pc EXCEPT ![c] = "ended"]
  /\ UNCHANGED <<sockets, parent, buf, tostore, storing>>
----------------------------------------------------------------------------
(* The child that writes the file.                                         *)
BugWriterReads ==
  /\ writer = "read" /\ pipe # <<>>
  /\ file' = file \o First(pipe, Least(Buf, Len(pipe)))
  /\ pipe' = Rest(pipe, Least(Buf, Len(pipe)))
  /\ reads' = reads + 1
  /\ writer' = IF reads = Quota THEN "exit" ELSE "read"
  /\ UNCHANGED <<sockets, parent, children, reaping>>

WriterReads ==
  /\ writer = "read" /\ pipe # <<>>
  /\ file' = file \o First(pipe, Least(Buf, Len(pipe)))
  /\ pipe' = Rest(pipe, Least(Buf, Len(pipe)))
  /\ reads' = reads + 1
  /\ writer' = IF reads + 1 = Quota THEN "exit" ELSE "read"
  /\ UNCHANGED <<sockets, parent, children, reaping>>

WriterExits ==
  /\ writer = "exit" /\ Ends(Writer)
  /\ writer' = "ended"
  /\ UNCHANGED <<sockets, parent, children, reads, pipe, file>>
----------------------------------------------------------------------------
(* read_childproc: SIGCHLD is blocked while its handler runs.              *)
Signalled ==
  /\ sigchld /\ ~handler
  /\ sigchld' = FALSE /\ handler' = TRUE
  /\ UNCHANGED <<sockets, parent, children, storing, zombies, merged>>

BugReap ==
  /\ handler
  /\ handler' = FALSE /\ sigchld' = FALSE
  /\ IF zombies = {} THEN zombies' = {}
     ELSE \E child \in zombies : zombies' = zombies \ {child}
  /\ UNCHANGED <<sockets, parent, children, storing, merged>>

Reap ==
  /\ handler
  /\ handler' = FALSE
  /\ IF zombies = {} THEN zombies' = {}
     ELSE \E child \in zombies : zombies' = zombies \ {child}
  /\ UNCHANGED <<sockets, parent, children, storing, sigchld, merged>>
----------------------------------------------------------------------------
Parent == Accept \/ Fork \/ ForkFails \/ CloseParent
Process(c) == Read(c) \/ Write(c) \/ Store(c) \/ CloseChild(c) \/ Exit(c)
WriterProcess == WriterReads \/ WriterExits
Handler == Signalled \/ Reap
============================================================================
