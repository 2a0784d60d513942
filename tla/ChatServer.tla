---------------------------- MODULE ChatServer ----------------------------
(***************************************************************************)
(* The chat server: main accepts connections and starts a thread for each, *)
(* a thread sends whatever it reads to all of clnt_socks, under a mutex.   *)
(* main hands every thread a pointer to its one variable clnt_sock, and    *)
(* file descriptors are used again, so a thread may read a connection that *)
(* is not the one it was started for, and a slot may come to mean another. *)
(*                                                                         *)
(* Connections are 1 .. Conns in the order of accept; thread t is the one  *)
(* started for connection t.  socks is clnt_socks[0 .. clnt_cnt - 1]: what *)
(* lies behind is written before it is counted.  A message is <<c, k>>,    *)
(* the k-th that client c said.                                            *)
(***************************************************************************)
EXTENDS Naturals, Sequences, FiniteSets, SequencesExt

CONSTANTS Conns,    \* bound: connections in the life of the server
          Talks     \* how many messages each client is going to send

ASSUME ConnsAssumption == Conns \in Nat
ASSUME TalksAssumption == Talks \subseteq [1 .. Conns -> Nat]

VARIABLES
  alive,       \* the server process has not been killed
  main,        \* where main is: "accept" or "add"
  clnt_sock,   \* main's variable
  accepted,    \* how many connections have been accepted
  socks,       \* clnt_socks and clnt_cnt
  mutex,       \* the thread that holds it in send_msg, or 0
  pc, sock, msg, i,  \* by thread: its place and its variables
  on,          \* by thread: the connection it is reading, or 0
  file,        \* by descriptor: its connection, or 0
  peer,        \* by connection: what the client's end is
  said, read,  \* by connection: messages the client sends, and read from it
  got,         \* by connection: the messages written to it
  sent,        \* history: the messages broadcast before the first thread left
  since,       \* history: by connection, Len(sent) when it was added
  left         \* history: some thread has left

threads == <<pc, sock, msg, i, on>>
array == <<socks, mutex>>
mains == <<main, clnt_sock, accepted>>
clients == <<peer, said, got>>
history == <<sent, since, left>>
vars == <<alive, threads, array, mains, clients, file, read, history>>

Clients == 1 .. Conns
NoMsg == <<0, 0>>

Init ==
  /\ alive = TRUE /\ main = "accept" /\ clnt_sock = 0 /\ accepted = 0
  /\ socks = <<>> /\ mutex = 0
  /\ pc = [t \in Clients |-> "none"] /\ sock = [t \in Clients |-> 0]
  /\ msg = [t \in Clients |-> NoMsg] /\ i = [t \in Clients |-> 0]
  /\ on = [t \in Clients |-> 0]
  /\ file = [f \in 0 .. Conns |-> 0]
  /\ peer = [c \in Clients |-> "open"]
  /\ said \in Talks /\ read = [c \in Clients |-> 0]
  /\ got = [c \in Clients |-> <<>>]
  /\ sent = <<>> /\ since = [c \in Clients |-> 0] /\ left = FALSE

Goto(t, l) == pc' = [pc EXCEPT ![t] = l]
----------------------------------------------------------------------------
(* main.  accept gives the lowest descriptor that is free, or -1 (here 0)  *)
(* when the connection was aborted, which main does not look at.           *)
Accept ==
  /\ main = "accept" /\ accepted < Conns
  /\ accepted' = accepted + 1
  /\ main' = "add"
  /\ \/ /\ \E f \in Clients :
            /\ file[f] = 0 /\ \A g \in 1 .. f - 1 : file[g] # 0
            /\ clnt_sock' = f
            /\ file' = [file EXCEPT ![f] = accepted + 1]
        /\ UNCHANGED peer
     \/ /\ clnt_sock' = 0
        /\ peer' = [peer EXCEPT ![accepted + 1] = "reset"]
        /\ UNCHANGED file
  /\ UNCHANGED <<threads, array, said, got, read, history>>

(* The new thread runs at once or later: its Begin is a step of its own.   *)
Add ==
  /\ main = "add" /\ mutex = 0 /\ main' = "accept"
  /\ socks' = Append(socks, clnt_sock)
  /\ since' = [since EXCEPT ![accepted] = Len(sent)]
  /\ Goto(accepted, "start")
  /\ UNCHANGED <<sock, msg, i, on, mutex, clnt_sock, accepted, clients, file, read, sent, left>>
----------------------------------------------------------------------------
(* handle_clnt                                                             *)
Begin(t) ==
  /\ pc[t] = "start" /\ Goto(t, "call")
  /\ sock' = [sock EXCEPT ![t] = clnt_sock]
  /\ UNCHANGED <<msg, i, on, array, mains, clients, file, read, history>>

(* read holds on to its connection, whoever closes the descriptor.  When   *)
(* it gives -1 (EBADF for as long as the descriptor is closed, ECONNRESET  *)
(* once), send_msg writes nothing and the thread calls again: no step.     *)
CallRead(t) ==
  /\ pc[t] = "call" /\ file[sock[t]] # 0 /\ Goto(t, "read")
  /\ on' = [on EXCEPT ![t] = file[sock[t]]]
  /\ UNCHANGED <<sock, msg, i, array, mains, clients, file, read, history>>

Read(t) ==
  /\ pc[t] = "read"
  /\ LET c == on[t] IN
     \/ /\ peer[c] # "reset" /\ read[c] < said[c] /\ Goto(t, "send")
        /\ read' = [read EXCEPT ![c] = @ + 1]
        /\ msg' = [msg EXCEPT ![t] = <<c, read[c] + 1>>]
     \/ /\ peer[c] = "reset" \/ (peer[c] = "closed" /\ read[c] = said[c])
        /\ Goto(t, "leave") /\ UNCHANGED <<msg, read>>
  /\ on' = [on EXCEPT ![t] = 0]
  /\ UNCHANGED <<sock, i, array, mains, clients, file, history>>

(* A name that begins with Bug is the definition after it with a bug that  *)
(* the code might have had.                                                *)
BugForget(s, f) ==
  LET at == SelectInSeq(s, LAMBDA g : g = f)
  IN  IF at = 0 THEN s ELSE RemoveAt(s, at)

(* The client that leaves is looked for, and the one after it dropped:     *)
(* the inner loop steps on before its first assignment.                    *)
Forget(s, f) ==
  LET at == SelectInSeq(s, LAMBDA g : g = f)
  IN  IF at \in 1 .. Len(s) - 1 THEN RemoveAt(s, at + 1) ELSE Front(s)

BugLeave(t) ==
  /\ pc[t] = "leave" /\ Goto(t, "close")
  /\ socks' = Forget(socks, sock[t])
  /\ left' = TRUE /\ sent' = <<>> /\ since' = [c \in Clients |-> 0]
  /\ UNCHANGED <<sock, msg, i, on, mutex, mains, clients, file, read>>

Leave(t) ==
  /\ pc[t] = "leave" /\ mutex = 0 /\ Goto(t, "close")
  /\ socks' = Forget(socks, sock[t])
  /\ left' = TRUE /\ sent' = <<>> /\ since' = [c \in Clients |-> 0]
  /\ UNCHANGED <<sock, msg, i, on, mutex, mains, clients, file, read>>

Close(t) ==
  /\ pc[t] = "close" /\ Goto(t, "end")
  /\ file' = [file EXCEPT ![sock[t]] = 0]
  /\ sock' = [sock EXCEPT ![t] = 0]
  /\ UNCHANGED <<msg, i, on, array, mains, clients, read, history>>
----------------------------------------------------------------------------
(* send_msg, by thread t.                                                  *)
BugLock(t) ==
  /\ pc[t] = "send" /\ Goto(t, "write")
  /\ mutex' = t
  /\ sent' = IF left THEN sent ELSE Append(sent, msg[t])
  /\ UNCHANGED <<sock, msg, i, on, socks, mains, clients, file, read, since, left>>

Lock(t) ==
  /\ pc[t] = "send" /\ mutex = 0 /\ Goto(t, "write")
  /\ mutex' = t
  /\ sent' = IF left THEN sent ELSE Append(sent, msg[t])
  /\ UNCHANGED <<sock, msg, i, on, socks, mains, clients, file, read, since, left>>

(* A client that has closed answers with a reset; a write after that may   *)
(* raise SIGPIPE, which kills the server.                                  *)
End(f) == IF file[f] = 0 THEN "none" ELSE peer[file[f]]

Deliver(m, f) ==
  \/ /\ End(f) = "open"
     /\ got' = [got EXCEPT ![file[f]] = Append(@, m)]
     /\ UNCHANGED <<peer, alive>>
  \/ /\ End(f) = "closed"
     /\ \E p \in {"closed", "reset"} : peer' = [peer EXCEPT ![file[f]] = p]
     /\ UNCHANGED <<got, alive>>
  \/ End(f) = "reset" /\ alive' \in BOOLEAN /\ UNCHANGED <<got, peer>>
  \/ End(f) = "none" /\ UNCHANGED <<got, peer, alive>>

BugMore(t) == i[t] + 1 < Len(socks)
More(t) == i[t] < Len(socks)

Write(t) ==
  /\ pc[t] = "write" /\ More(t)
  /\ i' = [i EXCEPT ![t] = @ + 1]
  /\ Deliver(msg[t], socks[i[t] + 1])
  /\ UNCHANGED <<pc, sock, msg, on, array, mains, said, file, read, history>>

Unlock(t) ==
  /\ pc[t] = "write" /\ ~More(t) /\ Goto(t, "call")
  /\ mutex' = 0
  /\ i' = [i EXCEPT ![t] = 0]
  /\ msg' = [msg EXCEPT ![t] = NoMsg]
  /\ UNCHANGED <<sock, on, socks, mains, clients, file, read, history>>
----------------------------------------------------------------------------
(* The clients: external.  One that leaves something unread resets.        *)
Quit(c) ==
  /\ peer[c] = "open"
  /\ \/ peer' = [peer EXCEPT ![c] = "closed"]
     \/ got[c] # <<>> /\ peer' = [peer EXCEPT ![c] = "reset"]
  /\ UNCHANGED <<threads, array, mains, said, got, file, read, history>>
----------------------------------------------------------------------------
Runs == alive /\ UNCHANGED alive

Next ==
  \/ Runs /\ Accept
  \/ Runs /\ Add
  \/ \E t \in Clients :
       \/ Runs /\ Begin(t)
       \/ Runs /\ CallRead(t)
       \/ Runs /\ Read(t)
       \/ Runs /\ Leave(t)
       \/ Runs /\ Close(t)
       \/ Runs /\ Lock(t)
       \/ Runs /\ Unlock(t)
       \/ alive /\ Write(t)
  \/ \E c \in Clients : Runs /\ Quit(c)

Spec == Init /\ [][Next]_vars
----------------------------------------------------------------------------
Places == {"none", "start", "call", "read", "send", "write", "leave", "close", "end"}

(* Every variable stays in its type.                                       *)
TypeOK ==
  /\ alive \in BOOLEAN /\ main \in {"accept", "add"}
  /\ clnt_sock \in 0 .. Conns /\ accepted \in 0 .. Conns
  /\ socks \in Seq(0 .. Conns) /\ mutex \in 0 .. Conns
  /\ pc \in [Clients -> Places] /\ sock \in [Clients -> 0 .. Conns]
  /\ i \in [Clients -> 0 .. Len(socks)]
  /\ msg \in [Clients -> {NoMsg} \cup (Clients \X Nat)]
  /\ on \in [Clients -> 0 .. Conns] /\ file \in [0 .. Conns -> 0 .. Conns]
  /\ peer \in [Clients -> {"open", "closed", "reset"}]
  /\ said \in Talks /\ read \in [Clients -> Nat]
  /\ got \in [Clients -> Seq(Clients \X Nat)]
  /\ sent \in Seq(Clients \X Nat) /\ since \in [Clients -> Nat]
  /\ left \in BOOLEAN

(* All clients see the messages in one order: none sees m before n when    *)
(* another sees n before m, whoever joins and leaves, and however often a  *)
(* message is written to one (the mutex of send_msg).                      *)
Sees(c, m, n) == \E j, k \in DOMAIN got[c] : j < k /\ got[c][j] = m /\ got[c][k] = n
OneOrder ==
  \A c, d \in Clients : \A j, k \in DOMAIN got[c] :
    j < k /\ got[c][j] # got[c][k] => ~Sees(d, got[c][k], got[c][j])

(* clnt_cnt is the number of connections that were added and whose thread  *)
(* has not left, though a thread may serve, and look for, another one: it  *)
(* never falls below zero, and never runs ahead of the connections.        *)
CountIsThreads ==
  Len(socks) = Cardinality({t \in Clients : pc[t] \in Places \ {"none", "close", "end"}})

(* Until the first one leaves, every client that is still there has got    *)
(* all that was broadcast since it was added, and nothing else.            *)
UntilOneLeaves ==
  ~left /\ mutex = 0 =>
    \A c \in 1 .. (IF main = "add" THEN accepted - 1 ELSE accepted) :
      peer[c] = "open" => got[c] = SubSeq(sent, since[c] + 1, Len(sent))
============================================================================
