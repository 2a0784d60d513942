------------------------------- MODULE KeyDrv -------------------------------
(***************************************************************************)
(* The key driver whose subject is concurrency: a semaphore admits one     *)
(* open file, open registers the keys' interrupts, read sleeps until an    *)
(* interrupt has seen a press, release gives everything back.  Processes   *)
(* interleave at every statement that touches what they share, and an      *)
(* interrupt may come between any two.                                     *)
(*                                                                         *)
(* The pins are 1 .. Pins, in the order of the request_irq calls.          *)
(***************************************************************************)
EXTENDS Naturals

CONSTANTS Procs,     \* processes that use the device
          Pins,      \* number of keys
          Preemptible   \* CONFIG_PREEMPT: see MayRun

ASSUME PinsAssumption == Pins \in Nat \ {0}
ASSUME PreemptibleAssumption == Preemptible \in BOOLEAN

VARIABLES
  button_lock,   \* the semaphore: 1 free, 0 taken
  ev_press, keyval, button_async,    \* the driver's globals
  handler,       \* the pins with a registered interrupt handler
  pending,       \* the pins whose interrupt is pending
  level,         \* the pins' levels, 0 while the key is down
  pc,            \* by process: "closed", the step it is at, or "open"
  next,          \* by process: the next pin to request or to free
  nonblock,      \* by process: O_NONBLOCK
  sigio,         \* processes with SIGIO pending
  unread,        \* history: pins recorded since the last copy to a user
  edged,         \* history: pins recorded since their handler was registered
  refused        \* history: pins whose line the kernel last refused though it was
                 \* not taken

file == <<pc, next, nonblock>>
globals == <<button_lock, ev_press, keyval, button_async>>
lines == <<handler, pending, level>>
history == <<unread, edged, refused>>
vars == <<globals, lines, file, sigio, history>>

Keys == 1 .. Pins
Inside == {"request", "open", "wait", "copy", "clear"}

Init ==
  /\ button_lock = 1 /\ ev_press = 0 /\ button_async = {}
  /\ keyval = [k \in Keys |-> 1] /\ level \in [Keys -> {0, 1}]
  /\ handler = {} /\ pending = {}
  /\ pc = [p \in Procs |-> "closed"]
  /\ next = [p \in Procs |-> 1]
  /\ nonblock = [p \in Procs |-> FALSE]
  /\ sigio = {} /\ unread = {} /\ edged = {} /\ refused = {}

Goto(p, l) == pc' = [pc EXCEPT ![p] = l]

(* There is one core.  Without kernel preemption a process in a system     *)
(* call keeps it until the call ends or may sleep: in down, in the wait,   *)
(* in request_irq, which allocates, and in a copy_to_user that faults.     *)
MayRun(p) ==
  \/ Preemptible
  \/ \A q \in Procs \ {p} :
       pc[q] \in {"closed", "open", "down", "request", "wait", "copy"}
----------------------------------------------------------------------------
(* key_drv_open: the semaphore, then the interrupts one by one.            *)
Open(p, nb) ==
  /\ MayRun(p) /\ pc[p] = "closed" /\ Goto(p, "down")
  /\ nonblock' = [nonblock EXCEPT ![p] = nb]
  /\ UNCHANGED <<globals, lines, next, sigio, history>>

Down(p) ==
  /\ MayRun(p) /\ pc[p] = "down"
  /\ \/ button_lock = 1 /\ button_lock' = 0 /\ Goto(p, "request")
     \/ button_lock = 0 /\ nonblock[p] /\ Goto(p, "closed") /\ UNCHANGED button_lock
  /\ UNCHANGED <<ev_press, keyval, button_async, lines, next, nonblock, sigio, history>>

BugNextPin(p, here, after) ==
  IF next[p] <= Pins THEN next' = [next EXCEPT ![p] = @ + 1] /\ Goto(p, here)
  ELSE next' = [next EXCEPT ![p] = 1] /\ Goto(p, after)

NextPin(p, here, after) ==
  IF next[p] < Pins THEN next' = [next EXCEPT ![p] = @ + 1] /\ Goto(p, here)
  ELSE next' = [next EXCEPT ![p] = 1] /\ Goto(p, after)

(* request_irq of a line that is taken fails, and so may one of a line     *)
(* that is not, for want of memory or because another driver has it; the   *)
(* code does not look.                                                     *)
RequestIrq(p) ==
  /\ MayRun(p) /\ pc[p] = "request"
  /\ \/ handler' = handler \cup {next[p]} /\ refused' = refused \ {next[p]}
     \/ refused' = refused \cup ({next[p]} \ handler) /\ UNCHANGED handler
  /\ edged' = IF next[p] \in handler THEN edged ELSE edged \ {next[p]}
  /\ NextPin(p, "request", "open")
  /\ UNCHANGED <<globals, pending, level, nonblock, sigio, unread>>

Fasync(p) ==
  /\ MayRun(p) /\ pc[p] = "open"
  /\ button_async' = button_async \cup {p}
  /\ UNCHANGED <<button_lock, ev_press, keyval, lines, file, sigio, history>>

(* key_drv_release: the semaphore goes up before the interrupts are freed. *)
Release(p) ==
  /\ MayRun(p) /\ pc[p] = "open" /\ Goto(p, "free")
  /\ button_lock' = 1
  /\ UNCHANGED <<ev_press, keyval, button_async, lines, next, nonblock, sigio, history>>

(* free_irq names the line and pin_descs[i], the same for every process.   *)
BugFreeIrq(p) ==
  /\ MayRun(p) /\ pc[p] = "free"
  /\ handler' = handler \ ({next[p]} \ {Pins})
  /\ pending' = pending \ {next[p]}
  /\ NextPin(p, "free", "unasync")
  /\ UNCHANGED <<globals, level, nonblock, sigio, history>>

FreeIrq(p) ==
  /\ MayRun(p) /\ pc[p] = "free"
  /\ handler' = handler \ {next[p]}
  /\ pending' = pending \ {next[p]}
  /\ NextPin(p, "free", "unasync")
  /\ UNCHANGED <<globals, level, nonblock, sigio, history>>

Unasync(p) ==
  /\ MayRun(p) /\ pc[p] = "unasync" /\ Goto(p, "closed")
  /\ button_async' = button_async \ {p}
  /\ sigio' = sigio \ {p}
  /\ UNCHANGED <<button_lock, ev_press, keyval, lines, next, nonblock, history>>
----------------------------------------------------------------------------
(* key_drv_read.  Without a press, O_NONBLOCK gives -EAGAIN.               *)
Read(p) ==
  /\ MayRun(p) /\ pc[p] = "open"
  /\ \/ ~nonblock[p] /\ Goto(p, "wait")
     \/ nonblock[p] /\ ev_press = 1 /\ Goto(p, "copy")
     \/ nonblock[p] /\ ev_press = 0 /\ UNCHANGED pc
  /\ UNCHANGED <<globals, lines, next, nonblock, sigio, history>>

(* wait_event_interruptible; that a signal ended it is not looked at.      *)
Awake(p) ==
  /\ MayRun(p) /\ pc[p] = "wait" /\ Goto(p, "copy")
  /\ ev_press = 1 \/ p \in sigio
  /\ UNCHANGED <<globals, lines, next, nonblock, sigio, history>>

Interrupted(p) ==
  /\ MayRun(p) /\ pc[p] = "wait" /\ Goto(p, "copy")
  /\ UNCHANGED <<globals, lines, next, nonblock, sigio, history>>

Copy(p) ==
  /\ MayRun(p) /\ pc[p] = "copy" /\ Goto(p, "clear")
  /\ unread' = {}
  /\ UNCHANGED <<globals, lines, next, nonblock, sigio, edged, refused>>

Clear(p) ==
  /\ MayRun(p) /\ pc[p] = "clear" /\ Goto(p, "open")
  /\ ev_press' = 0
  /\ UNCHANGED <<button_lock, keyval, button_async, lines, next, nonblock, sigio, history>>

(* The process's SIGIO handler runs: external.                             *)
TakeSigio(p) ==
  /\ MayRun(p) /\ p \in sigio /\ pc[p] \in {"closed", "open"}
  /\ sigio' = sigio \ {p}
  /\ UNCHANGED <<globals, lines, file, history>>
----------------------------------------------------------------------------
(* A key goes down or up: external; IRQT_BOTHEDGE.                         *)
Edge(k) ==
  /\ level' = [level EXCEPT ![k] = 1 - @]
  /\ pending' = IF k \in handler THEN pending \cup {k} ELSE pending
  /\ UNCHANGED <<globals, handler, file, sigio, history>>

(* buttons_irq                                                             *)
BugButtonsIrqNoFlag(k) ==
  /\ k \in pending /\ pending' = pending \ {k}
  /\ keyval' = [keyval EXCEPT ![k] = level[k]]
  /\ sigio' = sigio \cup button_async
  /\ unread' = unread \cup {k} /\ edged' = edged \cup {k}
  /\ UNCHANGED <<button_lock, ev_press, button_async, handler, level, file, refused>>

ButtonsIrq(k) ==
  /\ k \in pending /\ pending' = pending \ {k}
  /\ keyval' = [keyval EXCEPT ![k] = level[k]]
  /\ ev_press' = 1
  /\ sigio' = sigio \cup button_async
  /\ unread' = unread \cup {k} /\ edged' = edged \cup {k}
  /\ UNCHANGED <<button_lock, button_async, handler, level, file, refused>>
----------------------------------------------------------------------------
Runs(p) == \/ RequestIrq(p) \/ FreeIrq(p) \/ Unasync(p)
           \/ Awake(p) \/ Copy(p) \/ Clear(p)

Uses(p) == \/ \E nb \in BOOLEAN : Open(p, nb)
           \/ Down(p) \/ Fasync(p) \/ Read(p) \/ Release(p)
           \/ Interrupted(p) \/ TakeSigio(p)

Next == \/ \E p \in Procs : Runs(p) \/ Uses(p)
        \/ \E k \in Keys : Edge(k) \/ ButtonsIrq(k)

Spec == Init /\ [][Next]_vars
----------------------------------------------------------------------------
(* Every variable stays in its type.                                       *)
TypeOK ==
  /\ button_lock \in {0, 1} /\ ev_press \in {0, 1}
  /\ keyval \in [Keys -> {0, 1}] /\ level \in [Keys -> {0, 1}]
  /\ handler \subseteq Keys /\ pending \subseteq handler
  /\ button_async \subseteq Procs /\ sigio \subseteq Procs
  /\ pc \in [Procs -> Inside \cup {"closed", "down", "free", "unasync"}]
  /\ next \in [Procs -> Keys] /\ nonblock \in [Procs -> BOOLEAN]
  /\ unread \subseteq Keys /\ edged \subseteq Keys /\ refused \subseteq Keys

(* The semaphore lets one process at a time past key_drv_open, until its   *)
(* release puts it up, however the opens block or give up.                 *)
SoleOwner == \A p, q \in Procs : pc[p] \in Inside /\ pc[q] \in Inside => p = q

(* When the device is closed by all, no handler and no SIGIO subscription  *)
(* is left behind, in whatever order opens and releases ran.               *)
NothingLeft == (\A p \in Procs : pc[p] = "closed") => handler = {} /\ button_async = {}

(* "Solution of the concurrency problem" (the file's first line): whoever  *)
(* has the device open has its interrupts, but for those that the kernel   *)
(* refused for a reason that is not this driver's.                         *)
OpenHasIrqs == \A p \in Procs : pc[p] \in {"open", "wait"} => handler = Keys \ refused

(* "If no key was pressed, sleep" (over the wait of key_drv_read): nobody  *)
(* sleeps while a press is recorded that no read has copied.               *)
SleepsOnlyWithoutPress ==
  \A p \in Procs : pc[p] = "wait" /\ ev_press = 0 => unread = {}
============================================================================
