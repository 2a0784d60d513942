------------------------------ MODULE KeyTimer ------------------------------
(***************************************************************************)
(* The key driver of the next stage, whose interrupt handler only notes    *)
(* the key and starts a timer, so that the contact has stopped bouncing    *)
(* when the timer's function reads the pin.  Its system calls are those of *)
(* KeyDrv.  All keys share one irq_pd and one timer.                       *)
(*                                                                         *)
(* debounced says which of the two drivers runs, so that what they promise *)
(* alike is stated once.                                                   *)
(***************************************************************************)
EXTENDS KeyDrv

CONSTANT TimerProcs   \* the processes that use this driver, when it runs

ASSUME TimerProcsAssumption == TimerProcs \subseteq Procs

VARIABLES
  debounced,   \* this driver runs, not that of KeyDrv
  irq_pd,      \* the key noted by the handler, or NULL
  armed,       \* buttons_timer is pending
  oops,        \* the kernel has followed a NULL pointer
  overtaken    \* history: keys whose note another key's replaced in time

timer == <<debounced, irq_pd, armed, oops, overtaken>>
tvars == <<vars, timer>>

NULL == 0

(* key_drv_init adds the timer before any key has been pressed.            *)
TimerInit ==
  /\ Init
  /\ debounced \in BOOLEAN
  /\ irq_pd = NULL /\ armed = debounced /\ oops = FALSE /\ overtaken = {}
----------------------------------------------------------------------------
(* buttons_irq: mod_timer starts the time anew.                            *)
Note(k) ==
  /\ k \in pending /\ pending' = pending \ {k}
  /\ irq_pd' = k
  /\ overtaken' = IF armed /\ irq_pd # NULL THEN (overtaken \cup {irq_pd}) \ {k}
                  ELSE overtaken \ {k}
  /\ UNCHANGED <<globals, handler, level, file, sigio, history, debounced, oops>>

BugDelayIrq(k) == Note(k) /\ UNCHANGED armed

DelayIrq(k) == Note(k) /\ armed' = TRUE

(* buttons_timer_function.  (unread is kept for KeyDrv only.)               *)
TimerFunction ==
  /\ armed /\ irq_pd # NULL /\ armed' = FALSE
  /\ keyval' = [keyval EXCEPT ![irq_pd] = level[irq_pd]]
  /\ ev_press' = 1
  /\ sigio' = sigio \cup button_async
  /\ edged' = edged \cup {irq_pd}
  /\ UNCHANGED <<button_lock, button_async, lines, file, unread, refused,
                 debounced, irq_pd, oops, overtaken>>

TimerOops ==
  /\ armed /\ irq_pd = NULL /\ armed' = FALSE
  /\ oops' = TRUE
  /\ UNCHANGED <<vars, debounced, irq_pd, overtaken>>
----------------------------------------------------------------------------
SystemCalls == \E p \in TimerProcs : Runs(p) \/ Uses(p)

TimerNext ==
  \/ ~debounced /\ Next /\ UNCHANGED timer
  \/ /\ debounced /\ ~oops
     /\ \/ (SystemCalls \/ \E k \in Keys : Edge(k)) /\ UNCHANGED timer
        \/ \E k \in Keys : DelayIrq(k)
        \/ TimerFunction \/ TimerOops

TimerSpec == TimerInit /\ [][TimerNext]_tvars

(* Interrupts are taken, system calls that can go on do, and the timer     *)
(* runs, unless interrupts come for ever, each starting its time anew.     *)
TimerFairness ==
  /\ \A k \in Keys : WF_tvars(\/ ~debounced /\ ButtonsIrq(k) /\ UNCHANGED timer
                              \/ debounced /\ ~oops /\ DelayIrq(k))
  /\ \A p \in Procs : WF_tvars(~oops /\ Runs(p) /\ UNCHANGED timer)
  /\ WF_tvars(debounced /\ ~oops /\ (TimerFunction \/ TimerOops))
     \/ []<><<debounced /\ \E k \in Keys : DelayIrq(k)>>_tvars

TimerFairSpec == TimerSpec /\ TimerFairness
----------------------------------------------------------------------------
(* Every variable stays in its type, and only a timer that runs before the *)
(* first press, as key_drv_init lets it, makes the kernel stop.            *)
TimerTypeOK ==
  /\ TypeOK
  /\ debounced \in BOOLEAN /\ armed \in BOOLEAN /\ oops \in BOOLEAN
  /\ irq_pd \in Keys \cup {NULL} /\ overtaken \subseteq Keys
  /\ oops => irq_pd = NULL
  /\ ~debounced => ~armed /\ overtaken = {}

(* keyval is what the pin shows: of every key that was recorded since its  *)
(* interrupt was registered, unless its interrupt or the timer is still to *)
(* come, or another key's note took the place of its own.                  *)
KeyvalSettles ==
  \A k \in (handler \cap edged) \ (pending \cup overtaken) :
    (armed => irq_pd # k) => keyval[k] = level[k]

(* A reader that waits while an interrupt is pending gets its data, when   *)
(* the keys leave the timer its time and it has not run before any press.  *)
WaitEnds ==
  <>[][\A k \in Keys : ~DelayIrq(k)]_tvars =>
    \A p \in Procs :
      (pc[p] = "wait" /\ pending # {}) ~> (pc[p] \in {"copy", "clear", "open"} \/ oops)
============================================================================
