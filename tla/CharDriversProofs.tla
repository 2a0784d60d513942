-------------------------- MODULE CharDriversProofs --------------------------
(***************************************************************************)
(* Theorems about KeyDrv, KeyTimer, DmaCopy and Secbulk, for every number  *)
(* of processes, keys, words and blocks.                                   *)
(***************************************************************************)
EXTENDS KeyTimer, DmaCopy, Secbulk, TLAPS

Holding == {"open", "wait", "copy", "clear"}   \* Inside, past the requests

(* The semaphore is free only when nobody is inside.                       *)
LockHeld == button_lock = 1 => \A p \in Procs : pc[p] \notin Inside

(* A loop over the pins starts at the first one.                           *)
LoopsStart == \A p \in Procs : pc[p] \notin {"request", "free"} => next[p] = 1

(* A registered handler is one that some process is still going to free.   *)
Owned == \A k \in handler : \E p \in Procs :
           \/ pc[p] \in Holding
           \/ pc[p] = "request" /\ next[p] > k
           \/ pc[p] = "free" /\ next[p] <= k

Subscribed == \A p \in button_async : pc[p] \in Holding \cup {"free", "unasync"}

KInv == TypeOK /\ SoleOwner /\ LockHeld /\ LoopsStart /\ Owned /\ Subscribed

USE PinsAssumption DEF Keys, Inside, Goto

(* A step of a process, and an action of the outside world.                *)
Process(p) == Runs(p) \/ Uses(p)
World == \E k \in Keys : Edge(k) \/ ButtonsIrq(k)

LEMMA NextSplit ==
  ASSUME [Next]_vars
  PROVE  (\E p \in Procs : MayRun(p) /\ Process(p)) \/ World \/ UNCHANGED vars
<1>1. ASSUME NEW p \in Procs, Process(p) PROVE MayRun(p)
  BY <1>1 DEF Process, Runs, Uses, Open, Down, RequestIrq, Fasync, Release, FreeIrq, Unasync,
              Read, Awake, Interrupted, Copy, Clear, TakeSigio
<1> QED BY <1>1 DEF Next, Process, World

(* The next pin, or the end of the loop over the pins.                     *)
LEMMA NextPinEither ==
  ASSUME TypeOK, NEW p \in Procs, NEW here, NEW after, NextPin(p, here, after)
  PROVE  \/ /\ next[p] < Pins /\ next[p] + 1 \in Keys
            /\ next' = [next EXCEPT ![p] = next[p] + 1] /\ pc' = [pc EXCEPT ![p] = here]
         \/ /\ next[p] = Pins
            /\ next' = [next EXCEPT ![p] = 1] /\ pc' = [pc EXCEPT ![p] = after]
<1>1. next[p] \in Keys BY DEF TypeOK
<1>2. CASE next[p] < Pins
  <2>1. next[p] + 1 \in Keys BY <1>1, <1>2
  <2> QED BY <1>2, <2>1 DEF NextPin
<1>3. CASE ~(next[p] < Pins) BY <1>1, <1>3 DEF NextPin
<1> QED BY <1>2, <1>3

LEMMA NextPinType ==
  ASSUME TypeOK, NEW p \in Procs, NEW here, NEW after, NextPin(p, here, after),
         {here, after} \subseteq Inside \cup {"free", "unasync"}
  PROVE  /\ next' \in [Procs -> Keys]
         /\ pc' \in [Procs -> Inside \cup {"closed", "down", "free", "unasync"}]
<1>1. /\ next \in [Procs -> Keys]
      /\ pc \in [Procs -> Inside \cup {"closed", "down", "free", "unasync"}]
  BY DEF TypeOK
<1>2. CASE next[p] + 1 \in Keys /\ next' = [next EXCEPT ![p] = next[p] + 1]
           /\ pc' = [pc EXCEPT ![p] = here]
  BY <1>1, <1>2
<1>3. CASE next' = [next EXCEPT ![p] = 1] /\ pc' = [pc EXCEPT ![p] = after]
  <2>1. 1 \in Keys OBVIOUS
  <2> QED BY <1>1, <1>3, <2>1
<1> QED BY <1>2, <1>3, NextPinEither

LEMMA TypeInductive ==
  ASSUME TypeOK, [Next]_vars
  PROVE  TypeOK'
<1> USE DEF TypeOK
<1>2. ASSUME NEW p \in Procs, RequestIrq(p) PROVE TypeOK'
  <2>1. next[p] \in Keys OBVIOUS
  <2>2. next' \in [Procs -> Keys] /\ pc' \in [Procs -> Inside \cup {"closed", "down", "free", "unasync"}]
    <3>1. NextPin(p, "request", "open") BY <1>2 DEF RequestIrq
    <3> QED BY <3>1, NextPinType
  <2> QED BY <1>2, <2>1, <2>2 DEF RequestIrq, globals
<1>3. ASSUME NEW p \in Procs, FreeIrq(p) PROVE TypeOK'
  <2>2. next' \in [Procs -> Keys] /\ pc' \in [Procs -> Inside \cup {"closed", "down", "free", "unasync"}]
    <3>1. NextPin(p, "free", "unasync") BY <1>3 DEF FreeIrq
    <3> QED BY <3>1, NextPinType
  <2> QED BY <1>3, <2>2 DEF FreeIrq, globals, history
<1>4. ASSUME NEW p \in Procs, Unasync(p) \/ Awake(p) \/ Copy(p) \/ Clear(p) PROVE TypeOK'
  BY <1>4 DEF Unasync, Awake, Copy, Clear, globals, lines, history
<1>5. ASSUME NEW p \in Procs, NEW nb \in BOOLEAN, Open(p, nb) PROVE TypeOK'
  BY <1>5 DEF Open, globals, lines, history
<1>6. ASSUME NEW p \in Procs, Down(p) \/ Fasync(p) \/ Read(p) \/ Release(p) PROVE TypeOK'
  BY <1>6 DEF Down, Fasync, Read, Release, globals, lines, history, file
<1>7. ASSUME NEW p \in Procs, Interrupted(p) \/ TakeSigio(p) PROVE TypeOK'
  BY <1>7 DEF Interrupted, TakeSigio, globals, lines, history, file
<1>8. ASSUME NEW k \in Keys, Edge(k) PROVE TypeOK'
  <2>1. level' \in [Keys -> {0, 1}]
    <3>1. level[k] = 0 \/ level[k] = 1 OBVIOUS
    <3>2. 1 - level[k] \in {0, 1} BY <3>1, SMT
    <3> QED BY <1>8, <3>2 DEF Edge
  <2> QED BY <1>8, <2>1 DEF Edge, globals, file, history
<1>9. ASSUME NEW k \in Keys, ButtonsIrq(k) PROVE TypeOK' BY <1>9 DEF ButtonsIrq, file
<1>10. CASE UNCHANGED vars BY <1>10 DEF vars, globals, lines, file, history
<1> QED BY <1>2, <1>3, <1>4, <1>5, <1>6, <1>7, <1>8, <1>9, <1>10 DEF Next, Runs, Uses

(* The outside world leaves the processes and their handlers alone.        *)
LEMMA WorldKeeps ==
  ASSUME World \/ UNCHANGED vars
  PROVE  UNCHANGED <<pc, next, button_lock, button_async, handler>>
BY DEF World, Edge, ButtonsIrq, vars, globals, lines, file

(* A process changes only its own place.                                   *)
LEMMA OwnPlace ==
  ASSUME TypeOK, NEW p \in Procs, Process(p), NEW q \in Procs, q # p
  PROVE  pc'[q] = pc[q] /\ next'[q] = next[q]
<1> USE DEF TypeOK
<1>1. CASE RequestIrq(p) BY <1>1, NextPinEither DEF RequestIrq
<1>2. CASE FreeIrq(p) BY <1>2, NextPinEither DEF FreeIrq
<1>3. CASE Unasync(p) \/ Awake(p) \/ Copy(p) \/ Clear(p)
  BY <1>3 DEF Unasync, Awake, Copy, Clear
<1>4. ASSUME NEW nb \in BOOLEAN, Open(p, nb) PROVE pc'[q] = pc[q] /\ next'[q] = next[q]
  BY <1>4 DEF Open
<1>5. CASE Down(p) \/ Fasync(p) \/ Read(p) \/ Release(p) \/ Interrupted(p) \/ TakeSigio(p)
  BY <1>5 DEF Down, Fasync, Read, Release, Interrupted, TakeSigio, file
<1> QED BY <1>1, <1>2, <1>3, <1>4, <1>5 DEF Process, Runs, Uses

(* How the place of a process and the semaphore change together.           *)
LEMMA Places ==
  ASSUME TypeOK, NEW p \in Procs, Process(p)
  PROVE  \/ /\ pc[p] \notin Inside /\ pc'[p] \notin Inside /\ UNCHANGED button_lock
         \/ /\ pc[p] \in Inside /\ pc'[p] \in Inside /\ UNCHANGED button_lock
         \/ /\ pc[p] = "down" /\ pc'[p] = "request" /\ button_lock = 1 /\ button_lock' = 0
         \/ /\ pc[p] = "open" /\ pc'[p] = "free" /\ button_lock' = 1
<1> USE DEF TypeOK
<1>1. CASE RequestIrq(p) BY <1>1, NextPinEither DEF RequestIrq, globals
<1>2. CASE FreeIrq(p) BY <1>2, NextPinEither DEF FreeIrq, globals
<1>3. CASE Unasync(p) \/ Awake(p) \/ Copy(p) \/ Clear(p)
  BY <1>3 DEF Unasync, Awake, Copy, Clear, globals
<1>4. ASSUME NEW nb \in BOOLEAN, Open(p, nb)
      PROVE pc[p] \notin Inside /\ pc'[p] \notin Inside /\ UNCHANGED button_lock
  BY <1>4 DEF Open, globals
<1>5. CASE Down(p) BY <1>5 DEF Down
<1>6. CASE Release(p) BY <1>6 DEF Release
<1>7. CASE Fasync(p) \/ Read(p) \/ Interrupted(p) \/ TakeSigio(p)
  BY <1>7 DEF Fasync, Read, Interrupted, TakeSigio, globals, file
<1> QED BY <1>1, <1>2, <1>3, <1>4, <1>5, <1>6, <1>7 DEF Process, Runs, Uses

LEMMA OwnerInductive ==
  ASSUME TypeOK, SoleOwner, LockHeld, [Next]_vars
  PROVE  SoleOwner' /\ LockHeld'
<1>1. ASSUME NEW p \in Procs, Process(p) PROVE SoleOwner' /\ LockHeld'
  <2>1. \A q \in Procs : q # p => pc'[q] = pc[q] BY <1>1, OwnPlace
  <2>2. CASE pc[p] \notin Inside /\ pc'[p] \notin Inside /\ UNCHANGED button_lock
    BY <2>1, <2>2 DEF SoleOwner, LockHeld
  <2>3. CASE pc[p] \in Inside /\ pc'[p] \in Inside /\ UNCHANGED button_lock
    BY <2>1, <2>3 DEF SoleOwner, LockHeld
  <2>4. CASE button_lock = 1 /\ button_lock' = 0 BY <2>1, <2>4 DEF SoleOwner, LockHeld
  <2>5. CASE pc[p] = "open" /\ pc'[p] = "free" /\ button_lock' = 1
    BY <2>1, <2>5 DEF SoleOwner, LockHeld
  <2> QED BY <1>1, <2>2, <2>3, <2>4, <2>5, Places
<1>2. CASE World \/ UNCHANGED vars BY <1>2, WorldKeeps DEF SoleOwner, LockHeld
<1> QED BY <1>1, <1>2, NextSplit

(* The handlers and the loops over the pins.                               *)
LEMMA LoopsInductive ==
  ASSUME TypeOK, LoopsStart, [Next]_vars
  PROVE  LoopsStart'
<1> USE DEF TypeOK, LoopsStart
<1>1. ASSUME NEW p \in Procs, Process(p) PROVE LoopsStart'
  <2>1. \A q \in Procs : q # p => pc'[q] = pc[q] /\ next'[q] = next[q] BY <1>1, OwnPlace
  <2>2. pc'[p] \notin {"request", "free"} => next'[p] = 1
    <3>1. CASE RequestIrq(p) BY <3>1, NextPinEither DEF RequestIrq
    <3>2. CASE FreeIrq(p) BY <3>2, NextPinEither DEF FreeIrq
    <3>3. CASE Unasync(p) \/ Awake(p) \/ Copy(p) \/ Clear(p)
      BY <3>3 DEF Unasync, Awake, Copy, Clear
    <3>4. ASSUME NEW nb \in BOOLEAN, Open(p, nb) PROVE next'[p] = 1 BY <3>4 DEF Open
    <3>5. CASE Down(p) \/ Fasync(p) \/ Read(p) \/ Release(p) \/ Interrupted(p) \/ TakeSigio(p)
      BY <3>5 DEF Down, Fasync, Read, Release, Interrupted, TakeSigio, file
    <3> QED BY <1>1, <3>1, <3>2, <3>3, <3>4, <3>5 DEF Process, Runs, Uses
  <2> QED BY <2>1, <2>2
<1>2. CASE World \/ UNCHANGED vars BY <1>2, WorldKeeps
<1> QED BY <1>1, <1>2, NextSplit

(* Process p still answers for the handler of pin k.                       *)
Frees(p, k) == \/ pc[p] \in Holding
               \/ pc[p] = "request" /\ next[p] > k
               \/ pc[p] = "free" /\ next[p] <= k

LEMMA OwnedInductive ==
  ASSUME TypeOK, LoopsStart, Owned, [Next]_vars
  PROVE  Owned'
<1> USE DEF TypeOK, Holding
<1>0. Owned <=> \A k \in handler : \E p \in Procs : Frees(p, k) BY DEF Owned, Frees
<1>1. ASSUME NEW p \in Procs, Process(p), NEW k \in handler' PROVE \E q \in Procs : Frees(q, k)'
  <2>1. \A q \in Procs : q # p => pc'[q] = pc[q] /\ next'[q] = next[q] BY <1>1, OwnPlace
  <2>2. ASSUME NEW q \in Procs, Frees(q, k), q # p PROVE Frees(q, k)' BY <2>1, <2>2 DEF Frees
  <2>3. CASE RequestIrq(p)
    <3>1. pc[p] = "request" /\ handler' \subseteq handler \cup {next[p]} BY <2>3 DEF RequestIrq
    <3>2. k \in Keys BY <3>1
    <3>3. ASSUME Frees(p, k) \/ k = next[p] PROVE Frees(p, k)'
      BY <2>3, <3>1, <3>2, <3>3, NextPinEither DEF RequestIrq, Frees
    <3> QED BY <1>0, <2>2, <3>1, <3>3
  <2>4. CASE FreeIrq(p)
    <3>1. pc[p] = "free" /\ handler' = handler \ {next[p]} /\ k # next[p] /\ k \in Keys
      BY <1>1, <2>4 DEF FreeIrq
    <3>2. ASSUME Frees(p, k) PROVE Frees(p, k)'
      BY <2>4, <3>1, <3>2, NextPinEither DEF FreeIrq, Frees
    <3> QED BY <1>0, <2>2, <3>1, <3>2
  <2>5. CASE handler' = handler /\ (Frees(p, k) => Frees(p, k)')
    BY <1>0, <1>1, <2>2, <2>5
  <2>6. CASE Unasync(p) \/ Awake(p) \/ Copy(p) \/ Clear(p)
    BY <2>5, <2>6 DEF Unasync, Awake, Copy, Clear, lines, Frees
  <2>7. ASSUME NEW nb \in BOOLEAN, Open(p, nb) PROVE \E q \in Procs : Frees(q, k)'
    BY <2>5, <2>7 DEF Open, lines, Frees
  <2>8. CASE Down(p) BY <2>5, <2>8 DEF Down, lines, Frees
  <2>9. CASE Release(p)
    <3>1. next[p] = 1 /\ k \in Keys BY <1>1, <2>9 DEF Release, LoopsStart, lines
    <3> QED BY <2>5, <2>9, <3>1 DEF Release, lines, Frees
  <2>10. CASE Fasync(p) \/ Read(p) \/ Interrupted(p) \/ TakeSigio(p)
    BY <2>5, <2>10 DEF Fasync, Read, Interrupted, TakeSigio, lines, file, Frees
  <2> QED BY <1>1, <2>3, <2>4, <2>6, <2>7, <2>8, <2>9, <2>10 DEF Process, Runs, Uses
<1>2. CASE World \/ UNCHANGED vars BY <1>2, WorldKeeps DEF Owned
<1>3. ASSUME \A k \in handler' : \E q \in Procs : Frees(q, k)' PROVE Owned' BY <1>3 DEF Owned, Frees
<1> QED BY <1>1, <1>2, <1>3, NextSplit

LEMMA SubscribedInductive ==
  ASSUME TypeOK, Subscribed, [Next]_vars
  PROVE  Subscribed'
<1> USE DEF TypeOK, Subscribed, Holding
<1>1. ASSUME NEW p \in Procs, Process(p) PROVE Subscribed'
  <2>1. \A q \in Procs : q # p => pc'[q] = pc[q] BY <1>1, OwnPlace
  <2>2. CASE RequestIrq(p) BY <2>1, <2>2, NextPinEither DEF RequestIrq, globals
  <2>3. CASE FreeIrq(p)
    <3>1. button_async' = button_async /\ pc[p] = "free" BY <2>3 DEF FreeIrq, globals
    <3>2. pc'[p] \in {"free", "unasync"} BY <2>3, NextPinEither DEF FreeIrq
    <3> QED BY <2>1, <3>1, <3>2
  <2>4. CASE Unasync(p) BY <2>1, <2>4 DEF Unasync
  <2>5. CASE Awake(p) \/ Copy(p) \/ Clear(p) BY <2>1, <2>5 DEF Awake, Copy, Clear, globals
  <2>6. ASSUME NEW nb \in BOOLEAN, Open(p, nb) PROVE Subscribed' BY <2>1, <2>6 DEF Open, globals
  <2>7. CASE Down(p) BY <2>1, <2>7 DEF Down
  <2>8. CASE Fasync(p) BY <2>1, <2>8 DEF Fasync, file
  <2>9. CASE Read(p) \/ Release(p) \/ Interrupted(p) \/ TakeSigio(p)
    BY <2>1, <2>9 DEF Read, Release, Interrupted, TakeSigio, globals, file
  <2> QED BY <1>1, <2>2, <2>3, <2>4, <2>5, <2>6, <2>7, <2>8, <2>9 DEF Process, Runs, Uses
<1>2. CASE World \/ UNCHANGED vars BY <1>2, WorldKeeps
<1> QED BY <1>1, <1>2, NextSplit

LEMMA Inductive == KInv /\ [Next]_vars => KInv'
BY TypeInductive, OwnerInductive, LoopsInductive, OwnedInductive, SubscribedInductive
DEF KInv

LEMMA Initially == Init => KInv
<1> SUFFICES ASSUME Init PROVE KInv OBVIOUS
<1>1. TypeOK
  <2>1. 1 \in Keys OBVIOUS
  <2> QED BY <2>1 DEF Init, TypeOK
<1> QED BY <1>1 DEF Init, KInv, SoleOwner, LockHeld, LoopsStart, Owned, Subscribed

----------------------------------------------------------------------------
(* The timer: its driver's steps are system calls and edges of KeyDrv, or  *)
(* the interrupt handler and the timer, which leave the processes and the  *)
(* handlers alone.                                                         *)
LEMMA TimerNextSplit ==
  ASSUME [TimerNext]_tvars
  PROVE  \/ [Next]_vars /\ UNCHANGED timer
         \/ /\ debounced /\ ~oops
            /\ (\E k \in Keys : DelayIrq(k)) \/ TimerFunction \/ TimerOops
BY TimerProcsAssumption DEF TimerNext, SystemCalls, Next, tvars

LEMMA HandlerKeeps ==
  ASSUME KInv, TimerTypeOK, (\E k \in Keys : DelayIrq(k)) \/ TimerFunction
  PROVE  KInv'
<1>1. UNCHANGED <<pc, next, button_lock, button_async, handler>>
  BY DEF DelayIrq, Note, TimerFunction, globals, file, lines
<1>2. TypeOK /\ SoleOwner /\ LockHeld /\ LoopsStart /\ Owned /\ Subscribed BY DEF KInv
<1>3. SoleOwner' /\ LockHeld' /\ LoopsStart' BY <1>1, <1>2 DEF SoleOwner, LockHeld, LoopsStart
<1>4. Owned' /\ Subscribed' BY <1>1, <1>2 DEF Owned, Subscribed
<1>5. ASSUME NEW k \in Keys, DelayIrq(k) PROVE TypeOK'
  BY <1>2, <1>5 DEF TypeOK, DelayIrq, Note, globals, file, history
<1>6. ASSUME TimerFunction PROVE TypeOK'
  <2>1. irq_pd \in Keys /\ level[irq_pd] \in {0, 1}
    BY <1>2, <1>6 DEF TimerFunction, TimerTypeOK, TypeOK
  <2> QED BY <1>2, <1>6, <2>1 DEF TypeOK, TimerFunction, lines, file
<1> QED BY <1>3, <1>4, <1>5, <1>6 DEF KInv

LEMMA TimerTypeInductive ==
  ASSUME KInv, TimerTypeOK, [TimerNext]_tvars
  PROVE  KInv' /\ TimerTypeOK'
<1>1. CASE [Next]_vars /\ UNCHANGED timer
  <2>1. KInv' BY <1>1, Inductive
  <2> QED BY <1>1, <2>1 DEF KInv, TimerTypeOK, timer
<1>2. ASSUME debounced, ~oops, NEW k \in Keys, DelayIrq(k) PROVE KInv' /\ TimerTypeOK'
  <2>1. KInv' BY <1>2, HandlerKeeps
  <2>3. irq_pd' = k /\ armed' = TRUE /\ UNCHANGED <<debounced, oops>> /\ overtaken' \subseteq Keys
    BY <1>2 DEF DelayIrq, Note, TimerTypeOK, NULL
  <2>4. debounced' /\ ~oops' BY <1>2, <2>3
  <2>5. debounced' \in BOOLEAN /\ armed' \in BOOLEAN /\ oops' \in BOOLEAN
    BY <2>3, Zenon DEF TimerTypeOK
  <2> QED BY <2>1, <2>3, <2>4, <2>5 DEF KInv, TimerTypeOK
<1>3. ASSUME debounced, TimerFunction PROVE KInv' /\ TimerTypeOK'
  <2>1. KInv' BY <1>3, HandlerKeeps
  <2> QED BY <1>3, <2>1 DEF KInv, TimerTypeOK, TimerFunction
<1>4. ASSUME debounced, TimerOops PROVE KInv' /\ TimerTypeOK'
  <2>1. KInv' BY <1>4, Inductive DEF TimerOops
  <2> QED BY <1>4, <2>1 DEF KInv, TimerTypeOK, TimerOops
<1> QED BY <1>1, <1>2, <1>3, <1>4, TimerNextSplit

(* What is recorded of a key is its level, but for what is on its way.     *)
LEMMA LevelInductive ==
  ASSUME TypeOK, TimerTypeOK, KeyvalSettles, [TimerNext]_tvars
  PROVE  KeyvalSettles'
<1> USE DEF TypeOK, KeyvalSettles
<1>1. CASE [Next]_vars /\ UNCHANGED timer
  <2>0. UNCHANGED <<irq_pd, armed, overtaken>> BY <1>1 DEF timer
  <2>1. ASSUME NEW p \in Procs, RequestIrq(p) PROVE KeyvalSettles'
    <3>1. UNCHANGED <<keyval, level, pending>> BY <2>1 DEF RequestIrq, globals
    <3>2. (handler \cap edged)' \subseteq handler \cap edged BY <2>1 DEF RequestIrq
    <3> QED BY <2>0, <3>1, <3>2
  <2>2. ASSUME NEW p \in Procs, FreeIrq(p) PROVE KeyvalSettles'
    BY <2>0, <2>2 DEF FreeIrq, globals, history
  <2>3. ASSUME NEW p \in Procs, Process(p), ~RequestIrq(p), ~FreeIrq(p) PROVE KeyvalSettles'
    <3>1. CASE Unasync(p) \/ Awake(p) \/ Copy(p) \/ Clear(p)
      BY <2>0, <3>1 DEF Unasync, Awake, Copy, Clear, globals, lines, history
    <3>2. ASSUME NEW nb \in BOOLEAN, Open(p, nb) PROVE KeyvalSettles'
      BY <2>0, <3>2 DEF Open, globals, lines, history
    <3>3. CASE Down(p) \/ Fasync(p) \/ Read(p) \/ Release(p)
      BY <2>0, <3>3 DEF Down, Fasync, Read, Release, globals, lines, history
    <3>4. CASE Interrupted(p) \/ TakeSigio(p)
      BY <2>0, <3>4 DEF Interrupted, TakeSigio, globals, lines, history
    <3> QED BY <2>3, <3>1, <3>2, <3>3, <3>4 DEF Process, Runs, Uses
  <2>4. ASSUME NEW k \in Keys, Edge(k) PROVE KeyvalSettles'
    BY <2>0, <2>4 DEF Edge, globals, history
  <2>5. ASSUME NEW k \in Keys, ButtonsIrq(k) PROVE KeyvalSettles'
    BY <2>0, <2>5 DEF ButtonsIrq
  <2>6. CASE UNCHANGED vars BY <2>0, <2>6 DEF vars, globals, lines, history
  <2> QED BY <1>1, <2>1, <2>2, <2>3, <2>4, <2>5, <2>6, NextSplit DEF World
<1>2. ASSUME NEW k \in Keys, DelayIrq(k) PROVE KeyvalSettles'
  <2> SUFFICES ASSUME NEW j \in ((handler \cap edged) \ (pending \cup overtaken))',
                      armed' => irq_pd' # j
               PROVE  keyval'[j] = level'[j]
    OBVIOUS
  <2>1. UNCHANGED <<handler, edged, keyval, level>> /\ pending' = pending \ {k}
    BY <1>2 DEF DelayIrq, Note, globals, history
  <2>2. j # k BY <1>2 DEF DelayIrq, Note
  <2>3. j \in Keys BY <2>1
  <2>4. j \notin overtaken /\ (armed => irq_pd # j)
    BY <1>2, <2>2, <2>3 DEF DelayIrq, Note, NULL
  <2> QED BY <2>1, <2>2, <2>4
<1>3. CASE TimerFunction
  <2>1. /\ UNCHANGED <<handler, pending, level, overtaken>>
        /\ irq_pd \in Keys /\ armed
        /\ keyval' = [keyval EXCEPT ![irq_pd] = level[irq_pd]]
        /\ edged' = edged \cup {irq_pd}
    BY <1>3 DEF TimerFunction, lines, TimerTypeOK
  <2> QED BY <2>1
<1>4. CASE TimerOops
  <2>1. UNCHANGED <<handler, edged, pending, overtaken, keyval, level, irq_pd>> /\ armed /\ irq_pd = NULL
    BY <1>4 DEF TimerOops, vars, globals, lines, history
  <2>2. \A k \in Keys : irq_pd # k BY <2>1 DEF NULL
  <2> QED BY <2>1, <2>2
<1> QED BY <1>1, <1>2, <1>3, <1>4, TimerNextSplit

LEMMA TimerAlways == TimerSpec => [](KInv /\ TimerTypeOK /\ KeyvalSettles)
<1>1. TimerInit => KInv /\ TimerTypeOK /\ KeyvalSettles
  <2> SUFFICES ASSUME TimerInit PROVE KInv /\ TimerTypeOK /\ KeyvalSettles OBVIOUS
  <2>1. KInv /\ handler = {} BY Initially DEF TimerInit, Init
  <2> QED BY <2>1 DEF TimerInit, KInv, TimerTypeOK, KeyvalSettles
<1>2. KInv /\ TimerTypeOK /\ KeyvalSettles /\ [TimerNext]_tvars
        => (KInv /\ TimerTypeOK /\ KeyvalSettles)'
  BY TimerTypeInductive, LevelInductive DEF KInv
<1> QED BY <1>1, <1>2, PTL DEF TimerSpec
----------------------------------------------------------------------------
(* Every variable stays in its type, for any number of processes and keys, *)
(* in either driver; only a timer that runs before the first press makes   *)
(* the kernel stop.                                                        *)
THEOREM TypeCorrect == TimerSpec => []TimerTypeOK
BY TimerAlways, PTL

(* The semaphore admits one process at a time, preempted or not.           *)
THEOREM AlwaysSoleOwner == TimerSpec => []SoleOwner
<1>1. KInv => SoleOwner BY DEF KInv
<1> QED BY <1>1, TimerAlways, PTL

(* When all have closed the device nothing is left registered, whatever    *)
(* the order in which opens and releases interleaved.                      *)
THEOREM AlwaysNothingLeft == TimerSpec => []NothingLeft
<1>1. KInv => NothingLeft BY DEF KInv, NothingLeft, TypeOK, Owned, Subscribed, Holding
<1> QED BY <1>1, TimerAlways, PTL

(* What the reader is given of a key is its level, but for edges whose     *)
(* interrupt or timer is on its way and for notes that another's replaced. *)
THEOREM AlwaysSettles == TimerSpec => []KeyvalSettles
BY TimerAlways, PTL
----------------------------------------------------------------------------
(* Without preemption release runs to its end before anyone else moves, so *)
(* its early up does no harm.                                              *)
Giving == {"free", "unasync"}

Uncut == \A p, q \in Procs :
           pc[p] \in Giving /\ q # p => pc[q] \notin Inside \cup Giving

(* The pins that have been requested for whoever is inside.                *)
Asked == handler \cup refused

Registered == \A p \in Procs :
  /\ pc[p] = "request" => \A k \in Keys : k < next[p] => k \in Asked
  /\ pc[p] \in Holding => \A k \in Keys : k \in Asked

(* What was refused is not registered.                                     *)
LEMMA RefusedApart ==
  ASSUME refused \cap handler = {}, [Next]_vars
  PROVE  (refused \cap handler)' = {}
BY DEF Next, Runs, Uses, Open, Down, RequestIrq, Fasync, Release, FreeIrq, Unasync,
       Read, Awake, Interrupted, Copy, Clear, TakeSigio, Edge, ButtonsIrq,
       vars, globals, lines, file, history

LEMMA RefusedKeeps ==
  ASSUME World \/ UNCHANGED vars
  PROVE  UNCHANGED refused
BY DEF World, Edge, ButtonsIrq, vars, file, history

LEMMA UncutInductive ==
  ASSUME Preemptible = FALSE, TypeOK, SoleOwner, Uncut, [Next]_vars
  PROVE  Uncut'
<1> USE DEF TypeOK, Uncut, Giving
<1>1. ASSUME NEW p \in Procs, MayRun(p), Process(p) PROVE Uncut'
  <2>1. \A q \in Procs : q # p => pc'[q] = pc[q] BY <1>1, OwnPlace
  <2>2. \A q \in Procs \ {p} : pc[q] \notin Giving BY <1>1 DEF MayRun
  <2>3. CASE pc'[p] \notin Giving BY <2>1, <2>2, <2>3
  <2>4. CASE pc'[p] \in Giving
    <3>1. pc[p] = "open" \/ pc[p] \in Giving
      <4>1. CASE FreeIrq(p) BY <4>1 DEF FreeIrq
      <4>2. CASE RequestIrq(p)
        <5>1. NextPin(p, "request", "open") BY <4>2 DEF RequestIrq
        <5>2. pc'[p] \in {"request", "open"} BY <5>1, NextPinEither
        <5> QED BY <2>4, <5>2
      <4>3. CASE Unasync(p) \/ Awake(p) \/ Copy(p) \/ Clear(p)
        BY <2>4, <4>3 DEF Unasync, Awake, Copy, Clear
      <4>4. ASSUME NEW nb \in BOOLEAN, Open(p, nb) PROVE FALSE BY <2>4, <4>4 DEF Open
      <4>5. CASE Down(p) \/ Fasync(p) \/ Read(p) \/ Release(p) \/ Interrupted(p)
        BY <2>4, <4>5 DEF Down, Fasync, Read, Release, Interrupted, file
      <4>6. CASE TakeSigio(p) BY <2>4, <4>6 DEF TakeSigio, file
      <4> QED BY <1>1, <4>1, <4>2, <4>3, <4>4, <4>5, <4>6 DEF Process, Runs, Uses
    <3>2. \A q \in Procs : q # p => pc[q] \notin Inside \cup Giving
      BY <2>2, <3>1 DEF SoleOwner
    <3> QED BY <2>1, <3>2
  <2> QED BY <2>3, <2>4
<1>2. CASE World \/ UNCHANGED vars BY <1>2, WorldKeeps
<1> QED BY <1>1, <1>2, NextSplit

LEMMA RegisteredInductive ==
  ASSUME TypeOK, SoleOwner, LoopsStart, Uncut, Registered, [Next]_vars
  PROVE  Registered'
<1> USE DEF TypeOK, Registered, Holding
<1>1. ASSUME NEW p \in Procs, Process(p) PROVE Registered'
  <2>1. \A q \in Procs : q # p => pc'[q] = pc[q] /\ next'[q] = next[q] BY <1>1, OwnPlace
  <2>2. CASE RequestIrq(p)
    <3>1. pc[p] = "request" /\ Asked' = Asked \cup {next[p]} BY <2>2 DEF RequestIrq, Asked
    <3>2. \A k \in Keys : k < next[p] => k \in Asked BY <3>1
    <3>3. \A k \in Keys : k < next[p] + 1 => k \in Asked' BY <3>1, <3>2
    <3>4. /\ pc'[p] = "request" => \A k \in Keys : k < next'[p] => k \in Asked'
          /\ pc'[p] \in Holding => \A k \in Keys : k \in Asked'
      BY <2>2, <3>3, NextPinEither DEF RequestIrq
    <3>5. ASSUME NEW q \in Procs, q # p
          PROVE  /\ pc'[q] = "request" => \A k \in Keys : k < next'[q] => k \in Asked'
                 /\ pc'[q] \in Holding => \A k \in Keys : k \in Asked'
      BY <2>1, <3>1, <3>5
    <3>6. ASSUME NEW q \in Procs
          PROVE  /\ pc'[q] = "request" => \A k \in Keys : k < next'[q] => k \in Asked'
                 /\ pc'[q] \in Holding => \A k \in Keys : k \in Asked'
      BY ONLY <3>4, <3>5
    <3> QED BY ONLY <3>6, Zenon DEF Registered, Holding
  <2>3. CASE FreeIrq(p)
    <3>1. \A q \in Procs : q # p => pc'[q] \notin Inside
      BY <2>1, <2>3 DEF FreeIrq, Uncut, Giving
    <3>2. pc'[p] \notin Inside BY <2>3, NextPinEither DEF FreeIrq
    <3>3. \A q \in Procs : pc'[q] # "request" /\ pc'[q] \notin Holding BY <3>1, <3>2
    <3>4. ASSUME NEW q \in Procs
          PROVE  /\ pc'[q] = "request" => \A k \in Keys : k < next'[q] => k \in Asked'
                 /\ pc'[q] \in Holding => \A k \in Keys : k \in Asked'
      BY ONLY <3>3
    <3> QED BY ONLY <3>4, Zenon DEF Registered, Holding
  <2>4. CASE Down(p)
    <3>1. pc'[p] = "request" => next'[p] = 1 BY <2>4 DEF Down, LoopsStart
    <3>2. pc'[p] \notin Holding /\ Asked' = Asked BY <2>4 DEF Down, lines, history, Asked
    <3>3. pc'[p] = "request" => \A k \in Keys : k < next'[p] => k \in Asked' BY <3>1
    <3>4. ASSUME NEW q \in Procs
          PROVE  /\ pc'[q] = "request" => \A k \in Keys : k < next'[q] => k \in Asked'
                 /\ pc'[q] \in Holding => \A k \in Keys : k \in Asked'
      BY <2>1, <3>2, <3>3
    <3> QED BY ONLY <3>4, Zenon DEF Registered, Holding
  <2>5. CASE Asked' = Asked /\ pc'[p] # "request" /\ (pc'[p] \in Holding => pc[p] \in Holding)
    <3>1. ASSUME NEW q \in Procs
          PROVE  /\ pc'[q] = "request" => \A k \in Keys : k < next'[q] => k \in Asked'
                 /\ pc'[q] \in Holding => \A k \in Keys : k \in Asked'
      BY <2>1, <2>5
    <3> QED BY ONLY <3>1, Zenon DEF Registered, Holding
  <2>6. CASE Unasync(p) \/ Awake(p) \/ Copy(p) \/ Clear(p)
    BY <2>5, <2>6 DEF Unasync, Awake, Copy, Clear, lines, history, Asked
  <2>7. ASSUME NEW nb \in BOOLEAN, Open(p, nb) PROVE Registered'
    BY <2>5, <2>7 DEF Open, lines, history, Asked
  <2>8. CASE Fasync(p) \/ Read(p) \/ Release(p) \/ Interrupted(p)
    BY <2>5, <2>8 DEF Fasync, Read, Release, Interrupted, lines, file, history, Asked
  <2>9. CASE TakeSigio(p) BY <2>5, <2>9 DEF TakeSigio, lines, file, history, Asked
  <2> QED BY <1>1, <2>2, <2>3, <2>4, <2>6, <2>7, <2>8, <2>9 DEF Process, Runs, Uses
<1>2. CASE World \/ UNCHANGED vars BY <1>2, WorldKeeps, RefusedKeeps DEF Asked
<1> QED BY <1>1, <1>2, NextSplit

(* Without kernel preemption, whoever is past open has its interrupts, all *)
(* that the kernel did not refuse although their lines were not taken.     *)
THEOREM OpenHasIrqsUncut ==
  ASSUME Preemptible = FALSE
  PROVE  Spec => []OpenHasIrqs
<1> DEFINE Inv == KInv /\ Uncut /\ Registered /\ refused \cap handler = {}
<1>1. Init => Inv
  <2> SUFFICES ASSUME Init PROVE Inv OBVIOUS
  <2> QED BY Initially DEF Init, Uncut, Registered, Asked, Giving, Holding
<1>2. Inv /\ [Next]_vars => Inv'
  BY Inductive, UncutInductive, RegisteredInductive, RefusedApart DEF KInv
<1>3. Inv => OpenHasIrqs BY DEF KInv, TypeOK, Registered, Asked, OpenHasIrqs, Holding
<1> QED
  <2> HIDE DEF Inv
  <2> QED BY <1>1, <1>2, <1>3, PTL DEF Spec
----------------------------------------------------------------------------
(* DmaCopy: what a call that is alone finds.  Its words are copied or left *)
(* to copy, and neither the interrupt nor the flag is of an earlier call.  *)
DmaTypes ==
  /\ at \in [Callers -> {"out", "asleep"}] /\ said \in [Callers -> {"nothing", "OK", "ERROR"}]
  /\ copied \subseteq AllWords /\ left \subseteq AllWords
  /\ ev_dma \in {0, 1} /\ irq \in BOOLEAN

Undisturbed ==
  \A p \in alone :
    /\ p \in Callers /\ at[p] = "asleep"
    /\ \A q \in Callers : at[q] = "asleep" => q = p
    /\ AllWords \ left \subseteq copied
    /\ irq => left = {}
    /\ ev_dma = 1 => left = {}

LEMMA UndisturbedInductive ==
  ASSUME DmaTypes, Undisturbed, [DmaNext]_dma
  PROVE  DmaTypes' /\ Undisturbed'
<1> USE DEF DmaTypes, Undisturbed
<1>1. ASSUME NEW p \in Callers, CopyNoDma(p) PROVE DmaTypes' /\ Undisturbed'
  BY <1>1 DEF CopyNoDma
<1>2. ASSUME NEW p \in Callers, OtherIoctl(p) PROVE DmaTypes' /\ Undisturbed'
  BY <1>2 DEF OtherIoctl
<1>3. ASSUME NEW p \in Callers, CopyDma(p) PROVE DmaTypes' /\ Undisturbed'
  BY <1>3 DEF CopyDma
<1>4. ASSUME NEW p \in Callers, WokenUp(p) \/ CutShort(p) PROVE DmaTypes' /\ Undisturbed'
  BY <1>4 DEF WokenUp, CutShort, Wake, Report
<1>5. CASE MoveWord
  <2>1. PICK w \in left : left' = left \ {w} /\ copied' = copied \cup {w} BY <1>5 DEF MoveWord
  <2>2. DmaTypes'
    <3>1. irq' \in BOOLEAN BY <1>5, Zenon DEF MoveWord
    <3> QED BY <1>5, <2>1, <3>1 DEF MoveWord
  <2>3. \A p \in alone : ~irq /\ ev_dma # 1 BY <2>1
  <2>4. /\ irq' <=> irq \/ left' = {}
        /\ alone' = alone /\ at' = at /\ ev_dma' = ev_dma
    BY <1>5 DEF MoveWord
  <2>5. Undisturbed' BY <2>1, <2>3, <2>4
  <2> QED BY <2>2, <2>5
<1>6. CASE DmaIrq BY <1>6 DEF DmaIrq
<1>7. CASE UNCHANGED dma BY <1>7 DEF dma
<1> QED BY <1>1, <1>2, <1>3, <1>4, <1>5, <1>6, <1>7 DEF DmaNext

(* A call that nothing disturbs and that the flag wakes reports OK,        *)
(* whatever other calls, signals and late interrupts came before it.       *)
THEOREM AlwaysAloneIsOk == DmaSpec => AloneIsOk
<1>1. DmaInit => DmaTypes /\ Undisturbed BY DEF DmaInit, DmaTypes, Undisturbed
<1>2. DmaTypes /\ Undisturbed /\ [DmaNext]_dma => (DmaTypes /\ Undisturbed)'
  BY UndisturbedInductive
<1>3. DmaTypes /\ Undisturbed /\ [DmaNext]_dma
        => [\A p \in alone : WokenUp(p) => said'[p] = "OK"]_dma
  <2> SUFFICES ASSUME DmaTypes, Undisturbed, NEW p \in alone, WokenUp(p)
               PROVE  said'[p] = "OK"
    OBVIOUS
  <2>1. ev_dma = 1 BY DEF WokenUp
  <2>2. copied = AllWords BY <2>1 DEF DmaTypes, Undisturbed
  <2>3. said' = [said EXCEPT ![p] = Report] BY DEF WokenUp, Wake
  <2>4. p \in DOMAIN said BY DEF DmaTypes, Undisturbed
  <2> QED BY <2>2, <2>3, <2>4 DEF Report
<1> QED BY <1>1, <1>2, <1>3, PTL DEF DmaSpec, AloneIsOk
----------------------------------------------------------------------------
(* Secbulk: as long as the driver has followed no pointer to nothing, one  *)
(* process at most has the device open, and it holds the mutex.            *)
OneWriter ==
  /\ \A p, q \in opened : p = q
  /\ opened # {} => plugged = "in" /\ io_mutex
  /\ \A p \in Writers : doing[p] \in {"copy", "send", "unlock"} => p \in opened
  /\ \A p \in Writers : doing[p] = "try" => p \notin opened /\ plugged = "in"

(* The device's buffer is allocated from an open's first step to the       *)
(* release, unless it was spoilt, and an undisturbed writer finds in it    *)
(* what it has put there.                                                  *)
OwnBuffer ==
  /\ DOMAIN holds = Blocks /\ DOMAIN doing = Writers /\ DOMAIN len = Writers
  /\ used \subseteq Blocks /\ bulkout_buffer \in Blocks \cup {NoBlock}
  /\ opened \subseteq Writers
  /\ ~spoilt => \A p \in Writers :
       /\ doing[p] = "try" => bulkout_buffer \in used
       /\ p \in opened /\ doing[p] # "unlock" => bulkout_buffer \in used
       /\ p \notin disturbed /\ doing[p] = "send" => holds[bulkout_buffer] = Chunk(p)

BulkInv == ~broken => OneWriter /\ OwnBuffer

LEMMA BulkInductive ==
  ASSUME BulkInv, [SecbulkNext]_secbulk
  PROVE  BulkInv'
<1> SUFFICES ASSUME ~broken' PROVE OneWriter' /\ OwnBuffer' BY DEF BulkInv
<1> USE SecbulkAssumption DEF OneWriter, OwnBuffer, bulkDev, memory, writes, Chunk, At, Goes, Opens
<1>1. CASE UNCHANGED secbulk BY <1>1 DEF BulkInv, secbulk
<1>2. ASSUME SecbulkNext PROVE OneWriter /\ OwnBuffer
  BY <1>2 DEF SecbulkNext, BulkInv
<1>3. CASE SecbulkNext /\ (Probe \/ ProbeEnds \/ Disconnect \/ Disconnected)
  BY <1>2, <1>3 DEF Probe, ProbeEnds, Disconnect, Disconnected
<1>4. ASSUME SecbulkNext, NEW p \in Writers, WriterSteps(p)
      PROVE  OneWriter' /\ OwnBuffer'
  <2> USE <1>2, <1>4
  <2>1. CASE OpenNothing(p) BY <2>1 DEF OpenNothing
  <2>2. CASE NoMemory(p) BY <2>2 DEF NoMemory
  <2>3. CASE NewBuffer(p) BY <2>3 DEF NewBuffer
  <2>4. CASE BulkOpen(p) BY <2>4 DEF BulkOpen
  <2>5. CASE BulkWrite(p) BY <2>5 DEF BulkWrite
  <2>6. CASE CopyIn(p) BY <2>6 DEF CopyIn
  <2>7. CASE SendOut(p) BY <2>7 DEF SendOut
  <2>8. CASE GiveUp(p) BY <2>8 DEF GiveUp
  <2>9. CASE FreeBuffer(p) BY <2>9 DEF FreeBuffer
  <2>10. CASE BulkRelease(p) BY <2>10 DEF BulkRelease
  <2> QED BY <2>1, <2>2, <2>3, <2>4, <2>5, <2>6, <2>7, <2>8, <2>9, <2>10 DEF WriterSteps
<1> QED BY <1>1, <1>3, <1>4 DEF SecbulkNext

(* A write copies into the driver's own memory, and a bulk message is what *)
(* its writer has copied for it, unless somebody began to open the device  *)
(* during the write or the buffer was spoilt before it, by an open without *)
(* memory or by a release between two steps of the open; whatever other    *)
(* refused opens, failed writes and removals came before.                  *)
THEOREM AlwaysSendsItsOwn == SecbulkSpec => SendsItsOwn
<1>1. SecbulkInit => BulkInv
  BY SecbulkAssumption DEF SecbulkInit, BulkInv, OneWriter, OwnBuffer
<1>2. BulkInv /\ [SecbulkNext]_secbulk => BulkInv' BY BulkInductive
<1>3. BulkInv /\ [SecbulkNext]_secbulk
        => [~spoilt =>
              \A p \in Writers \ disturbed :
                /\ CopyIn(p) => bulkout_buffer \in used
                /\ SendOut(p) => bulkout_buffer \in used /\ holds[bulkout_buffer] = Chunk(p)]_secbulk
  BY DEF SecbulkNext, BulkInv, OneWriter, OwnBuffer, CopyIn, SendOut, At
<1> QED BY <1>1, <1>2, <1>3, PTL DEF SecbulkSpec, SendsItsOwn
=============================================================================
