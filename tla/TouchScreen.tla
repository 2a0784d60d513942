---------------------------- MODULE TouchScreen ----------------------------
(***************************************************************************)
(* The touch screen driver: a cycle of three callbacks that hand the       *)
(* controller to each other through its mode register.  The pen interrupt  *)
(* starts a measurement, the conversion interrupt takes four samples and   *)
(* arms a timer, the timer measures again for as long as the pen is down.  *)
(*                                                                         *)
(* The two handlers share one interrupt line and run one at a time, above  *)
(* the timer, which runs above the process that loads the driver.  Each    *)
(* callback looks at the pen once and acts on what it saw, while the pen   *)
(* and the controller go on: seeing is a step and acting is another, and   *)
(* an interrupt may come between any two statements of the timer.          *)
(*                                                                         *)
(* x[0 .. cnt - 1] is the sequence x; y is treated as x is, and left out.  *)
(***************************************************************************)
EXTENDS Naturals, Sequences

CONSTANT Places       \* where the pen may be

Coordinate == 0 .. 1023    \* what & 0x3ff leaves

ASSUME PlacesAssumption == Places \subseteq Coordinate

VARIABLES
  loaded,          \* s3c_ts_init has run to its end
  handler,         \* the handler that runs, and what it saw: "none", "tc up",
                   \* "tc down", "adc up" or "adc down"
  timer,           \* the statement at which the timer function is, or "idle"
  armed,           \* ts_timer is pending
  x,               \* the samples
  touch, where,    \* what was last reported: BTN_TOUCH and ABS_X
  mode,            \* ADCTSC: "down" and "up" wait for the pen, or "measure"
  converting,      \* a conversion is under way
  adcdat,          \* what the latest one found
  tc, adc,         \* IRQ_TC, IRQ_ADC pending
  pen, at          \* the pen is down, and where

report == <<touch, where>>
controller == <<mode, converting, adcdat, tc, adc>>
stylus == <<pen, at>>
vars == <<loaded, handler, timer, armed, x, report, controller, stylus>>

Init ==
  /\ loaded = FALSE /\ handler = "none" /\ timer = "idle" /\ armed = TRUE
  /\ x = <<>> /\ touch = FALSE /\ where = 0
  /\ mode = "off" /\ converting = FALSE /\ adcdat = 0 /\ tc = FALSE /\ adc = FALSE
  /\ pen \in BOOLEAN /\ at \in Places
----------------------------------------------------------------------------
(* s3c_ts_init, from add_timer on; ts_timer.expires is 0, so it is due.    *)
Load ==
  /\ ~loaded /\ handler = "none" /\ timer = "idle"
  /\ loaded' = TRUE
  /\ mode' = "down"
  /\ UNCHANGED <<handler, timer, armed, x, report, converting, adcdat, tc, adc, stylus>>
----------------------------------------------------------------------------
(* s3c_ts_timer_function                                                   *)
TimerSees ==
  /\ armed /\ timer = "idle" /\ handler = "none"
  /\ armed' = FALSE
  /\ timer' = IF pen THEN "measure" ELSE "report"
  /\ UNCHANGED <<loaded, handler, x, report, controller, stylus>>

TimerReport ==
  /\ timer = "report" /\ handler = "none" /\ timer' = "wait"
  /\ touch' = FALSE
  /\ UNCHANGED <<loaded, handler, armed, x, where, controller, stylus>>

TimerWait ==
  /\ timer = "wait" /\ handler = "none" /\ timer' = "idle"
  /\ mode' = "down"
  /\ UNCHANGED <<loaded, handler, armed, x, report, converting, adcdat, tc, adc, stylus>>

TimerMeasure ==
  /\ timer = "measure" /\ handler = "none" /\ timer' = "start"
  /\ mode' = "measure"
  /\ UNCHANGED <<loaded, handler, armed, x, report, converting, adcdat, tc, adc, stylus>>

TimerStart ==
  /\ timer = "start" /\ handler = "none" /\ timer' = "idle"
  /\ converting' = TRUE
  /\ UNCHANGED <<loaded, handler, armed, x, report, mode, adcdat, tc, adc, stylus>>
----------------------------------------------------------------------------
(* pen_down_up_irq                                                         *)
TcSees ==
  /\ tc /\ tc' = FALSE
  /\ handler = "none" /\ handler' = IF pen THEN "tc down" ELSE "tc up"
  /\ UNCHANGED <<loaded, timer, armed, x, report, mode, converting, adcdat, adc, stylus>>

TcUp ==
  /\ handler = "tc up" /\ handler' = "none"
  /\ touch' = FALSE
  /\ mode' = "down"
  /\ UNCHANGED <<loaded, timer, armed, x, where, converting, adcdat, tc, adc, stylus>>

(* A name that begins with Bug is the definition after it with a bug that  *)
(* the code might have had.                                                *)
BugTcDown ==
  /\ handler = "tc down" /\ handler' = "none"
  /\ mode' = "up"
  /\ UNCHANGED <<loaded, timer, armed, x, report, converting, adcdat, tc, adc, stylus>>

TcDown ==
  /\ handler = "tc down" /\ handler' = "none"
  /\ mode' = "measure" /\ converting' = TRUE
  /\ UNCHANGED <<loaded, timer, armed, x, report, adcdat, tc, adc, stylus>>
----------------------------------------------------------------------------
(* adc_irq                                                                 *)
AdcSees ==
  /\ adc /\ adc' = FALSE
  /\ handler = "none" /\ handler' = IF pen THEN "adc down" ELSE "adc up"
  /\ x' = IF pen THEN Append(x, adcdat) ELSE <<>>
  /\ UNCHANGED <<loaded, timer, armed, report, mode, converting, adcdat, tc, stylus>>

BugAdcUp ==
  /\ handler = "adc up" /\ handler' = "none"
  /\ mode' = "down"
  /\ UNCHANGED <<loaded, timer, armed, x, report, converting, adcdat, tc, adc, stylus>>

AdcUp ==
  /\ handler = "adc up" /\ handler' = "none"
  /\ touch' = FALSE
  /\ mode' = "down"
  /\ UNCHANGED <<loaded, timer, armed, x, where, converting, adcdat, tc, adc, stylus>>

BugAdcAgain ==
  /\ handler = "adc down" /\ Len(x) < 4 /\ handler' = "none"
  /\ mode' = "measure"
  /\ UNCHANGED <<loaded, timer, armed, x, report, converting, adcdat, tc, adc, stylus>>

AdcAgain ==
  /\ handler = "adc down" /\ Len(x) < 4 /\ handler' = "none"
  /\ mode' = "measure" /\ converting' = TRUE
  /\ UNCHANGED <<loaded, timer, armed, x, report, adcdat, tc, adc, stylus>>

(* s3c_filter_ts: the third and the fourth against the two before them.    *)
Distance(a, b) == IF a > b THEN a - b ELSE b - a
Filter(s) == \A k \in {3, 4} : Distance(s[k], (s[k - 2] + s[k - 1]) \div 2) <= 10

Average(s) == (s[1] + s[2] + s[3] + s[4]) \div 4

BugAdcReport ==
  /\ handler = "adc down" /\ Len(x) = 4 /\ handler' = "none"
  /\ IF Filter(x) THEN touch' = TRUE /\ where' = Average(x) /\ x' = <<>>
     ELSE UNCHANGED <<touch, where, x>>
  /\ mode' = "up"
  /\ armed' = TRUE
  /\ UNCHANGED <<loaded, timer, converting, adcdat, tc, adc, stylus>>

BugAdcReportNoTimer ==
  /\ handler = "adc down" /\ Len(x) = 4 /\ handler' = "none"
  /\ IF Filter(x) THEN touch' = TRUE /\ where' = Average(x)
     ELSE UNCHANGED <<touch, where>>
  /\ x' = <<>>
  /\ mode' = "up"
  /\ UNCHANGED <<loaded, timer, armed, converting, adcdat, tc, adc, stylus>>

AdcReport ==
  /\ handler = "adc down" /\ Len(x) = 4 /\ handler' = "none"
  /\ IF Filter(x) THEN touch' = TRUE /\ where' = Average(x)
     ELSE UNCHANGED <<touch, where>>
  /\ x' = <<>>
  /\ mode' = "up"
  /\ armed' = TRUE
  /\ UNCHANGED <<loaded, timer, converting, adcdat, tc, adc, stylus>>
----------------------------------------------------------------------------
(* The controller and the pen: external.  In a waiting mode the pen's move *)
(* raises IRQ_TC; when the pen is already where the mode waits for it, the *)
(* controller may raise it too.  A conversion without the pen, or in       *)
(* another mode, finds anything.                                           *)
Awaited(p) == mode = IF p THEN "down" ELSE "up"

Raise ==
  /\ Awaited(pen) /\ ~tc /\ tc' = TRUE
  /\ UNCHANGED <<loaded, handler, timer, armed, x, report, mode, converting, adcdat, adc, stylus>>

Converted ==
  /\ converting /\ converting' = FALSE
  /\ adc' = TRUE
  /\ adcdat' \in IF pen /\ mode = "measure" THEN {at} ELSE Places
  /\ UNCHANGED <<loaded, handler, timer, armed, x, report, mode, tc, stylus>>

PenMoves ==
  /\ \/ /\ pen' = ~pen
        /\ at' \in IF pen THEN {at} ELSE Places
        /\ tc' = (tc \/ Awaited(~pen))
     \/ /\ pen /\ at' \in Places \ {at}
        /\ UNCHANGED <<pen, tc>>
  /\ UNCHANGED <<loaded, handler, timer, armed, x, report, mode, converting, adcdat, adc>>
----------------------------------------------------------------------------
Handlers == TcSees \/ TcUp \/ TcDown \/ AdcSees \/ AdcUp \/ AdcAgain \/ AdcReport
Timer == TimerSees \/ TimerReport \/ TimerWait \/ TimerMeasure \/ TimerStart

Next == Load \/ Timer \/ Handlers \/ Raise \/ Converted \/ PenMoves

Spec == Init /\ [][Next]_vars

(* Interrupts are taken, the timer runs when it is due, a conversion ends. *)
Fairness == /\ WF_vars(Load) /\ WF_vars(Handlers) /\ WF_vars(Converted)
            /\ SF_vars(Timer)

FairSpec == Spec /\ Fairness
----------------------------------------------------------------------------
(* Every variable stays in its type; x[4] is never stored.                 *)
SamplesOK ==
  x \in Seq(Coordinate) /\ Len(x) <= 4 /\ (Len(x) = 4 => handler = "adc down")

TypeOK ==
  /\ SamplesOK
  /\ loaded \in BOOLEAN /\ armed \in BOOLEAN /\ touch \in BOOLEAN
  /\ converting \in BOOLEAN /\ tc \in BOOLEAN /\ adc \in BOOLEAN /\ pen \in BOOLEAN
  /\ handler \in {"none", "tc up", "tc down", "adc up", "adc down"}
  /\ timer \in {"idle", "report", "wait", "measure", "start"}
  /\ mode \in {"off", "down", "up", "measure"}
  /\ where \in Coordinate /\ adcdat \in Coordinate /\ at \in Places

(* The cycle does not stop in the middle of a measurement: in that mode no *)
(* pen interrupt comes, so a conversion must.                              *)
NeverStuck ==
  mode = "measure" /\ handler = "none" /\ timer # "start" => converting \/ adc

(* While the controller waits for the pen to go up, or the last report is  *)
(* a touch, something is on its way that will look at the pen again, even  *)
(* when the controller does not raise an interrupt for a pen that went up  *)
(* before it began to wait.                                                *)
Watched ==
  mode = "up" \/ touch => \/ armed \/ timer # "idle" \/ handler # "none"
                          \/ converting \/ adc

(* When the pen stays away, its release is reported for good, without the  *)
(* help of Raise.                                                          *)
Releases == <>[]~pen => <>[](~touch /\ mode = "down")

(* While the pen stays down, measurements go on: the timer is armed again  *)
(* and again, if the controller raises its interrupt for a pen that is     *)
(* down already when it begins to wait.  That the place is then reported   *)
(* is not claimed: two conversions may be on their way, one of them ends   *)
(* while the controller waits for the pen to go up, and its sample may be  *)
(* refused with the other three each time.                                 *)
Tracks == WF_vars(Raise) /\ <>[]pen => []<>armed
============================================================================
