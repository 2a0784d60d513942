------------------------- MODULE TouchScreenProofs -------------------------
(***************************************************************************)
(* The safety properties of the touch screen driver, for every set of      *)
(* places the pen may be at.                                               *)
(***************************************************************************)
EXTENDS TouchScreen, SequenceTheorems, TLAPS

(* A touch reported between the two last statements of the timer comes     *)
(* from adc_irq, which arms the timer again.  Without this, the last of    *)
(* them, which waits for a pen that may be down already, would leave a     *)
(* touch that nobody takes back.                                           *)
RearmedWhileWaiting == timer = "wait" /\ touch => armed

Watching == Watched /\ RearmedWhileWaiting
----------------------------------------------------------------------------
(* adc_irq reports a number of ten bits when its samples are of ten bits.  *)
LEMMA AverageOfPlaces ==
  ASSUME NEW s \in Seq(Coordinate), Len(s) = 4
  PROVE  Average(s) \in Coordinate
<1>1. ASSUME NEW k \in 1 .. 4 PROVE s[k] \in Coordinate
  <2>1. k \in 1 .. Len(s)
    OBVIOUS
  <2>2. QED
    BY <2>1, ElementOfSeq
<1>2. s[1] \in Coordinate /\ s[2] \in Coordinate /\ s[3] \in Coordinate /\ s[4] \in Coordinate
  BY <1>1
<1>3. ASSUME NEW a \in Coordinate, NEW b \in Coordinate, NEW c \in Coordinate, NEW d \in Coordinate
      PROVE  (a + b + c + d) \div 4 \in Coordinate
  BY DEF Coordinate
<1>4. QED
  BY <1>2, <1>3 DEF Average

(* Every variable keeps its type: x never has a fifth sample, since the    *)
(* fourth makes adc_irq start the array again.                             *)
THEOREM TypeCorrect == Spec => []TypeOK
<1>1. Init => TypeOK
  <2>1. SUFFICES ASSUME Init PROVE TypeOK
    OBVIOUS
  <2>2. SamplesOK
    BY <2>1, EmptySeq DEF Init, SamplesOK
  <2>3. QED
    <3>1. 0 \in Coordinate
      BY DEF Coordinate
    <3>2. QED
      BY <2>1, <2>2, <3>1 DEF Init, TypeOK
<1>2. TypeOK /\ [Next]_vars => TypeOK'
  <2> SUFFICES ASSUME TypeOK, [Next]_vars PROVE TypeOK'
    OBVIOUS
  <2>1. CASE Load
    <3>1. SamplesOK'
      BY <2>1 DEF Load, SamplesOK, TypeOK
    <3>2. QED
      BY <2>1, <3>1 DEF Load, TypeOK, report, stylus
  <2>2. CASE Timer
    <3>1. SamplesOK'
      BY <2>2 DEF Timer, TimerSees, TimerReport, TimerWait, TimerMeasure, TimerStart,
                  SamplesOK, TypeOK
    <3>2. QED
      BY <2>2, <3>1 DEF Timer, TimerSees, TimerReport, TimerWait, TimerMeasure, TimerStart,
                        TypeOK, report, controller, stylus
  <2>3. CASE TcSees \/ TcUp \/ TcDown
    <3>1. SamplesOK'
      BY <2>3 DEF TcSees, TcUp, TcDown, SamplesOK, TypeOK
    <3>2. QED
      BY <2>3, <3>1 DEF TcSees, TcUp, TcDown, TypeOK, report, stylus
  <2>4. CASE AdcSees
    <3>1. Append(x, adcdat) \in Seq(Coordinate) /\ Len(Append(x, adcdat)) = Len(x) + 1
      BY AppendProperties DEF TypeOK, SamplesOK
    <3>2. <<>> \in Seq(Coordinate) /\ Len(<<>>) = 0 /\ Len(x) \in Nat
      BY EmptySeq, LenProperties DEF TypeOK, SamplesOK
    <3>3. Len(x) \in 0 .. 3
      <4>1. Len(x) <= 4 /\ Len(x) # 4
        BY <2>4 DEF AdcSees, TypeOK, SamplesOK
      <4>2. \A n \in Nat : n <= 4 /\ n # 4 => n \in 0 .. 3
        OBVIOUS
      <4>3. QED
        BY <3>2, <4>1, <4>2, Zenon
    <3>4. SamplesOK'
      <4>1. CASE pen
        <5>1. x' = Append(x, adcdat) /\ handler' = "adc down"
          BY <2>4, <4>1 DEF AdcSees
        <5>2. x' \in Seq(Coordinate) /\ Len(x') = Len(x) + 1
          BY <3>1, <5>1
        <5>3. \A n \in 0 .. 3 : n + 1 <= 4
          OBVIOUS
        <5>4. Len(x') <= 4
          BY <3>3, <5>2, <5>3, Zenon
        <5>5. QED
          BY <5>1, <5>2, <5>4 DEF SamplesOK
      <4>2. CASE ~pen
        <5>1. x' = <<>>
          BY <2>4, <4>2 DEF AdcSees
        <5>2. x' \in Seq(Coordinate) /\ Len(x') = 0
          BY <3>2, <5>1
        <5>3. QED
          BY <5>2 DEF SamplesOK
      <4>3. QED
        BY <4>1, <4>2
    <3>5. QED
      BY <2>4, <3>4 DEF AdcSees, TypeOK, report, stylus
  <2>5. CASE AdcUp \/ AdcAgain
    <3>1. Len(x) \in Nat
      BY LenProperties DEF TypeOK, SamplesOK
    <3>2. SamplesOK'
      <4>1. x' = x /\ Len(x) # 4
        <5>1. CASE AdcUp
          BY <5>1 DEF AdcUp, SamplesOK, TypeOK
        <5>2. CASE AdcAgain
          <6>1. \A n \in Nat : n < 4 => n # 4
            OBVIOUS
          <6>2. QED
            BY <3>1, <5>2, <6>1, Zenon DEF AdcAgain
        <5>3. QED
          BY <2>5, <5>1, <5>2
      <4>2. QED
        BY <4>1 DEF SamplesOK, TypeOK
    <3>3. QED
      BY <2>5, <3>2 DEF AdcUp, AdcAgain, TypeOK, report, stylus
  <2>6. CASE AdcReport
    <3>1. Average(x) \in Coordinate
      BY <2>6, AverageOfPlaces DEF AdcReport, TypeOK, SamplesOK
    <3>2. SamplesOK'
      <4>1. x' = <<>>
        BY <2>6 DEF AdcReport
      <4>2. x' \in Seq(Coordinate) /\ Len(x') = 0
        BY EmptySeq, <4>1
      <4>3. QED
        BY <4>2 DEF SamplesOK
    <3>3. QED
      BY <2>6, <3>1, <3>2 DEF AdcReport, TypeOK, stylus
  <2>7. CASE Raise \/ Converted
    <3>1. SamplesOK'
      BY <2>7 DEF Raise, Converted, SamplesOK, TypeOK
    <3>2. QED
      <4>1. adcdat' \in Coordinate
        BY <2>7, PlacesAssumption DEF Raise, Converted, TypeOK
      <4>2. /\ UNCHANGED <<loaded, handler, timer, armed, touch, where, mode, pen, at>>
            /\ converting' \in BOOLEAN /\ tc' \in BOOLEAN /\ adc' \in BOOLEAN
        BY <2>7 DEF Raise, Converted, TypeOK, report, stylus
      <4>3. QED
        BY <3>1, <4>1, <4>2 DEF TypeOK
  <2>8. CASE PenMoves
    <3>1. SamplesOK'
      BY <2>8 DEF PenMoves, SamplesOK, TypeOK
    <3>2. at' \in Places /\ pen' \in BOOLEAN /\ tc' \in BOOLEAN
      BY <2>8 DEF PenMoves, TypeOK
    <3>3. QED
      BY <2>8, <3>1, <3>2 DEF PenMoves, TypeOK, report
  <2>9. CASE UNCHANGED vars
    <3>1. SamplesOK'
      BY <2>9 DEF vars, SamplesOK, TypeOK
    <3>2. QED
      <4>1. /\ loaded' = loaded /\ handler' = handler /\ timer' = timer /\ armed' = armed
            /\ touch' = touch /\ where' = where /\ mode' = mode /\ converting' = converting
            /\ adcdat' = adcdat /\ tc' = tc /\ adc' = adc /\ pen' = pen /\ at' = at
        BY <2>9 DEF vars, report, controller, stylus
      <4>2. /\ handler' \in {"none", "tc up", "tc down", "adc up", "adc down"}
            /\ timer' \in {"idle", "report", "wait", "measure", "start"}
            /\ mode' \in {"off", "down", "up", "measure"}
        BY <4>1 DEF TypeOK
      <4>3. QED
        BY <3>1, <4>1, <4>2 DEF TypeOK
  <2>10. QED
    BY <2>1, <2>2, <2>3, <2>4, <2>5, <2>6, <2>7, <2>8, <2>9 DEF Next, Handlers
<1>3. QED
  BY <1>1, <1>2, PTL DEF Spec

(* Nothing leaves the controller measuring with no conversion to come: the *)
(* mode is entered together with a start, except by the timer, which is    *)
(* then at its start.                                                      *)
THEOREM AlwaysNeverStuck == Spec => []NeverStuck
<1>1. Init => NeverStuck
  BY DEF Init, NeverStuck
<1>2. NeverStuck /\ [Next]_vars => NeverStuck'
  <2> SUFFICES ASSUME NeverStuck, [Next]_vars PROVE NeverStuck'
    OBVIOUS
  <2>1. CASE Load
    BY <2>1 DEF Load, NeverStuck
  <2>2. CASE TimerSees \/ TimerReport
    BY <2>2 DEF TimerSees, TimerReport, NeverStuck, controller
  <2>3. CASE TimerWait \/ TimerMeasure \/ TimerStart
    BY <2>3 DEF TimerWait, TimerMeasure, TimerStart, NeverStuck
  <2>4. CASE TcSees \/ AdcSees
    BY <2>4 DEF TcSees, AdcSees, NeverStuck
  <2>5. CASE TcUp \/ AdcUp \/ AdcReport
    BY <2>5 DEF TcUp, AdcUp, AdcReport, NeverStuck
  <2>6. CASE TcDown \/ AdcAgain
    BY <2>6 DEF TcDown, AdcAgain, NeverStuck
  <2>7. CASE Raise \/ Converted \/ PenMoves
    BY <2>7 DEF Raise, Converted, PenMoves, NeverStuck
  <2>8. CASE UNCHANGED vars
    BY <2>8 DEF vars, NeverStuck, controller
  <2>9. QED
    BY <2>1, <2>2, <2>3, <2>4, <2>5, <2>6, <2>7, <2>8 DEF Next, Handlers, Timer
<1>3. QED
  BY <1>1, <1>2, PTL DEF Spec

(* A touch that was reported, and a wait for the pen to go up, always have *)
(* a callback to come that looks at the pen.                               *)
THEOREM AlwaysWatched == Spec => []Watched
<1>1. Init => Watching
  BY DEF Init, Watching, Watched, RearmedWhileWaiting
<1>2. Watching /\ [Next]_vars => Watching'
  <2> SUFFICES ASSUME Watching, [Next]_vars PROVE Watching'
    OBVIOUS
  <2> USE DEF Watching, Watched, RearmedWhileWaiting
  <2>1. CASE Load
    BY <2>1 DEF Load, report
  <2>2. CASE TimerSees \/ TimerReport
    BY <2>2 DEF TimerSees, TimerReport
  <2>3. CASE TimerWait
    BY <2>3 DEF TimerWait, report
  <2>4. CASE TimerMeasure \/ TimerStart
    BY <2>4 DEF TimerMeasure, TimerStart
  <2>5. CASE TcSees \/ AdcSees
    <3>1. handler' # "none"
      BY <2>5 DEF TcSees, AdcSees
    <3>2. UNCHANGED <<timer, armed, touch>>
      BY <2>5 DEF TcSees, AdcSees, report
    <3>3. QED
      BY <3>1, <3>2
  <2>6. CASE TcUp \/ AdcUp
    BY <2>6 DEF TcUp, AdcUp
  <2>7. CASE TcDown \/ AdcAgain
    <3>1. converting'
      BY <2>7 DEF TcDown, AdcAgain
    <3>2. UNCHANGED <<timer, armed, touch>>
      BY <2>7 DEF TcDown, AdcAgain, report
    <3>3. QED
      BY <3>1, <3>2
  <2>8. CASE AdcReport
    BY <2>8 DEF AdcReport
  <2>9. CASE Raise \/ Converted \/ PenMoves
    BY <2>9 DEF Raise, Converted, PenMoves, report
  <2>10. CASE UNCHANGED vars
    BY <2>10 DEF vars, report, controller
  <2>11. QED
    BY <2>1, <2>2, <2>3, <2>4, <2>5, <2>6, <2>7, <2>8, <2>9, <2>10 DEF Next, Handlers, Timer
<1>3. Watching => Watched
  BY DEF Watching
<1>4. QED
  BY <1>1, <1>2, <1>3, PTL DEF Spec
============================================================================
