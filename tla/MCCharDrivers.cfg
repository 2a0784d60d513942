CONSTANTS
  Procs = {a, b}
  TimerProcs = {a}
  Pins = 2
  Preemptible = FALSE
  Callers = {a, b}
  Words = 2
  Writers = {a, b}
  Blocks = {b1, b2}
  NoBlock = NoBlock
  MaxChunks = 2
SPECIFICATION DriversSpec
INVARIANT TimerTypeOK NothingLeft KeyvalSettles
PROPERTY WaitEnds AloneIsOk SendsItsOwn
CHECK_DEADLOCK FALSE
