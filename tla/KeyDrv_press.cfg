CONSTANTS
  Procs = {a}
  Pins = 2
  Preemptible = TRUE
SPECIFICATION Spec
INVARIANT SleepsOnlyWithoutPress
