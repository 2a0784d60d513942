CONSTANTS
  Procs = {a, b}
  Pins = 2
  Preemptible = TRUE
SPECIFICATION Spec
INVARIANT OpenHasIrqs
