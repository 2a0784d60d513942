CONSTANTS
  Procs = {r, w1}
  Reads = {r}
  Size = 2
  Bytes = {1, 2}
  Faults = FALSE
SPECIFICATION Spec
PROPERTY ReadOutputsData
