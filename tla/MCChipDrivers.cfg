CONSTANTS
  Procs = {r, w1, w2}
  Reads = {r}
  Size = 2
  Bytes = {1, 2}
  Faults = TRUE
  Users = {u, v}
  Nobody = Nobody
  Pages = 2
  Digit = 2
  Highs = 2
  MaxWrite = 2
  Ink = {7}
  Joining = {"write"}
  CONT_RX_PKT_CNT = 2
  MaxFifo = 1
SPECIFICATION ChipsSpec
INVARIANT AloneShows RightRegister InterruptComes TxGoesOn RxComes
PROPERTY ReadIsLastWrite
SYMMETRY Interchangeable
