CONSTANTS
  Users = {u, v}
  Probe = Probe
  NoOne = NoOne
  SectorPages = 2
  Pages = 4
  Erased = Erased
  Mixed = Mixed
  Factory = {Erased}
SPECIFICATION Spec
INVARIANT AloneWorks RestsDisabled
PROPERTY ChangesInsideCalls
SYMMETRY UserSymmetry
