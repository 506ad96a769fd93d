CONSTANTS
  Daemons = {d1, d2, d3}
  Inodes = {i1, i2, i3}
  None = None
SPECIFICATION AdmissionSpec
CHECK_DEADLOCK FALSE
INVARIANTS
  TwoDaemonsOneOwner

  
