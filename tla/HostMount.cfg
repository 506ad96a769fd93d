CONSTANTS
  Paths = {m, n}
  Lines = {1, 2}
  Texts = {"x", "y"}
  Absent = Absent
  Any = Any
  Procs = {p, q}
  MaxReads = 1
  MaxRequests = 4
  MaxInFlight = 2
  MaxRemote = 1
SPECIFICATION Spec
INVARIANTS
  KeepsOthersEdits
  OnlyRefusalsDrop
PROPERTY
  TruncateLands
CHECK_DEADLOCK FALSE
