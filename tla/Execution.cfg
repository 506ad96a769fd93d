CONSTANTS
  Runs = {r1, r2}
  Clients = {a, b}
  Keys = {k}
  None = None
SPECIFICATION Spec
CHECK_DEADLOCK FALSE
INVARIANTS
  NoStraySignal
  TreeOutlivesGroup
  StoppedUnlessCancelling
  OneRunPerKey
  NothingOutlivesBackend
PROPERTIES
  FailureStays
  EveryRunEnds
