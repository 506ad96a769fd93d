CONSTANTS
  Conns = {c1}
  Subscribers = {c1}
  Emitters = {c1}
  Identities = {Nothing}
  Topics = {t}
  Loop = Loop
  Nothing = Nothing
  Capacity = 1
  Buffer = 1
  SubBuffer = 1
  MaxEvents = 3
  MaxSubs = 2
SPECIFICATION BusSpec
CHECK_DEADLOCK FALSE
INVARIANTS
  
  PushedOnce
PROPERTIES
  DeadOnesLeave
