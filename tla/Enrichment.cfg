CONSTANTS
  Files = {f1, f2}
  NoFile = NoFile
  Tokens = {1, 2}
  PipeSize = 1
  Backlog = 1
  MaxStatus = 2
  Conns = {c1}
  MaxQueries = 2
  MaxTries = 2
SPECIFICATION FairSpec
INVARIANTS
  
  ReadyIsHonest
PROPERTIES
  EnrichmentEnds
CHECK_DEADLOCK FALSE
