CONSTANTS
  Files = {a, b}
  Allow = {"save", "stage", "rename"}
  MaxSaves = 2
  MaxMoves = 3
  MaxCommits = 2
  MaxFailures = 1
SPECIFICATION WatchSpec
INVARIANTS
  StaleIsKnown

  
