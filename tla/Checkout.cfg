CONSTANTS
  Paths = {p, q}
  Projected = {p}
  Allow = {}
  MaxProposals = 2
  MaxEdits = 2
  MaxDeaths = 1
SPECIFICATION Spec
INVARIANTS
  StatTellsTheEntry
PROPERTIES
  AcceptedKept
  EditsKept
  ReconcileSettles
