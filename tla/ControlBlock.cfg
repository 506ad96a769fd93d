CONSTANTS
  Publishers = {p1, p2}
  Readers = {r1}
  Values = {v1, v2}
  Zero = Zero
  NoOne = NoOne
  Nothing = Nothing
  AnySetArena = FALSE
  MaxPublishes = 2
  MaxDeaths = 1
SPECIFICATION FairSpec
INVARIANTS
  RootPublishedInFull
PROPERTIES
  ImplementsRegister
  KeepsServing
  ReadsReturn
