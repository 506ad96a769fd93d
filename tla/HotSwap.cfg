CONSTANTS
  Commits = {c1, c2}
  NoFile = NoFile
  NoRoot = NoRoot
  Blank = Blank
  Torn = Torn
  Threads = {t1, t2}
  Republish = FALSE
  MaxPublishes = 3
SPECIFICATION FairSpec
INVARIANTS
  GateServesPublished
  OnePublishIsHarmless
  CachedRootIsServed
PROPERTIES
  Converges
