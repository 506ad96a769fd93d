CONSTANTS
  Commits = {c1, c2, c3}
  NoFile = NoFile
  NoRoot = NoRoot
  Blank = Blank
  Torn = Torn
  Publishers = {Task, Op}
  Task = Task
  Main = Main
  NoOne = NoOne
  Absent = Absent
  Unset = Unset
  CliSize = 8
  MayFail = TRUE
  MayReset = FALSE
  DieInPublish = FALSE
  Early = TRUE
  MaxBoots = 3
  MaxDeaths = 2
SPECIFICATION Spec
INVARIANTS
  AckedSurvive
  ActiveIsWhole
PROPERTIES
  
  PublishedImageKept
CHECK_DEADLOCK FALSE
