CONSTANTS
  Commits = {c1, c2}
  NoFile = NoFile
  NoRoot = NoRoot
  Blank = Blank
  Torn = Torn
  Publishers = {Task, Op}
  Task = Task
  Main = Main
  NoOne = NoOne
  Absent = Absent
  Unset = Unset
  CliSize = 4
  MayFail = FALSE
  MayReset = TRUE
  DieInPublish = FALSE
  Early = FALSE
  MaxBoots = 2
  MaxDeaths = 0
SPECIFICATION FairSpec

  
PROPERTIES
  AdvertisedSizeKept
  CommitsPublished
CHECK_DEADLOCK FALSE
