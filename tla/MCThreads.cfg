SPECIFICATION ThreadsSpec
CONSTANTS
  Files = {f1, f2}
  OnDrive = {f1}
  NoName = NoName
  NoFile = NoFile
  AutoNext = FALSE
  SongsWithVideo = FALSE
  Reselect = TRUE
  Removals = TRUE
  MountFails = TRUE
  SleepTimer = TRUE
  Blocks = {b1, b2}
  NoBlock = NoBlock
  MaxFilms = 3
  Drives <- MCDrives
  NoDrive = NoDrive
  MaxDevices = 4
  Stray = 2
  Retries = 5
INVARIANTS TypesOK ShutdownRequestKept PreviousEndedByChoice OneDrawerAwake
  Served WindowsAlive MenuIsUsable QuietDuringJobs NextIsOnList TableIsDrive
PROPERTIES MainIsAnswered StopHeardByChoice GuiGivesWayByChoice
  CacheWaitsEnd MenusGo DeviceAnswers NetworkAnswers
\* The machine is switched off in the end.
CHECK_DEADLOCK FALSE
