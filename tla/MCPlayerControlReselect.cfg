SPECIFICATION FairSpec
CONSTANTS
  Files = {f1, f2}
  OnDrive = {f1}
  NoName = NoName
  NoFile = NoFile
  AutoNext = FALSE
  SongsWithVideo = FALSE
  Reselect = TRUE
  Removals = FALSE
  MountFails = FALSE
  SleepTimer = FALSE
PROPERTIES ResumeAnswered
\* The machine is switched off in the end.
CHECK_DEADLOCK FALSE
