SPECIFICATION Spec
CONSTANTS
  Files = {f1, f2}
  OnDrive = {f1}
  NoName = NoName
  NoFile = NoFile
  AutoNext = TRUE
  SongsWithVideo = FALSE
  Reselect = FALSE
  Removals = FALSE
  MountFails = FALSE
  SleepTimer = FALSE
INVARIANTS PreviousFileEnded
\* The machine is switched off in the end.
CHECK_DEADLOCK FALSE
