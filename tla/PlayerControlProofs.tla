------------------------- MODULE PlayerControlProofs -------------------------
(***************************************************************************)
(* Whatever files there are: the player's request to the menus is not      *)
(* lost, the previous file has ended when the next is set, and a film does *)
(* not draw while the menus draw, each as far as the user's settings and   *)
(* the drive allow it.                                                     *)
(***************************************************************************)
EXTENDS PlayerControl, TLAPS

\* TypeOK, in two parts.
Places ==
  /\ control \in 0..2
  /\ filename \in Files \cup {NoName, NoFile}
  /\ loaded \in Files \cup {NoName} /\ chosen \in Files \cup {NoName}
  /\ ppc \in {"idle", "open", "audio", "shutgui", "film", "park", "parked",
              "resume", "close", "named"}
  /\ mpc \in {"browse", "mount", "load", "stopping", "set", "taken", "ready",
              "resume", "resuming", "forward", "next", "enter", "mplayer",
              "check", "nap", "menus", "over"}
  /\ dev \in {"run", "suspended", "look", "tell", "none"}
  /\ menuMode \in 0..1 /\ gui \in {"poll", "exit", "off"}

Flags ==
  /\ song \in BOOLEAN /\ err \in BOOLEAN /\ videos \in BOOLEAN /\ img \in BOOLEAN
  /\ guiShutdown \in BOOLEAN /\ exit \in BOOLEAN /\ due \in BOOLEAN /\ back \in BOOLEAN
  /\ halt \in BOOLEAN /\ plugged \in BOOLEAN /\ mounted \in BOOLEAN

\* The main thread is not in WiiMenu.
Away == {"enter", "mplayer", "check", "nap", "menus"}

\* The player opens a file, or waits until it may draw.
Showing == {"open", "resume", "shutgui"}

\* The GUI thread's way out is not taken in MPlayerMenu; the menus are told to go by
\* a video or by the exit.
ModeOK ==
  /\ menuMode = 1 <=> mpc \in {"mplayer", "check", "nap"}
  /\ gui # "poll" => exit /\ mpc \notin Away
  /\ guiShutdown => (exit \/ ppc = "shutgui") /\ mpc \notin Away
  /\ mpc = "enter" => ppc = "shutgui"
  /\ mpc \in Away \ {"menus"} => dev = "none"

\* Without the timer only the GUI thread exits.
TimerOK == ~SleepTimer => ~due /\ (exit => gui # "poll")

\* Without removals the device thread finds nothing.
DriveOK == ~Removals => plugged /\ mounted /\ dev \notin {"look", "tell"}

\* The device thread is parked from the stop of the previous file until the
\* player has the next, and from a resume on.
ParkedOK == mpc \in {"stopping", "set", "taken", "ready", "resuming"} => dev = "suspended"

\* Who is about to show a film has control, and keeps it but for an exit or for
\* another file; the menus do not go for it twice.
ShowOK ==
  /\ ppc \in Showing => control = 0 \/ (control = 2 /\ (exit \/ mpc = "stopping"))
  /\ ppc = "shutgui" => guiShutdown \/ mpc \in Away
  /\ ppc = "shutgui" /\ mpc \in {"enter", "mplayer", "check"} => ~exit
  /\ mpc = "menus" => ppc \notin Showing /\ (control # 0 \/ ppc = "idle")
  /\ mpc \in Away => ppc # "resume" /\ (ppc = "parked" => control # 0)

\* A file that the player has not taken yet.
Given == ppc = "idle" /\ filename # NoFile

\* Without a play order only LoadMPlayerFile gives the player a file, with the
\* device thread parked.
LoadOK ==
  ~AutoNext =>
    /\ ppc # "named" /\ mpc \notin {"forward", "next"}
    /\ Given => mpc \in {"taken", "ready", "over"} \/ (mpc = "browse" /\ guiShutdown)
    /\ mpc = "ready" /\ control = 1 => ~Given
    /\ mpc \in Away => ppc # "open"
    /\ ppc \in Showing \/ Given \/ (ppc = "parked" /\ control = 0) =>
         dev \in {"suspended", "none"}

Inv == Places /\ Flags /\ ModeOK /\ TimerOK /\ DriveOK /\ ParkedOK /\ ShowOK /\ LoadOK

\* The setting in which nobody but the main thread stops a file while a play order
\* gives the next.
Undisturbed == AutoNext => ~Removals /\ ~SleepTimer

\* Without a play order: the file that was to be stopped has ended.
EndedOK ==
  /\ mpc = "stopping" /\ control # 2 => ppc = "idle" /\ filename = NoFile
  /\ PreviousFileEnded

\* Without the sleep timer: a film has control and the screen.
FilmOK == ppc = "film" => control = 0 /\ menuMode = 1

----------------------------------------------------------------------------
(* The steps in groups: what the player, the main thread and the others do. *)
Opens ==
  IdleDiscard \/ TakeFile \/ OpenFails \/ OpenAudio \/ OpenVideo \/ GuiGone \/
  NothingNext \/ LoadNext \/ (\E f \in Files : NextFound(f))
Plays ==
  PlayStops \/ PlayEnds \/ GotoGui \/ Park \/ Unpark \/ Resumed
Loads ==
  ResumeMPlayerFile \/ RefreshMenu \/ ChangeInterfaceFails \/ ChangeInterface \/
  StopPrevious \/ PreviousEnded \/ SetFile \/ FileTaken \/ LoadReturns \/
  ResumeReturns \/ SongEnded \/ FindNext
Switches ==
  LeaveMenus \/ EnterMPlayer \/ MPlayerMenu \/ CheckSleepTimer \/ Nap \/ LeaveMPlayer
  \/ EnterMenus
Others ==
  GuiSleepTimer \/ GuiExit \/ ExitThread \/ Plug \/ TimerRunsOut \/ HomeButton

\* Every step is in one of the groups.
LEMMA NextGroups ==
  ASSUME Next
  PROVE  Opens \/ Plays \/ UserStep \/ Loads \/ Switches \/ DeviceStep \/ Others
BY Zenon DEF Next, PlayerStep, PlayerMust, MainMust, GuiMust, Opens, Plays, Loads, Switches, Others

\* The flags keep their types.
LEMMA FlagsStep ==
  ASSUME Flags, Next
  PROVE  Flags'
<1> USE FilesAssumption DEF Flags, film, playing, screen, menu, drive, timer
<1>1. CASE Opens
  <2>1. CASE IdleDiscard
    BY <2>1, Zenon DEF IdleDiscard
  <2>2. CASE TakeFile
    BY <2>2, Zenon DEF TakeFile, MainSees
  <2>3. CASE OpenFails
    BY <2>3, Zenon DEF OpenFails, Opened
  <2>4. CASE OpenAudio
    BY <2>4, Zenon DEF OpenAudio, Opened, ToMenus
  <2>5. CASE OpenVideo
    BY <2>5, Zenon DEF OpenVideo, Opened, MainSees, ShutdownGui
  <2>6. CASE GuiGone
    BY <2>6, Zenon DEF GuiGone
  <2>7. CASE NothingNext
    BY <2>7, Zenon DEF NothingNext, Forget
  <2>8. CASE LoadNext
    BY <2>8, Zenon DEF LoadNext
  <2>9. CASE \E f \in Files : NextFound(f)
    BY <2>9, Zenon DEF NextFound
  <2> QED
    BY <1>1, <2>1, <2>2, <2>3, <2>4, <2>5, <2>6, <2>7, <2>8, <2>9 DEF Opens
<1>2. CASE Plays
  <2>1. CASE PlayStops
    BY <2>1, Zenon DEF PlayStops, EndOfFilm
  <2>2. CASE PlayEnds
    BY <2>2, Zenon DEF PlayEnds, EndOfFilm
  <2>3. CASE GotoGui
    BY <2>3, Zenon DEF GotoGui
  <2>4. CASE Park
    BY <2>4, Zenon DEF Park, ToMenus
  <2>5. CASE Unpark
    BY <2>5, Zenon DEF Unpark
  <2>6. CASE Resumed
    BY <2>6, Zenon DEF Resumed, ShutdownGui
  <2> QED
    BY <1>2, <2>1, <2>2, <2>3, <2>4, <2>5, <2>6 DEF Plays
<1>3. CASE UserStep
  <2>1. CASE \E f \in Files : Select(f)
    BY <2>1, Zenon DEF Select
  <2>2. CASE SelectLoaded
    BY <2>2, Zenon DEF SelectLoaded
  <2>3. CASE ForwardSong
    BY <2>3, Zenon DEF ForwardSong
  <2>4. CASE StartPlaylist
    BY <2>4, Zenon DEF StartPlaylist
  <2> QED
    BY <1>3, <2>1, <2>2, <2>3, <2>4 DEF UserStep
<1>4. CASE Loads
  <2>1. CASE ResumeMPlayerFile
    BY <2>1, Zenon DEF ResumeMPlayerFile
  <2>2. CASE RefreshMenu
    BY <2>2, Zenon DEF RefreshMenu
  <2>3. CASE ChangeInterfaceFails
    BY <2>3, Zenon DEF ChangeInterfaceFails
  <2>4. CASE ChangeInterface
    BY <2>4, Zenon DEF ChangeInterface
  <2>5. CASE StopPrevious
    BY <2>5, Zenon DEF StopPrevious
  <2>6. CASE PreviousEnded
    BY <2>6, Zenon DEF PreviousEnded
  <2>7. CASE SetFile
    BY <2>7, Zenon DEF SetFile
  <2>8. CASE FileTaken
    BY <2>8, Zenon DEF FileTaken
  <2>9. CASE LoadReturns
    BY <2>9, Zenon DEF LoadReturns
  <2>10. CASE ResumeReturns
    BY <2>10, Zenon DEF ResumeReturns
  <2>11. CASE SongEnded
    BY <2>11, Zenon DEF SongEnded
  <2>12. CASE FindNext
    BY <2>12, ZenonT(60) DEF FindNext, Forget
  <2> QED
    BY <1>4, <2>1, <2>2, <2>3, <2>4, <2>5, <2>6, <2>7, <2>8, <2>9, <2>10, <2>11, <2>12
    DEF Loads
<1>5. CASE Switches
  <2>1. CASE LeaveMenus
    BY <2>1, Zenon DEF LeaveMenus
  <2>2. CASE EnterMPlayer
    BY <2>2, Zenon DEF EnterMPlayer
  <2>3. CASE MPlayerMenu
    BY <2>3, Zenon DEF MPlayerMenu
  <2>4. CASE CheckSleepTimer
    BY <2>4, Zenon DEF CheckSleepTimer, Sleep
  <2>5. CASE Nap
    BY <2>5, Zenon DEF Nap
  <2>6. CASE LeaveMPlayer
    BY <2>6, Zenon DEF LeaveMPlayer
  <2>7. CASE EnterMenus
    BY <2>7, Zenon DEF EnterMenus
  <2> QED
    BY <1>5, <2>1, <2>2, <2>3, <2>4, <2>5, <2>6, <2>7 DEF Switches
<1>6. CASE DeviceStep
  <2>1. CASE DeviceWakes
    BY <2>1, Zenon DEF DeviceWakes
  <2>2. CASE DriveRemoved
    BY <2>2, Zenon DEF DriveRemoved
  <2>3. CASE DriveStopsFilm
    BY <2>3, Zenon DEF DriveStopsFilm
  <2>4. CASE DriveUnchanged
    BY <2>4, Zenon DEF DriveUnchanged
  <2>5. CASE DriveInserted
    BY <2>5, Zenon DEF DriveInserted
  <2>6. CASE DeviceSuspends
    BY <2>6, Zenon DEF DeviceSuspends
  <2> QED
    BY <1>6, <2>1, <2>2, <2>3, <2>4, <2>5, <2>6 DEF DeviceStep
<1>7. CASE Others
  <2>1. CASE GuiSleepTimer
    BY <2>1, Zenon DEF GuiSleepTimer, GuiRuns, Sleep
  <2>2. CASE GuiExit
    BY <2>2, Zenon DEF GuiExit, GuiRuns
  <2>3. CASE ExitThread
    BY <2>3, Zenon DEF ExitThread
  <2>4. CASE Plug
    BY <2>4, Zenon DEF Plug
  <2>5. CASE TimerRunsOut
    BY <2>5, Zenon DEF TimerRunsOut
  <2>6. CASE HomeButton
    BY <2>6, Zenon DEF HomeButton, GuiRuns
  <2> QED
    BY <1>7, <2>1, <2>2, <2>3, <2>4, <2>5, <2>6 DEF Others
<1> QED
  BY <1>1, <1>2, <1>3, <1>4, <1>5, <1>6, <1>7, NextGroups

\* So do the other variables.
LEMMA PlacesStep ==
  ASSUME Places, Next
  PROVE  Places'
<1> USE FilesAssumption DEF Places, film, playing, screen, menu, drive, timer
<1>1. CASE Opens
  BY <1>1 DEF Opens, IdleDiscard, TakeFile, OpenFails, OpenAudio, OpenVideo, GuiGone,
  NothingNext, LoadNext, Opened, MainSees, ShutdownGui, ToMenus, Forget, NextFound
<1>2. CASE Plays
  BY <1>2 DEF Plays, PlayStops, PlayEnds, GotoGui, Park, Unpark, Resumed, EndOfFilm,
  ToMenus, ShutdownGui
<1>3. CASE UserStep
  BY <1>3 DEF UserStep, Select, SelectLoaded, ForwardSong, StartPlaylist
<1>4. CASE Loads
  <2>1. CASE ResumeMPlayerFile
    BY <2>1 DEF ResumeMPlayerFile
  <2>2. CASE RefreshMenu
    BY <2>2 DEF RefreshMenu
  <2>3. CASE ChangeInterfaceFails
    BY <2>3 DEF ChangeInterfaceFails
  <2>4. CASE ChangeInterface
    BY <2>4 DEF ChangeInterface
  <2>5. CASE StopPrevious
    BY <2>5 DEF StopPrevious
  <2>6. CASE PreviousEnded
    BY <2>6 DEF PreviousEnded
  <2>7. CASE SetFile
    BY <2>7 DEF SetFile
  <2>8. CASE FileTaken
    BY <2>8 DEF FileTaken
  <2>9. CASE LoadReturns
    BY <2>9 DEF LoadReturns
  <2>10. CASE ResumeReturns
    BY <2>10 DEF ResumeReturns
  <2>11. CASE SongEnded
    BY <2>11 DEF SongEnded
  <2>12. CASE FindNext
    BY <2>12 DEF FindNext, Forget
  <2> QED
    BY <1>4, <2>1, <2>2, <2>3, <2>4, <2>5, <2>6, <2>7, <2>8, <2>9, <2>10, <2>11, <2>12
    DEF Loads
<1>5. CASE Switches
  BY <1>5 DEF Switches, LeaveMenus, EnterMPlayer, MPlayerMenu, CheckSleepTimer, Nap,
  LeaveMPlayer, EnterMenus, Sleep
<1>6. CASE DeviceStep
  BY <1>6 DEF DeviceStep, DeviceWakes, DriveRemoved, DriveStopsFilm, DriveUnchanged,
  DriveInserted, DeviceSuspends
<1>7. CASE Others
  BY <1>7 DEF Others, GuiSleepTimer, GuiExit, ExitThread, Plug, TimerRunsOut,
  HomeButton, GuiRuns, Sleep
<1> QED
  BY <1>1, <1>2, <1>3, <1>4, <1>5, <1>6, <1>7, NextGroups

\* Who leaves WiiMenu does so for a video that is about to be shown; the GUI thread
\* does not run in MPlayerMenu.
LEMMA ModeStep ==
  ASSUME Inv, Next
  PROVE  ModeOK'
<1> USE DEF Inv, Places, ModeOK, ShowOK, Away, Showing, film, playing, screen, menu, drive, timer
<1>1. CASE Opens
  <2>1. CASE IdleDiscard
    BY <2>1 DEF IdleDiscard
  <2>2. CASE TakeFile
    BY <2>2 DEF TakeFile, MainSees
  <2>3. CASE OpenFails
    BY <2>3 DEF OpenFails, Opened
  <2>4. CASE OpenAudio
    BY <2>4 DEF OpenAudio, Opened, ToMenus
  <2>5. CASE OpenVideo
    BY <2>5 DEF OpenVideo, Opened, MainSees, ShutdownGui
  <2>6. CASE GuiGone
    BY <2>6 DEF GuiGone
  <2>7. CASE NothingNext
    BY <2>7 DEF NothingNext, Forget
  <2>8. CASE LoadNext
    BY <2>8 DEF LoadNext
  <2>9. CASE \E f \in Files : NextFound(f)
    BY <2>9 DEF NextFound
  <2> QED
    BY <1>1, <2>1, <2>2, <2>3, <2>4, <2>5, <2>6, <2>7, <2>8, <2>9 DEF Opens
<1>2. CASE Plays
  BY <1>2 DEF Plays, PlayStops, PlayEnds, GotoGui, Park, Unpark, Resumed, EndOfFilm,
  ToMenus, ShutdownGui
<1>3. CASE UserStep
  BY <1>3 DEF UserStep, Select, SelectLoaded, ForwardSong, StartPlaylist
<1>4. CASE Loads
  <2>1. CASE ResumeMPlayerFile
    BY <2>1 DEF ResumeMPlayerFile
  <2>2. CASE RefreshMenu
    BY <2>2 DEF RefreshMenu
  <2>3. CASE ChangeInterfaceFails
    BY <2>3 DEF ChangeInterfaceFails
  <2>4. CASE ChangeInterface
    BY <2>4 DEF ChangeInterface
  <2>5. CASE StopPrevious
    BY <2>5 DEF StopPrevious
  <2>6. CASE PreviousEnded
    BY <2>6 DEF PreviousEnded
  <2>7. CASE SetFile
    BY <2>7 DEF SetFile
  <2>8. CASE FileTaken
    BY <2>8 DEF FileTaken
  <2>9. CASE LoadReturns
    BY <2>9 DEF LoadReturns
  <2>10. CASE ResumeReturns
    BY <2>10 DEF ResumeReturns
  <2>11. CASE SongEnded
    BY <2>11 DEF SongEnded
  <2>12. CASE FindNext
    BY <2>12 DEF FindNext, Forget
  <2> QED
    BY <1>4, <2>1, <2>2, <2>3, <2>4, <2>5, <2>6, <2>7, <2>8, <2>9, <2>10, <2>11, <2>12
    DEF Loads
<1>5. CASE Switches
  BY <1>5 DEF Switches, LeaveMenus, EnterMPlayer, MPlayerMenu, CheckSleepTimer, Nap,
  LeaveMPlayer, EnterMenus, Sleep
<1>6. CASE DeviceStep
  BY <1>6 DEF DeviceStep, DeviceWakes, DriveRemoved, DriveStopsFilm, DriveUnchanged,
  DriveInserted, DeviceSuspends
<1>7. CASE Others
  <2>1. CASE GuiSleepTimer
    BY <2>1 DEF GuiSleepTimer, GuiRuns, Sleep
  <2>2. CASE GuiExit
    BY <2>2 DEF GuiExit
  <2>3. CASE ExitThread
    BY <2>3 DEF ExitThread
  <2>4. CASE Plug
    BY <2>4 DEF Plug
  <2>5. CASE TimerRunsOut
    BY <2>5 DEF TimerRunsOut
  <2>6. CASE HomeButton
    BY <2>6 DEF HomeButton, GuiRuns
  <2> QED
    BY <1>7, <2>1, <2>2, <2>3, <2>4, <2>5, <2>6 DEF Others
<1> QED
  BY <1>1, <1>2, <1>3, <1>4, <1>5, <1>6, <1>7, NextGroups

\* What the timer and the drive may do depends on the settings; nothing wakes the
\* device thread before the player has the file.
LEMMA SettingsStep ==
  ASSUME Inv, Next
  PROVE  TimerOK' /\ DriveOK' /\ ParkedOK'
<1> USE DEF Inv, Places, ModeOK, ShowOK, Away, TimerOK, DriveOK, ParkedOK, film, playing, screen, menu, drive, timer
<1>1. CASE Opens
  BY <1>1 DEF Opens, IdleDiscard, TakeFile, OpenFails, OpenAudio, OpenVideo, GuiGone,
  NothingNext, LoadNext, Opened, MainSees, ShutdownGui, ToMenus, Forget, NextFound
<1>2. CASE Plays
  BY <1>2 DEF Plays, PlayStops, PlayEnds, GotoGui, Park, Unpark, Resumed, EndOfFilm,
  ToMenus, ShutdownGui
<1>3. CASE UserStep
  BY <1>3 DEF UserStep, Select, SelectLoaded, ForwardSong, StartPlaylist
<1>4. CASE Loads
  <2>1. CASE ResumeMPlayerFile
    BY <2>1 DEF ResumeMPlayerFile
  <2>2. CASE RefreshMenu
    BY <2>2 DEF RefreshMenu
  <2>3. CASE ChangeInterfaceFails
    BY <2>3 DEF ChangeInterfaceFails
  <2>4. CASE ChangeInterface
    BY <2>4 DEF ChangeInterface
  <2>5. CASE StopPrevious
    BY <2>5 DEF StopPrevious
  <2>6. CASE PreviousEnded
    BY <2>6 DEF PreviousEnded
  <2>7. CASE SetFile
    BY <2>7 DEF SetFile
  <2>8. CASE FileTaken
    BY <2>8 DEF FileTaken
  <2>9. CASE LoadReturns
    BY <2>9 DEF LoadReturns
  <2>10. CASE ResumeReturns
    BY <2>10 DEF ResumeReturns
  <2>11. CASE SongEnded
    BY <2>11 DEF SongEnded
  <2>12. CASE FindNext
    BY <2>12 DEF FindNext, Forget
  <2> QED
    BY <1>4, <2>1, <2>2, <2>3, <2>4, <2>5, <2>6, <2>7, <2>8, <2>9, <2>10, <2>11, <2>12
    DEF Loads
<1>5. CASE Switches
  <2>1. CASE LeaveMenus
    BY <2>1 DEF LeaveMenus
  <2>2. CASE EnterMPlayer
    BY <2>2 DEF EnterMPlayer
  <2>3. CASE MPlayerMenu
    BY <2>3 DEF MPlayerMenu
  <2>4. CASE CheckSleepTimer
    BY <2>4 DEF CheckSleepTimer, Sleep, Flags
  <2>5. CASE Nap
    BY <2>5 DEF Nap
  <2>6. CASE LeaveMPlayer
    BY <2>6 DEF LeaveMPlayer
  <2>7. CASE EnterMenus
    BY <2>7 DEF EnterMenus
  <2> QED
    BY <1>5, <2>1, <2>2, <2>3, <2>4, <2>5, <2>6, <2>7 DEF Switches
<1>6. CASE DeviceStep
  <2>1. CASE DeviceWakes
    BY <2>1 DEF DeviceWakes, Flags
  <2>2. CASE DriveRemoved
    BY <2>2 DEF DriveRemoved
  <2>3. CASE DriveStopsFilm
    BY <2>3 DEF DriveStopsFilm
  <2>4. CASE DriveUnchanged
    BY <2>4 DEF DriveUnchanged
  <2>5. CASE DriveInserted
    BY <2>5 DEF DriveInserted
  <2>6. CASE DeviceSuspends
    BY <2>6 DEF DeviceSuspends
  <2> QED
    BY <1>6, <2>1, <2>2, <2>3, <2>4, <2>5, <2>6 DEF DeviceStep
<1>7. CASE Others
  BY <1>7 DEF Others, GuiSleepTimer, GuiExit, ExitThread, Plug, TimerRunsOut,
  HomeButton, GuiRuns, Sleep
<1> QED
  BY <1>1, <1>2, <1>3, <1>4, <1>5, <1>6, <1>7, NextGroups

\* Whoever writes 2 to controlledbygui while a video is about to be shown leaves
\* the menus or stops the file for another one.
LEMMA ShowStep ==
  ASSUME Inv, Undisturbed, Next
  PROVE  ShowOK'
<1> USE DEF Inv, Places, ModeOK, ShowOK, Away, TimerOK, DriveOK, LoadOK, Undisturbed, Showing, film, playing, screen, menu, drive, timer
<1>1. CASE Opens
  <2>1. CASE IdleDiscard
    BY <2>1 DEF IdleDiscard
  <2>2. CASE TakeFile
    BY <2>2 DEF TakeFile, MainSees
  <2>3. CASE OpenFails
    BY <2>3 DEF OpenFails, Opened
  <2>4. CASE OpenAudio
    BY <2>4 DEF OpenAudio, Opened, ToMenus
  <2>5. CASE OpenVideo
    BY <2>5 DEF OpenVideo, Opened, MainSees, ShutdownGui
  <2>6. CASE GuiGone
    BY <2>6 DEF GuiGone
  <2>7. CASE NothingNext
    BY <2>7 DEF NothingNext, Forget
  <2>8. CASE LoadNext
    BY <2>8 DEF LoadNext
  <2>9. CASE \E f \in Files : NextFound(f)
    BY <2>9 DEF NextFound
  <2> QED
    BY <1>1, <2>1, <2>2, <2>3, <2>4, <2>5, <2>6, <2>7, <2>8, <2>9 DEF Opens
<1>2. CASE Plays
  <2>1. CASE PlayStops
    BY <2>1 DEF PlayStops, EndOfFilm
  <2>2. CASE PlayEnds
    BY <2>2 DEF PlayEnds, EndOfFilm
  <2>3. CASE GotoGui
    BY <2>3 DEF GotoGui
  <2>4. CASE Park
    BY <2>4 DEF Park, ToMenus
  <2>5. CASE Unpark
    BY <2>5 DEF Unpark
  <2>6. CASE Resumed
    BY <2>6 DEF Resumed, ShutdownGui
  <2> QED
    BY <1>2, <2>1, <2>2, <2>3, <2>4, <2>5, <2>6 DEF Plays
<1>3. CASE UserStep
  BY <1>3 DEF UserStep, Select, SelectLoaded, ForwardSong, StartPlaylist
<1>4. CASE Loads
  <2>1. CASE ResumeMPlayerFile
    BY <2>1 DEF ResumeMPlayerFile
  <2>2. CASE RefreshMenu
    BY <2>2 DEF RefreshMenu
  <2>3. CASE ChangeInterfaceFails
    BY <2>3 DEF ChangeInterfaceFails
  <2>4. CASE ChangeInterface
    BY <2>4 DEF ChangeInterface
  <2>5. CASE StopPrevious
    BY <2>5 DEF StopPrevious
  <2>6. CASE PreviousEnded
    BY <2>6 DEF PreviousEnded
  <2>7. CASE SetFile
    BY <2>7 DEF SetFile
  <2>8. CASE FileTaken
    BY <2>8 DEF FileTaken
  <2>9. CASE LoadReturns
    BY <2>9 DEF LoadReturns
  <2>10. CASE ResumeReturns
    BY <2>10 DEF ResumeReturns
  <2>11. CASE SongEnded
    BY <2>11 DEF SongEnded
  <2>12. CASE FindNext
    BY <2>12 DEF FindNext, Forget
  <2> QED
    BY <1>4, <2>1, <2>2, <2>3, <2>4, <2>5, <2>6, <2>7, <2>8, <2>9, <2>10, <2>11, <2>12 DEF Loads
<1>5. CASE Switches
  <2>1. CASE LeaveMenus
    BY <2>1 DEF LeaveMenus
  <2>2. CASE EnterMPlayer
    BY <2>2 DEF EnterMPlayer
  <2>3. CASE MPlayerMenu
    BY <2>3 DEF MPlayerMenu
  <2>4. CASE CheckSleepTimer
    BY <2>4 DEF CheckSleepTimer, Sleep, Flags
  <2>5. CASE Nap
    BY <2>5 DEF Nap
  <2>6. CASE LeaveMPlayer
    BY <2>6 DEF LeaveMPlayer
  <2>7. CASE EnterMenus
    BY <2>7 DEF EnterMenus
  <2> QED
    BY <1>5, <2>1, <2>2, <2>3, <2>4, <2>5, <2>6, <2>7 DEF Switches
<1>6. CASE DeviceStep
  BY <1>6 DEF DeviceStep, DeviceWakes, DriveRemoved, DriveStopsFilm, DriveUnchanged,
  DriveInserted, DeviceSuspends
<1>7. CASE Others
  <2>1. CASE GuiSleepTimer
    BY <2>1 DEF GuiSleepTimer, GuiRuns, Sleep
  <2>2. CASE GuiExit
    BY <2>2 DEF GuiExit
  <2>3. CASE ExitThread
    BY <2>3 DEF ExitThread
  <2>4. CASE Plug
    BY <2>4 DEF Plug
  <2>5. CASE TimerRunsOut
    BY <2>5 DEF TimerRunsOut
  <2>6. CASE HomeButton
    BY <2>6 DEF HomeButton, GuiRuns
  <2> QED
    BY <1>7, <2>1, <2>2, <2>3, <2>4, <2>5, <2>6 DEF Others
<1> QED
  BY <1>1, <1>2, <1>3, <1>4, <1>5, <1>6, <1>7, NextGroups

\* Without a play order a file reaches the player only on LoadMPlayerFile's way.
LEMMA LoadStep ==
  ASSUME Inv, Next
  PROVE  LoadOK'
<1> USE DEF Inv, Places, ModeOK, ParkedOK, ShowOK, Away, LoadOK, Showing, Given, film, playing, screen, menu, drive, timer
<1>1. CASE Opens
  BY <1>1 DEF Opens, IdleDiscard, TakeFile, OpenFails, OpenAudio, OpenVideo, GuiGone,
  NothingNext, LoadNext, Opened, MainSees, ShutdownGui, ToMenus, Forget, NextFound
<1>2. CASE Plays
  BY <1>2 DEF Plays, PlayStops, PlayEnds, GotoGui, Park, Unpark, Resumed, EndOfFilm,
  ToMenus, ShutdownGui
<1>3. CASE UserStep
  BY <1>3 DEF UserStep, Select, SelectLoaded, ForwardSong, StartPlaylist
<1>4. CASE Loads
  <2>1. CASE ResumeMPlayerFile
    BY <2>1 DEF ResumeMPlayerFile
  <2>2. CASE RefreshMenu
    BY <2>2 DEF RefreshMenu
  <2>3. CASE ChangeInterfaceFails
    BY <2>3 DEF ChangeInterfaceFails
  <2>4. CASE ChangeInterface
    BY <2>4 DEF ChangeInterface
  <2>5. CASE StopPrevious
    BY <2>5 DEF StopPrevious
  <2>6. CASE PreviousEnded
    BY <2>6 DEF PreviousEnded
  <2>7. CASE SetFile
    BY <2>7 DEF SetFile
  <2>8. CASE FileTaken
    BY <2>8 DEF FileTaken
  <2>9. CASE LoadReturns
    BY <2>9 DEF LoadReturns
  <2>10. CASE ResumeReturns
    BY <2>10 DEF ResumeReturns
  <2>11. CASE SongEnded
    BY <2>11 DEF SongEnded
  <2>12. CASE FindNext
    BY <2>12 DEF FindNext, Forget
  <2> QED
    BY <1>4, <2>1, <2>2, <2>3, <2>4, <2>5, <2>6, <2>7, <2>8, <2>9, <2>10, <2>11, <2>12
    DEF Loads
<1>5. CASE Switches
  BY <1>5 DEF Switches, LeaveMenus, EnterMPlayer, MPlayerMenu, CheckSleepTimer, Nap,
  LeaveMPlayer, EnterMenus, Sleep
<1>6. CASE DeviceStep
  BY <1>6 DEF DeviceStep, DeviceWakes, DriveRemoved, DriveStopsFilm, DriveUnchanged,
  DriveInserted, DeviceSuspends
<1>7. CASE Others
  BY <1>7 DEF Others, GuiSleepTimer, GuiExit, ExitThread, Plug, TimerRunsOut,
  HomeButton, GuiRuns, Sleep
<1> QED
  BY <1>1, <1>2, <1>3, <1>4, <1>5, <1>6, <1>7, NextGroups

\* The player answers a stop only when the file has ended.
LEMMA EndedStep ==
  ASSUME Inv, EndedOK, ~AutoNext, Next
  PROVE  EndedOK'
<1> USE DEF Inv, Places, ParkedOK, LoadOK, Given, EndedOK, PreviousFileEnded, film, playing, screen, menu, drive, timer
<1>1. CASE Opens
  BY <1>1 DEF Opens, IdleDiscard, TakeFile, OpenFails, OpenAudio, OpenVideo, GuiGone,
  NothingNext, LoadNext, Opened, MainSees, ShutdownGui, ToMenus, Forget, NextFound
<1>2. CASE Plays
  BY <1>2 DEF Plays, PlayStops, PlayEnds, GotoGui, Park, Unpark, Resumed, EndOfFilm,
  ToMenus, ShutdownGui
<1>3. CASE UserStep
  BY <1>3 DEF UserStep, Select, SelectLoaded, ForwardSong, StartPlaylist
<1>4. CASE Loads
  BY <1>4 DEF Loads, ResumeMPlayerFile, RefreshMenu, ChangeInterfaceFails,
  ChangeInterface, StopPrevious, PreviousEnded, SetFile, FileTaken, LoadReturns,
  ResumeReturns, SongEnded, FindNext, Forget
<1>5. CASE Switches
  BY <1>5 DEF Switches, LeaveMenus, EnterMPlayer, MPlayerMenu, CheckSleepTimer, Nap,
  LeaveMPlayer, EnterMenus, Sleep
<1>6. CASE DeviceStep
  BY <1>6 DEF DeviceStep, DeviceWakes, DriveRemoved, DriveStopsFilm, DriveUnchanged,
  DriveInserted, DeviceSuspends
<1>7. CASE Others
  BY <1>7 DEF Others, GuiSleepTimer, GuiExit, ExitThread, Plug, TimerRunsOut,
  HomeButton, GuiRuns, Sleep
<1> QED
  BY <1>1, <1>2, <1>3, <1>4, <1>5, <1>6, <1>7, NextGroups

\* A film begins and stays with MPlayerMenu.
LEMMA FilmStep ==
  ASSUME Inv, FilmOK, ~SleepTimer, Next
  PROVE  FilmOK'
<1> USE DEF Inv, Places, ModeOK, TimerOK, ShowOK, Showing, Away, FilmOK, film, playing, screen, menu, drive, timer
<1>1. CASE Opens
  BY <1>1 DEF Opens, IdleDiscard, TakeFile, OpenFails, OpenAudio, OpenVideo, GuiGone,
  NothingNext, LoadNext, Opened, MainSees, ShutdownGui, ToMenus, Forget, NextFound
<1>2. CASE Plays
  BY <1>2 DEF Plays, PlayStops, PlayEnds, GotoGui, Park, Unpark, Resumed, EndOfFilm,
  ToMenus, ShutdownGui
<1>3. CASE UserStep
  BY <1>3 DEF UserStep, Select, SelectLoaded, ForwardSong, StartPlaylist
<1>4. CASE Loads
  BY <1>4 DEF Loads, ResumeMPlayerFile, RefreshMenu, ChangeInterfaceFails,
  ChangeInterface, StopPrevious, PreviousEnded, SetFile, FileTaken, LoadReturns,
  ResumeReturns, SongEnded, FindNext, Forget
<1>5. CASE Switches
  BY <1>5 DEF Switches, LeaveMenus, EnterMPlayer, MPlayerMenu, CheckSleepTimer, Nap,
  LeaveMPlayer, EnterMenus, Sleep
<1>6. CASE DeviceStep
  BY <1>6 DEF DeviceStep, DeviceWakes, DriveRemoved, DriveStopsFilm, DriveUnchanged,
  DriveInserted, DeviceSuspends
<1>7. CASE Others
  BY <1>7 DEF Others, GuiSleepTimer, GuiExit, ExitThread, Plug, TimerRunsOut,
  HomeButton, GuiRuns, Sleep
<1> QED
  BY <1>1, <1>2, <1>3, <1>4, <1>5, <1>6, <1>7, NextGroups

----------------------------------------------------------------------------
(* The invariant, and what follows from it.                                *)

\* All parts hold at the start.
LEMMA InitInv == Init => Inv /\ EndedOK /\ FilmOK
<1>1. Init => Flags
  BY Zenon DEF Init, Flags
<1>2. Init => Places /\ ModeOK /\ ParkedOK /\ ShowOK /\ LoadOK /\ EndedOK /\ FilmOK
  BY DEF Init, Places, ModeOK, ParkedOK, ShowOK, LoadOK, Away, Showing, Given, EndedOK,
     PreviousFileEnded, FilmOK
<1>3. Init => TimerOK /\ DriveOK
  BY DEF Init, TimerOK, DriveOK
<1> QED
  BY <1>1, <1>2, <1>3 DEF Inv

\* The invariant is inductive.
LEMMA StepInv ==
  ASSUME Inv, Undisturbed, [Next]_vars
  PROVE  Inv'
<1>1. CASE Next
  BY <1>1, FlagsStep, PlacesStep, ModeStep, SettingsStep, ShowStep, LoadStep DEF Inv
<1>2. CASE UNCHANGED vars
  BY <1>2 DEF vars, film, playing, screen, menu, drive, timer, Inv, Places, Flags, ModeOK,
     TimerOK, DriveOK, ParkedOK, ShowOK, LoadOK, Showing, Given
<1> QED
  BY <1>1, <1>2

\* So are its extensions, each in its setting.
LEMMA EndedInv ==
  ASSUME Inv, EndedOK, ~AutoNext, [Next]_vars
  PROVE  EndedOK'
<1>1. CASE UNCHANGED vars
  BY <1>1 DEF vars, film, playing, menu, EndedOK, PreviousFileEnded
<1> QED
  BY <1>1, EndedStep

\* (For a film without the timer.)
LEMMA FilmInv ==
  ASSUME Inv, FilmOK, ~SleepTimer, [Next]_vars
  PROVE  FilmOK'
<1>1. CASE UNCHANGED vars
  BY <1>1 DEF vars, playing, screen, FilmOK
<1> QED
  BY <1>1, FilmStep

\* Each variable has its type, whatever the settings.
THEOREM TypeTheorem == Spec => []TypeOK
<1>1. Init => Places /\ Flags
  BY InitInv DEF Inv
<1>2. Places /\ Flags /\ [Next]_vars => (Places /\ Flags)'
  <2>1. CASE UNCHANGED vars
    BY <2>1 DEF vars, film, playing, screen, menu, drive, timer, Places, Flags
  <2> QED
    BY <2>1, PlacesStep, FlagsStep
<1>3. Places /\ Flags => TypeOK
  BY DEF Places, Flags, TypeOK
<1> QED
  BY <1>1, <1>2, <1>3, PTL DEF Spec

\* While ShutdownGui of the player waits for the menus to go, guiShutdown is still
\* set, or MPlayerMenu has begun or is about to: nobody takes the request back
\* (mplayer.c, wiimc.cpp, menu.cpp), unless a play order meets with a drive that is
\* taken out or with the sleep timer.
THEOREM ShutdownTheorem ==
  ASSUME Undisturbed
  PROVE  Spec => []ShutdownRequestKept
<1>1. Init => Inv
  BY InitInv
<1>2. Inv /\ [Next]_vars => Inv'
  BY StepInv
<1>3. Inv => ShutdownRequestKept
  BY DEF Inv, Places, ModeOK, ShowOK, Away, Showing, ShutdownRequestKept
<1> QED
  BY <1>1, <1>2, <1>3, PTL DEF Spec

\* Without a play order LoadMPlayerFile sets the next file when the previous one has
\* ended and the player has no other, although both sides write controlledbygui
\* without a lock, as do the device thread and the sleep timer.
THEOREM PreviousEndedTheorem ==
  ASSUME ~AutoNext
  PROVE  Spec => []PreviousFileEnded
<1>1. Init => Inv /\ EndedOK
  BY InitInv
<1>2. Inv /\ EndedOK /\ [Next]_vars => (Inv /\ EndedOK)'
  BY StepInv, EndedInv DEF Undisturbed
<1>3. EndedOK => PreviousFileEnded
  BY DEF EndedOK
<1> QED
  BY <1>1, <1>2, <1>3, PTL DEF Spec

\* Without the sleep timer, and a drive taken out during a play order, a film that
\* has control does not draw while the menus draw.
THEOREM OneDrawerTheorem ==
  ASSUME ~SleepTimer, Undisturbed
  PROVE  Spec => []OneDrawer
<1>1. Init => Inv /\ FilmOK
  BY InitInv
<1>2. Inv /\ FilmOK /\ [Next]_vars => (Inv /\ FilmOK)'
  BY StepInv, FilmInv
<1>3. FilmOK => OneDrawer
  BY DEF FilmOK, OneDrawer
<1> QED
  BY <1>1, <1>2, <1>3, PTL DEF Spec
=============================================================================
