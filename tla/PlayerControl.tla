--------------------------- MODULE PlayerControl ---------------------------
(***************************************************************************)
(* Who has the machine: the menus (wiimc.cpp, menu.cpp) or the player      *)
(* (mplayer/mplayer.c).  The main thread runs the menus and starts, stops  *)
(* and resumes films through the integer controlledbygui; the player       *)
(* thread answers through the same integer.  0: the player has control,    *)
(* 1: the menus have it, 2: the film is to end.  The device thread and the *)
(* sleep timer write 2 as well.  There is no lock: everybody polls.        *)
(*                                                                         *)
(* The player thread (priority 68) is preempted by none of the others, so  *)
(* what it does between two sleeps or blocking calls is one action here.   *)
(* The main thread, the GUI thread (60) and the device thread (40) are     *)
(* preempted between any two accesses to what they share.                  *)
(***************************************************************************)
EXTENDS Naturals

CONSTANTS
  Files,          \* the files a user may choose
  OnDrive,        \* those of them on the removable drive
  NoName,         \* the empty string
  NoFile,         \* the null pointer
  AutoNext,       \* a play order or playlist in which FindNextFile finds a file
  SongsWithVideo, \* a music file may hold a video (asf, rm, mka, ogg)
  Reselect,       \* in the videos area a user may choose the loaded file again
  Removals,       \* the drive may be taken out
  MountFails,     \* ChangeInterface may fail, as for a share
  SleepTimer      \* the user has set the sleep timer

ASSUME FilesAssumption ==
  /\ OnDrive \subseteq Files
  /\ NoName \notin Files /\ NoFile \notin Files /\ NoName # NoFile
  /\ AutoNext \in BOOLEAN /\ SongsWithVideo \in BOOLEAN /\ Reselect \in BOOLEAN
  /\ Removals \in BOOLEAN /\ MountFails \in BOOLEAN /\ SleepTimer \in BOOLEAN

VARIABLES
  control,     \* controlledbygui
  filename,    \* the file the player is to open
  loaded,      \* loadedFile
  ppc,         \* what the player thread does
  err,         \* end_film_error
  song,        \* filename was set from the music playlist
  videos,      \* browserVideos has a next film
  guiShutdown, menuMode,
  mpc,         \* what the main thread does
  chosen,      \* the file the user chose
  img,         \* the picture of the paused film is shown
  back,        \* the menu has a button that resumes the film
  halt,        \* deviceHalt = 1
  dev,         \* what the device thread does
  plugged, mounted,
  due,         \* the sleep timer has run out
  exit,        \* ExitRequested
  gui          \* what the GUI thread does

film    == <<filename, song, videos>>
playing == <<ppc, err>>
screen  == <<guiShutdown, menuMode>>
menu    == <<mpc, chosen, back>>
drive   == <<halt, dev, plugged, mounted>>
timer   == <<due, exit, gui>>
vars == <<control, loaded, img, film, playing, screen, menu, drive, timer>>

Init ==
  /\ control = 1
  /\ filename = NoFile /\ loaded = NoName /\ song = FALSE /\ videos = FALSE
  /\ ppc = "idle" /\ err = FALSE
  /\ guiShutdown = FALSE /\ menuMode = 0
  /\ mpc = "browse" /\ chosen = NoName
  /\ img = FALSE /\ back = FALSE
  /\ halt = FALSE /\ dev = "run" /\ plugged = TRUE /\ mounted = TRUE
  /\ due = FALSE /\ exit = FALSE /\ gui = "poll"

\* controlledbygui goes from 0 to 1.  A wrong variant counts.
ToMenusCount == control + 1
ToMenus == IF control = 0 THEN 1 ELSE control

----------------------------------------------------------------------------
(* The player thread.                                                      *)

\* A polling loop of the main thread has something to see.  It sleeps 100 us
\* between two looks, the player's idle loop 50 ms, and opening a file takes
\* longer than that too.
MainSees ==
  \/ mpc \in {"stopping", "forward"} /\ control # 2
  \/ mpc = "taken" /\ control = 0
  \/ mpc \in {"ready", "resuming"} /\ (guiShutdown \/ control = 1)

\* The loop that waits for a file drops a request to stop.
IdleDiscard ==
  /\ ppc = "idle" /\ filename = NoFile /\ control = 2
  /\ control' = 0
  /\ UNCHANGED <<loaded, img, film, playing, screen, menu, drive, timer>>

\* It leaves with a file, and takes control whatever was asked.
TakeFile ==
  /\ ppc = "idle" /\ filename # NoFile
  /\ ~MainSees /\ mpc # "menus"
  /\ control' = 0
  /\ ppc' = "open" /\ err' = FALSE
  /\ UNCHANGED <<loaded, img, film, screen, menu, drive, timer>>

Opened == ppc = "open" /\ ~MainSees

OpenFails ==
  /\ Opened
  /\ ppc' = "close" /\ img' = FALSE
  /\ err' \in BOOLEAN
  /\ UNCHANGED <<control, loaded, film, screen, menu, drive, timer>>

\* A wrong variant: control stays with the player when there is no video.
OpenAudioKeep ==
  /\ Opened /\ filename # NoName
  /\ ppc' = "audio"
  /\ UNCHANGED <<control, loaded, img, err, film, screen, menu, drive, timer>>

OpenAudio ==
  /\ Opened /\ filename # NoName
  /\ ppc' = "audio"
  /\ control' = ToMenus
  /\ UNCHANGED <<loaded, img, err, film, screen, menu, drive, timer>>

\* A wrong variant: the player does not wait for the menus to go.
ShutdownGuiNoWait ==
  /\ ppc' = "film"
  /\ guiShutdown' = (guiShutdown \/ menuMode # 1)
  /\ UNCHANGED menuMode

\* ShutdownGui: on the first video the menus are told to go.
ShutdownGui ==
  /\ ppc' = IF menuMode = 1 THEN "film" ELSE "shutgui"
  /\ guiShutdown' = (guiShutdown \/ menuMode # 1)
  /\ UNCHANGED menuMode

OpenVideo ==
  /\ Opened /\ filename # NoName /\ (song => SongsWithVideo)
  /\ ShutdownGui
  /\ UNCHANGED <<control, loaded, img, err, film, menu, drive, timer>>

GuiGone ==
  /\ ppc = "shutgui" /\ menuMode = 1
  /\ ppc' = "film"
  /\ UNCHANGED <<control, loaded, img, err, film, screen, menu, drive, timer>>

\* The film ends by itself or by an error, or is told to end.
EndOfFilm ==
  /\ ppc \in {"audio", "film"}
  /\ ppc' = "close" /\ img' = FALSE
  /\ err' \in BOOLEAN
  /\ UNCHANGED <<control, loaded, film, screen, menu, drive, timer>>
PlayEnds  == control # 2 /\ EndOfFilm
PlayStops == control = 2 /\ EndOfFilm

\* The user goes back to the menus: PauseAndGotoGUI, which first waits for
\* the cache thread.
GotoGui ==
  /\ ppc = "film" /\ control # 2
  /\ ppc' = "park" /\ img' = TRUE
  /\ UNCHANGED <<control, loaded, err, film, screen, menu, drive, timer>>

Park ==
  /\ ppc = "park"
  /\ ppc' = "parked" /\ control' = ToMenus
  /\ UNCHANGED <<loaded, img, err, film, screen, menu, drive, timer>>

\* A wrong variant: the loop that waits for the menus does not look for a stop.
UnparkDeaf ==
  /\ ppc = "parked" /\ control = 0
  /\ ppc' = "resume"
  /\ UNCHANGED <<control, loaded, img, err, film, screen, menu, drive, timer>>
Unpark ==
  /\ ppc = "parked" /\ control # 1
  /\ IF control = 2 THEN ppc' = "close" /\ img' = FALSE
                    ELSE ppc' = "resume" /\ UNCHANGED img
  /\ UNCHANGED <<control, loaded, err, film, screen, menu, drive, timer>>

\* reinit_audio and reinit_video.
Resumed ==
  /\ ppc = "resume"
  /\ ShutdownGui
  /\ UNCHANGED <<control, loaded, img, err, film, menu, drive, timer>>

\* play_next_file: FindNextFile(true) is not asked after an error, and finds
\* nothing when a stop was asked.  Its branch for films, taken while the player
\* has control, forgets loadedFile and the films when none is next.
Forget(asked) ==
  IF asked /\ control = 0 THEN loaded' = NoName /\ videos' = FALSE
                          ELSE UNCHANGED <<loaded, videos>>
\* A wrong variant: filename is not reset.
NothingNextNoFree ==
  /\ ppc = "close"
  /\ ppc' = "idle"
  /\ control' = 1
  /\ Forget(~err)
  /\ UNCHANGED <<filename, img, err, song, screen, menu, drive, timer>>

NothingNext ==
  /\ ppc = "close"
  /\ filename' = NoFile /\ ppc' = "idle"
  /\ control' = 1
  /\ Forget(~err)
  /\ UNCHANGED <<img, err, song, screen, menu, drive, timer>>

NextFound(f) ==
  /\ ppc = "close" /\ AutoNext /\ ~err
  /\ control = 1 \/ (control = 0 /\ videos)
  /\ filename' = NoFile /\ ppc' = "named"
  /\ loaded' = f /\ song' = (control = 1)
  /\ videos' \in IF control = 0 THEN BOOLEAN ELSE {videos}
  /\ UNCHANGED <<control, img, err, screen, menu, drive, timer>>

\* wiiLoadFile(loadedFile), after the wait for the directory to be parsed.
LoadNext ==
  /\ ppc = "named"
  /\ filename' = loaded /\ ppc' = "idle"
  /\ UNCHANGED <<control, loaded, img, err, song, videos, screen, menu, drive, timer>>

\* A resume of the film, and what the player does unasked.
PlayerMust ==
  \/ IdleDiscard \/ TakeFile \/ OpenFails \/ OpenAudio \/ OpenVideo \/ GuiGone
  \/ PlayStops \/ Park \/ Unpark \/ Resumed \/ NothingNext
  \/ \E f \in Files : NextFound(f)
  \/ LoadNext
PlayerStep == PlayerMust \/ PlayEnds \/ GotoGui
----------------------------------------------------------------------------
(* The main thread.                                                        *)

\* Choosing a file in MenuBrowse.
Select(f) ==
  /\ mpc = "browse" /\ ~guiShutdown
  /\ loaded' = f /\ chosen' = f
  /\ mpc' = "mount"
  /\ UNCHANGED <<control, img, film, playing, screen, back, drive, timer>>

\* In the videos area the file that is loaded already is resumed, as is the
\* paused film by its button.
SelectLoaded ==
  /\ mpc = "browse" /\ ~guiShutdown
  /\ \/ Reselect /\ loaded # NoName
     \/ back
  /\ mpc' = "resume" /\ halt' = TRUE
  /\ UNCHANGED <<control, loaded, img, film, playing, screen, chosen, back,
                 dev, plugged, mounted, timer>>

\* ResumeMPlayerFile, once the device thread is suspended.
ResumeMPlayerFile ==
  /\ mpc = "resume" /\ dev = "suspended"
  /\ control' = 0
  /\ mpc' = "resuming"
  /\ UNCHANGED <<loaded, img, film, playing, screen, chosen, back, drive, timer>>

\* The button goes when a drive was removed and the picture is gone.
RefreshMenu ==
  /\ mpc = "browse" /\ back /\ ~img
  /\ back' = FALSE
  /\ UNCHANGED <<control, loaded, img, film, playing, screen, mpc, chosen,
                 drive, timer>>

\* LoadNewFile: ChangeInterface, then SuspendDeviceThread in LoadMPlayerFile.
ChangeInterfaceFails ==
  /\ mpc = "mount"
  /\ loaded = NoName \/ (loaded \in OnDrive /\ ~mounted) \/ MountFails
  /\ mpc' = "browse" /\ back' = img
  /\ UNCHANGED <<control, loaded, img, film, playing, screen, chosen, drive, timer>>

ChangeInterface ==
  /\ mpc = "mount"
  /\ loaded # NoName /\ (loaded \in OnDrive => mounted)
  /\ mpc' = "load" /\ img' = FALSE /\ videos' = FALSE /\ halt' = TRUE
  /\ UNCHANGED <<control, loaded, filename, song, playing, screen, chosen, back,
                 dev, plugged, mounted, timer>>

StopPrevious ==
  /\ mpc = "load" /\ dev = "suspended"
  /\ control' = 2
  /\ mpc' = "stopping"
  /\ UNCHANGED <<loaded, img, film, playing, screen, chosen, back, drive, timer>>

PreviousEnded ==
  /\ mpc = "stopping" /\ control # 2
  /\ mpc' = "set"
  /\ UNCHANGED <<control, loaded, img, film, playing, screen, chosen, back, drive, timer>>

SetFile ==
  /\ mpc = "set"
  /\ filename' = loaded /\ song' = FALSE
  /\ mpc' = "taken"
  /\ UNCHANGED <<control, loaded, img, videos, playing, screen, chosen, back, drive, timer>>

FileTaken ==
  /\ mpc = "taken" /\ control = 0
  /\ mpc' = "ready"
  /\ UNCHANGED <<control, loaded, img, film, playing, screen, chosen, back, drive, timer>>

\* A wrong variant: the loop looks only for control to come back.
LoadReturnsDeaf ==
  /\ mpc = "ready" /\ control = 1
  /\ mpc' = "browse" /\ back' = img
  /\ halt' = (halt /\ guiShutdown)
  /\ dev' = IF ~guiShutdown /\ dev = "suspended" THEN "run" ELSE dev
  /\ videos' \in IF guiShutdown THEN {AutoNext, FALSE} ELSE {videos}
  /\ UNCHANGED <<control, loaded, img, filename, song, playing, screen, chosen,
                 plugged, mounted, timer>>

\* The loop that waits until the player plays a video (it has shut the menus
\* down) or has returned control.
LoadReturns ==
  /\ mpc = "ready" /\ (guiShutdown \/ control = 1)
  /\ mpc' = "browse" /\ back' = img
  /\ halt' = (halt /\ guiShutdown)
  /\ dev' = IF ~guiShutdown /\ dev = "suspended" THEN "run" ELSE dev
  /\ videos' \in IF guiShutdown THEN {AutoNext, FALSE} ELSE {videos}
  /\ UNCHANGED <<control, loaded, img, filename, song, playing, screen, chosen,
                 plugged, mounted, timer>>

ResumeReturns ==
  /\ mpc = "resuming" /\ (guiShutdown \/ control = 1)
  /\ mpc' = "browse"
  /\ UNCHANGED <<control, loaded, img, film, playing, screen, chosen, back, drive, timer>>

\* The forward button of the audio bar; wiiAudioOnly() tells what is played.
ForwardSong ==
  /\ mpc = "browse" /\ ~guiShutdown /\ AutoNext
  /\ ppc = "audio" /\ control # 2
  /\ control' = 2
  /\ mpc' = "forward"
  /\ UNCHANGED <<loaded, img, film, playing, screen, chosen, back, drive, timer>>

SongEnded ==
  /\ mpc = "forward" /\ control # 2
  /\ mpc' = "next"
  /\ UNCHANGED <<control, loaded, img, film, playing, screen, chosen, back, drive, timer>>

\* FindNextFile(true) on the main thread.
FindNext ==
  /\ mpc = "next" /\ mpc' = "browse"
  /\ IF control = 0 THEN Forget(TRUE) /\ UNCHANGED <<filename, song>>
     ELSE IF control = 1
     THEN /\ \E f \in Files : loaded' = f /\ filename' = f
          /\ song' = TRUE /\ UNCHANGED videos
     ELSE UNCHANGED <<loaded, film>>
  /\ UNCHANGED <<control, img, playing, screen, chosen, back, drive, timer>>

\* The playlist is started: FindNextFile(false), which finds nothing unless the
\* menus have control, then LoadNewFile.
StartPlaylist ==
  /\ mpc = "browse" /\ ~guiShutdown /\ AutoNext
  /\ ~(ppc = "audio" /\ control # 2)
  /\ IF control = 1 THEN \E f \in Files : loaded' = f
                    ELSE UNCHANGED loaded
  /\ chosen' = loaded'
  /\ mpc' = "mount"
  /\ UNCHANGED <<control, img, film, playing, screen, back, drive, timer>>

\* WiiMenu ends, with its threads; MPlayerMenu begins.
LeaveMenus ==
  /\ mpc = "browse" /\ guiShutdown /\ dev \in {"run", "suspended"}
  /\ dev' = "none"
  /\ gui # "exit"
  /\ IF exit THEN mpc' = "over" /\ UNCHANGED guiShutdown
             ELSE mpc' = "enter" /\ guiShutdown' = FALSE
  /\ UNCHANGED <<control, loaded, img, film, playing, menuMode, chosen, back,
                 halt, plugged, mounted, timer>>

\* A wrong variant: menuMode is not set.
EnterMPlayerSilent ==
  /\ mpc = "enter"
  /\ mpc' = "mplayer"
  /\ UNCHANGED <<control, loaded, img, film, playing, screen, chosen, back,
                 drive, timer>>

EnterMPlayer ==
  /\ mpc = "enter"
  /\ menuMode' = 1
  /\ mpc' = "mplayer"
  /\ UNCHANGED <<control, loaded, img, film, playing, guiShutdown, chosen, back,
                 drive, timer>>

\* MPlayerMenu's loop tests controlledbygui, then calls CheckSleepTimer.
MPlayerMenu ==
  /\ mpc = "mplayer" /\ control = 0
  /\ mpc' = "check"
  /\ UNCHANGED <<control, loaded, img, film, playing, screen, chosen, back, drive, timer>>

Sleep ==
  /\ exit' = (exit \/ due)
  /\ control' = IF due THEN 2 ELSE control
  /\ UNCHANGED due

CheckSleepTimer ==
  /\ mpc = "check"
  /\ Sleep /\ UNCHANGED gui
  /\ mpc' = "nap"
  /\ UNCHANGED <<loaded, img, film, playing, screen, chosen, back, drive>>

\* It sleeps for half a second; the loop in ShutdownGui looks every 100 us.
Nap ==
  /\ mpc = "nap" /\ ppc # "shutgui"
  /\ mpc' = "mplayer"
  /\ UNCHANGED <<control, loaded, img, film, playing, screen, chosen, back, drive, timer>>

\* WiiMenu begins.
LeaveMPlayer ==
  /\ mpc = "mplayer" /\ control # 0
  /\ menuMode' = 0
  /\ mpc' = "menus"
  /\ UNCHANGED <<control, loaded, img, film, playing, guiShutdown, chosen, back,
                 drive, timer>>

EnterMenus ==
  /\ mpc = "menus"
  /\ guiShutdown' = FALSE
  /\ mpc' = "browse" /\ back' = img
  /\ halt' = FALSE /\ dev' = "run"
  /\ UNCHANGED <<control, loaded, img, film, playing, menuMode, chosen,
                 plugged, mounted, timer>>

UserStep ==
  \/ \E f \in Files : Select(f)
  \/ SelectLoaded \/ ForwardSong \/ StartPlaylist
MainMust ==
  \/ ResumeMPlayerFile \/ RefreshMenu \/ ChangeInterfaceFails \/ ChangeInterface
  \/ StopPrevious \/ PreviousEnded \/ SetFile \/ FileTaken \/ LoadReturns
  \/ ResumeReturns \/ SongEnded \/ FindNext \/ LeaveMenus \/ EnterMPlayer
  \/ MPlayerMenu \/ CheckSleepTimer \/ Nap \/ LeaveMPlayer \/ EnterMenus

----------------------------------------------------------------------------
(* The device thread, the GUI thread, the exit thread.                     *)

\* Environment: the drive is taken out or put back.
Plug ==
  /\ Removals
  /\ plugged' = ~plugged
  /\ UNCHANGED <<control, loaded, img, film, playing, screen, menu, halt, dev,
                 mounted, timer>>

\* Every two seconds the thread looks at the drive, unless it is to suspend
\* itself.
DeviceWakes ==
  /\ dev = "run" /\ ~halt /\ mounted # plugged
  /\ dev' = "look"
  /\ UNCHANGED <<control, loaded, img, film, playing, screen, menu, halt,
                 plugged, mounted, timer>>

DriveRemoved ==
  /\ dev = "look" /\ mounted /\ ~plugged
  /\ mounted' = FALSE
  /\ IF loaded \in OnDrive THEN loaded' = NoName /\ dev' = "tell"
                           ELSE dev' = "run" /\ UNCHANGED loaded
  /\ UNCHANGED <<control, img, film, playing, screen, menu, halt, plugged, timer>>

\* StopMPlayerFile and DisableVideoImg.
DriveStopsFilm ==
  /\ dev = "tell"
  /\ control' = 2 /\ img' = FALSE
  /\ dev' = "run"
  /\ UNCHANGED <<loaded, film, playing, screen, menu, halt, plugged, mounted, timer>>

DriveUnchanged ==
  /\ dev = "look" /\ mounted = plugged
  /\ dev' = "run"
  /\ UNCHANGED <<control, loaded, img, film, playing, screen, menu, halt,
                 plugged, mounted, timer>>

DriveInserted ==
  /\ dev = "look" /\ ~mounted /\ plugged
  /\ mounted' = TRUE /\ dev' = "run"
  /\ UNCHANGED <<control, loaded, img, film, playing, screen, menu, halt,
                 plugged, timer>>

DeviceSuspends ==
  /\ dev = "run" /\ halt
  /\ dev' = "suspended"
  /\ UNCHANGED <<control, loaded, img, film, playing, screen, menu, halt,
                 plugged, mounted, timer>>

TimerRunsOut ==
  /\ SleepTimer /\ ~due
  /\ due' = TRUE
  /\ UNCHANGED <<control, loaded, img, film, playing, screen, menu, drive, exit, gui>>

GuiRuns ==
  /\ gui = "poll" /\ ~guiShutdown
  /\ mpc \notin {"enter", "mplayer", "check", "nap", "menus", "over"}

GuiSleepTimer ==
  /\ GuiRuns /\ due
  /\ Sleep
  /\ gui' = "exit"
  /\ UNCHANGED <<loaded, img, film, playing, screen, menu, drive>>

HomeButton ==
  /\ GuiRuns
  /\ exit' = TRUE
  /\ gui' = "exit"
  /\ UNCHANGED <<control, loaded, img, film, playing, screen, menu, drive, due>>

\* The screen fades to black; then the exit thread is started.
GuiExit ==
  /\ gui = "exit"
  /\ guiShutdown' = TRUE
  /\ gui' = "off"
  /\ UNCHANGED <<control, loaded, img, film, playing, menuMode, menu, drive, due, exit>>

\* The exit thread switches off whatever the main thread does.
ExitThread ==
  /\ gui = "off" /\ mpc # "over"
  /\ mpc' = "over"
  /\ UNCHANGED <<control, loaded, img, film, playing, screen, chosen, back, drive, timer>>

DeviceStep ==
  \/ DeviceWakes \/ DriveRemoved \/ DriveStopsFilm \/ DriveUnchanged
  \/ DriveInserted \/ DeviceSuspends
GuiMust == GuiSleepTimer \/ GuiExit

Next ==
  \/ PlayerStep \/ UserStep \/ MainMust \/ DeviceStep \/ GuiMust
  \/ ExitThread \/ Plug \/ TimerRunsOut \/ HomeButton

Spec == Init /\ [][Next]_vars

\* Each thread that runs or polls goes on; the user and the drive need not.
FairSpec ==
  /\ Spec
  /\ WF_vars(PlayerMust) /\ WF_vars(MainMust) /\ WF_vars(DeviceStep)
  /\ WF_vars(GuiMust) /\ WF_vars(ExitThread)

----------------------------------------------------------------------------
\* Each variable has its type.
TypeOK ==
  /\ control \in 0..2
  /\ filename \in Files \cup {NoName, NoFile}
  /\ loaded \in Files \cup {NoName} /\ chosen \in Files \cup {NoName}
  /\ ppc \in {"idle", "open", "audio", "shutgui", "film", "park", "parked",
              "resume", "close", "named"}
  /\ mpc \in {"browse", "mount", "load", "stopping", "set", "taken", "ready",
              "resume", "resuming", "forward", "next", "enter", "mplayer",
              "check", "nap", "menus", "over"}
  /\ dev \in {"run", "suspended", "look", "tell", "none"}
  /\ menuMode \in 0..1 /\ gui \in {"poll", "exit", "off"}
  /\ song \in BOOLEAN /\ err \in BOOLEAN /\ videos \in BOOLEAN /\ img \in BOOLEAN
  /\ guiShutdown \in BOOLEAN /\ exit \in BOOLEAN /\ due \in BOOLEAN /\ back \in BOOLEAN
  /\ halt \in BOOLEAN /\ plugged \in BOOLEAN /\ mounted \in BOOLEAN

\* When LoadMPlayerFile sets the file to load, the previous one has ended and
\* the player has no other.
PreviousFileEnded == mpc = "set" => ppc = "idle" /\ filename = NoFile

\* While ShutdownGui waits, its request to the menus is not lost.
ShutdownRequestKept ==
  ppc = "shutgui" => guiShutdown \/ menuMode = 1 \/ mpc = "enter"

\* A film that has control does not draw while the menus draw.
OneDrawer == ppc = "film" /\ control = 0 => menuMode = 1

\* LoadNewFile's loop ends: the player plays a video or returns control.
LoadAnswered == mpc = "ready" ~> mpc # "ready"

\* So does the loop after ResumeMPlayerFile.
ResumeAnswered == mpc = "resuming" ~> mpc # "resuming"

\* A request to end the film is taken up.
StopHeard == control = 2 ~> control # 2 \/ mpc = "over"

\* The menus go when a video is to be shown.
GuiGivesWay == ppc = "shutgui" ~> ppc # "shutgui" \/ mpc = "over"
=============================================================================
