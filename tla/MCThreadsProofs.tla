--------------------------- MODULE MCThreadsProofs ---------------------------
(***************************************************************************)
(* What is proved of the player control, the cache thread, the GUI and     *)
(* progress threads and the folder's films holds in the composition of all *)
(* hand-shakes: each step of it is one of the part's, or leaves the part   *)
(* alone.  The device thread, the network thread and the drive's           *)
(* partitions are proved about here.                                       *)
(***************************************************************************)
EXTENDS MCThreads, PlayerControlProofs

CacheP == INSTANCE CacheThreadProofs
FilmsP == INSTANCE VideoPlaylistProofs
WindowsP == INSTANCE GuiWindowsProofs WITH guiShutdown <- shutdown
ListP  == INSTANCE PlayerControlProofs
  WITH AutoNext <- TRUE, SongsWithVideo <- TRUE, Reselect <- FALSE,
       Removals <- FALSE, SleepTimer <- FALSE

(* The part that is checked and the part that is proved about are the same. *)
LEMMA SameCache ==
  /\ Cache!Init => CacheP!Init
  /\ Cache!Next => CacheP!Next
  /\ UNCHANGED cacheVars => UNCHANGED CacheP!vars
  /\ CacheP!Served => Cache!Served
<1>1. Cache!Init => CacheP!Init
  BY DEF Cache!Init, CacheP!Init
<1>2. Cache!Next => CacheP!Next
  BY DEF
    Cache!thread, Cache!memory, Cache!film, Cache!vars, Cache!Fill, Cache!Wake,
    Cache!DriverReturns, Cache!LoopEnds, Cache!ExecuteControl, Cache!CallControl,
    Cache!ControlReturns, Cache!PlayUncached, Cache!Enable, Cache!ResumeCacheThread,
    Cache!Enabled, Cache!Prefilled, Cache!PrefillInterrupted, Cache!Read,
    Cache!ReadEnds, Cache!LosesPatience, Cache!Ask, Cache!Answered, Cache!AskEnds,
    Cache!Pause, Cache!Paused, Cache!Resume, Cache!FilmEnds, Cache!FreeStream,
    Cache!Discard, Cache!UninitUncached, Cache!UninitParked, Cache!Quit, Cache!QuitEnds,
    Cache!ThreadParked, Cache!NotParked, Cache!LookAgain, Cache!GiveUp, Cache!Close,
    Cache!Reload, Cache!DriverStep, Cache!FillerStep, Cache!PlayerMust, Cache!PlayerMay,
    Cache!Next, CacheP!thread, CacheP!memory, CacheP!film, CacheP!vars, CacheP!Fill,
    CacheP!Wake, CacheP!DriverReturns, CacheP!LoopEnds, CacheP!ExecuteControl,
    CacheP!CallControl, CacheP!ControlReturns, CacheP!PlayUncached, CacheP!Enable,
    CacheP!ResumeCacheThread, CacheP!Enabled, CacheP!Prefilled,
    CacheP!PrefillInterrupted, CacheP!Read, CacheP!ReadEnds, CacheP!LosesPatience,
    CacheP!Ask, CacheP!Answered, CacheP!AskEnds, CacheP!Pause, CacheP!Paused,
    CacheP!Resume, CacheP!FilmEnds, CacheP!FreeStream, CacheP!Discard,
    CacheP!UninitUncached, CacheP!UninitParked, CacheP!Quit, CacheP!QuitEnds,
    CacheP!ThreadParked, CacheP!NotParked, CacheP!LookAgain, CacheP!GiveUp,
    CacheP!Close, CacheP!Reload, CacheP!DriverStep, CacheP!FillerStep,
    CacheP!PlayerMust, CacheP!PlayerMay, CacheP!Next
<1>3. UNCHANGED cacheVars => UNCHANGED CacheP!vars
  BY DEF cacheVars, CacheP!vars, CacheP!thread, CacheP!memory, CacheP!film
<1>4. CacheP!Served => Cache!Served
  BY DEF Cache!Served, Cache!FillerOwnsItsFilm, Cache!FilmIsServed, CacheP!Served, CacheP!FillerOwnsItsFilm, CacheP!FilmIsServed
<1> QED
  BY <1>1, <1>2, <1>3, <1>4

LEMMA SameFilms ==
  /\ Films!Init => FilmsP!Init
  /\ Films!Step => FilmsP!Step
  /\ UNCHANGED filmVars => UNCHANGED FilmsP!vars
  /\ FilmsP!NextIsOnList => Films!NextIsOnList
<1>1. Films!Init => FilmsP!Init
  BY DEF Films!Init, FilmsP!Init
<1>2. Films!Step => FilmsP!Step
  BY DEF
    Films!videos, Films!order, Films!vars, Films!SetAutoPlay, Films!After,
    Films!ResetVideos, Films!NewList, Films!LoadFilm, Films!LoadOther, Films!LoadDVD,
    Films!Pause, Films!Resume, Films!StopFilm, Films!FilmEnds, Films!NoNext,
    Films!ToLoad, Films!NextInFolder, Films!Shuffles, Films!OrderUsedUp, Films!Pick,
    Films!NextShuffled, Films!Step, FilmsP!videos, FilmsP!order, FilmsP!vars,
    FilmsP!SetAutoPlay, FilmsP!After, FilmsP!ResetVideos, FilmsP!NewList,
    FilmsP!LoadFilm, FilmsP!LoadOther, FilmsP!LoadDVD, FilmsP!Pause, FilmsP!Resume,
    FilmsP!StopFilm, FilmsP!FilmEnds, FilmsP!NoNext, FilmsP!ToLoad, FilmsP!NextInFolder,
    FilmsP!Shuffles, FilmsP!OrderUsedUp, FilmsP!Pick, FilmsP!NextShuffled, FilmsP!Step
<1>3. UNCHANGED filmVars => UNCHANGED FilmsP!vars
  BY DEF filmVars, FilmsP!vars, FilmsP!videos, FilmsP!order
<1>4. FilmsP!NextIsOnList => Films!NextIsOnList
  BY DEF Films!NextIsOnList, FilmsP!NextIsOnList
<1> QED
  BY <1>1, <1>2, <1>3, <1>4

\* The player with a play order.
LEMMA SamePlayer ==
  /\ Init => ListP!Init
  /\ Playlist!Next => ListP!Next
  /\ UNCHANGED vars => UNCHANGED ListP!vars
<1>1. Init => ListP!Init
  BY DEF Init, ListP!Init
<1>2. Playlist!Next => ListP!Next
  BY DEF
    Playlist!film, Playlist!playing, Playlist!screen, Playlist!menu, Playlist!drive,
    Playlist!timer, Playlist!vars, Playlist!ToMenus, Playlist!MainSees,
    Playlist!IdleDiscard, Playlist!TakeFile, Playlist!Opened, Playlist!OpenFails,
    Playlist!OpenAudio, Playlist!ShutdownGui, Playlist!OpenVideo, Playlist!GuiGone,
    Playlist!EndOfFilm, Playlist!PlayEnds, Playlist!PlayStops, Playlist!GotoGui,
    Playlist!Park, Playlist!Unpark, Playlist!Resumed, Playlist!Forget,
    Playlist!NothingNext, Playlist!NextFound, Playlist!LoadNext, Playlist!PlayerMust,
    Playlist!PlayerStep, Playlist!Select, Playlist!SelectLoaded,
    Playlist!ResumeMPlayerFile, Playlist!RefreshMenu, Playlist!ChangeInterfaceFails,
    Playlist!ChangeInterface, Playlist!StopPrevious, Playlist!PreviousEnded,
    Playlist!SetFile, Playlist!FileTaken, Playlist!LoadReturns, Playlist!ResumeReturns,
    Playlist!ForwardSong, Playlist!SongEnded, Playlist!FindNext, Playlist!StartPlaylist,
    Playlist!LeaveMenus, Playlist!EnterMPlayer, Playlist!MPlayerMenu, Playlist!Sleep,
    Playlist!CheckSleepTimer, Playlist!Nap, Playlist!LeaveMPlayer, Playlist!EnterMenus,
    Playlist!UserStep, Playlist!MainMust, Playlist!Plug, Playlist!DeviceWakes,
    Playlist!DriveRemoved, Playlist!DriveStopsFilm, Playlist!DriveUnchanged,
    Playlist!DriveInserted, Playlist!DeviceSuspends, Playlist!TimerRunsOut,
    Playlist!GuiRuns, Playlist!GuiSleepTimer, Playlist!HomeButton, Playlist!GuiExit,
    Playlist!ExitThread, Playlist!DeviceStep, Playlist!GuiMust, Playlist!Next,
    ListP!film, ListP!playing, ListP!screen, ListP!menu, ListP!drive, ListP!timer,
    ListP!vars, ListP!ToMenus, ListP!MainSees, ListP!IdleDiscard, ListP!TakeFile,
    ListP!Opened, ListP!OpenFails, ListP!OpenAudio, ListP!ShutdownGui, ListP!OpenVideo,
    ListP!GuiGone, ListP!EndOfFilm, ListP!PlayEnds, ListP!PlayStops, ListP!GotoGui,
    ListP!Park, ListP!Unpark, ListP!Resumed, ListP!Forget, ListP!NothingNext,
    ListP!NextFound, ListP!LoadNext, ListP!PlayerMust, ListP!PlayerStep, ListP!Select,
    ListP!SelectLoaded, ListP!ResumeMPlayerFile, ListP!RefreshMenu,
    ListP!ChangeInterfaceFails, ListP!ChangeInterface, ListP!StopPrevious,
    ListP!PreviousEnded, ListP!SetFile, ListP!FileTaken, ListP!LoadReturns,
    ListP!ResumeReturns, ListP!ForwardSong, ListP!SongEnded, ListP!FindNext,
    ListP!StartPlaylist, ListP!LeaveMenus, ListP!EnterMPlayer, ListP!MPlayerMenu,
    ListP!Sleep, ListP!CheckSleepTimer, ListP!Nap, ListP!LeaveMPlayer, ListP!EnterMenus,
    ListP!UserStep, ListP!MainMust, ListP!Plug, ListP!DeviceWakes, ListP!DriveRemoved,
    ListP!DriveStopsFilm, ListP!DriveUnchanged, ListP!DriveInserted,
    ListP!DeviceSuspends, ListP!TimerRunsOut, ListP!GuiRuns, ListP!GuiSleepTimer,
    ListP!HomeButton, ListP!GuiExit, ListP!ExitThread, ListP!DeviceStep, ListP!GuiMust,
    ListP!Next
<1>3. UNCHANGED vars => UNCHANGED ListP!vars
  BY DEF vars, film, playing, screen, menu, drive, timer, ListP!vars, ListP!film,
     ListP!playing, ListP!screen, ListP!menu, ListP!drive, ListP!timer
<1> QED
  BY <1>1, <1>2, <1>3

LEMMA SameWindows ==
  /\ Windows!Init => WindowsP!Init
  /\ Windows!Next => WindowsP!Next
  /\ UNCHANGED windowVars => UNCHANGED WindowsP!vars
  /\ WindowsP!WindowsAlive => WindowsAlive
  /\ WindowsP!MenuIsUsable => MenuIsUsable
<1>1. Windows!Init => WindowsP!Init
  BY DEF Windows!Init, WindowsP!Init
<1>2. Windows!Next => WindowsP!Next
  BY DEF
    Windows!gui, Windows!screen, Windows!progress, Windows!own, Windows!main,
    Windows!flags, Windows!vars, Windows!StartGuiThreads, Windows!GuiParks,
    Windows!FrameBegins, Windows!GuiEnds, Windows!FrameEnds, Windows!HomeButton,
    Windows!GuiExits, Windows!ExitThread, Windows!Woken, Windows!ResumeGui,
    Windows!AskGui, Windows!GuiParked, Windows!ProgressParks, Windows!ProgressEnds,
    Windows!WindowMade, Windows!Cancelled, Windows!WindowUnused, Windows!WindowWanted,
    Windows!SeesGuiParked, Windows!WindowShown, Windows!WindowCancelled,
    Windows!WindowRemoved, Windows!ResumesGui, Windows!MenuBegins, Windows!CancelFlags,
    Windows!ProgressParked, Windows!CancelAction, Windows!CancelEnds,
    Windows!LoadBegins, Windows!NoAction, Windows!CancelOther, Windows!Show,
    Windows!ShowAction, Windows!WorkShows, Windows!PlayerOpens, Windows!PlayerAnswers,
    Windows!WorkDone, Windows!LoadEnds, Windows!PromptMade, Windows!PromptAsksGui,
    Windows!PromptShown, Windows!Choice, Windows!ChoiceForced, Windows!PromptRemoved,
    Windows!MenuEnds, Windows!MenuEnded, Windows!StopProgress, Windows!StopGui,
    Windows!Stopped, Windows!FilmOver, Windows!BufferCancels, Windows!BufferShown,
    Windows!Opened, Windows!ShutdownGui, Windows!ShutdownParksGui, Windows!GuiShut,
    Windows!FilmShown, Windows!GuiStep, Windows!ProgressStep, Windows!MainMust,
    Windows!MainMay, Windows!PlayerMust, Windows!PlayerMay, Windows!Next, WindowsP!gui,
    WindowsP!screen, WindowsP!progress, WindowsP!own, WindowsP!main, WindowsP!flags,
    WindowsP!vars, WindowsP!StartGuiThreads, WindowsP!GuiParks, WindowsP!FrameBegins,
    WindowsP!GuiEnds, WindowsP!FrameEnds, WindowsP!HomeButton, WindowsP!GuiExits,
    WindowsP!ExitThread, WindowsP!Woken, WindowsP!ResumeGui, WindowsP!AskGui,
    WindowsP!GuiParked, WindowsP!ProgressParks, WindowsP!ProgressEnds,
    WindowsP!WindowMade, WindowsP!Cancelled, WindowsP!WindowUnused,
    WindowsP!WindowWanted, WindowsP!SeesGuiParked, WindowsP!WindowShown,
    WindowsP!WindowCancelled, WindowsP!WindowRemoved, WindowsP!ResumesGui,
    WindowsP!MenuBegins, WindowsP!CancelFlags, WindowsP!ProgressParked,
    WindowsP!CancelAction, WindowsP!CancelEnds, WindowsP!LoadBegins, WindowsP!NoAction,
    WindowsP!CancelOther, WindowsP!Show, WindowsP!ShowAction, WindowsP!WorkShows,
    WindowsP!PlayerOpens, WindowsP!PlayerAnswers, WindowsP!WorkDone, WindowsP!LoadEnds,
    WindowsP!PromptMade, WindowsP!PromptAsksGui, WindowsP!PromptShown, WindowsP!Choice,
    WindowsP!ChoiceForced, WindowsP!PromptRemoved, WindowsP!MenuEnds,
    WindowsP!MenuEnded, WindowsP!StopProgress, WindowsP!StopGui, WindowsP!Stopped,
    WindowsP!FilmOver, WindowsP!BufferCancels, WindowsP!BufferShown, WindowsP!Opened,
    WindowsP!ShutdownGui, WindowsP!ShutdownParksGui, WindowsP!GuiShut,
    WindowsP!FilmShown, WindowsP!GuiStep, WindowsP!ProgressStep, WindowsP!MainMust,
    WindowsP!MainMay, WindowsP!PlayerMust, WindowsP!PlayerMay, WindowsP!Next
<1>3. UNCHANGED windowVars => UNCHANGED WindowsP!vars
  BY DEF windowVars, WindowsP!vars, WindowsP!gui, WindowsP!screen, WindowsP!progress,
     WindowsP!own, WindowsP!main, WindowsP!flags
<1>4. /\ WindowsP!WindowsAlive => WindowsAlive
      /\ WindowsP!MenuIsUsable => MenuIsUsable
  BY DEF WindowsAlive, MenuIsUsable, Windows!WindowsAlive, Windows!MenuIsUsable,
     WindowsP!WindowsAlive, WindowsP!MenuIsUsable
<1> QED
  BY <1>1, <1>2, <1>3, <1>4

LEMMA InitParts == ThreadsInit => Cache!Init /\ Films!Init /\ Windows!Init /\ Device!Init
BY DEF ThreadsInit

\* A step is one of the part's or leaves it alone.
LEMMA StepParts ==
  ASSUME [ThreadsNext]_allVars
  PROVE  /\ Cache!Next \/ UNCHANGED cacheVars
         /\ Films!Step \/ UNCHANGED filmVars
         /\ Windows!Next \/ UNCHANGED windowVars
         /\ Device!Next \/ UNCHANGED deviceVars
<1>1. CASE ThreadsNext
  <2>1. Cache!Next \/ UNCHANGED cacheVars
    BY <1>1, Zenon DEF ThreadsNext, handshakes
  <2>2. Films!Step \/ UNCHANGED filmVars
    BY <1>1, Zenon DEF ThreadsNext, others
  <2>3. Windows!Next \/ UNCHANGED windowVars
    BY <1>1, Zenon DEF ThreadsNext, handshakes
  <2>4. Device!Next \/ UNCHANGED deviceVars
    BY <1>1, Zenon DEF ThreadsNext, handshakes
  <2> QED
    BY <2>1, <2>2, <2>3, <2>4
<1>2. CASE UNCHANGED allVars
  BY <1>2 DEF allVars, handshakes, others
<1> QED
  BY <1>1, <1>2

\* However many films may be cached, and whatever the other threads do, the cache
\* thread never works for a film whose memory is freed, and a film that is read
\* from its cache has the thread at work for it (cache2.c).
THEOREM ThreadsServedTheorem == ThreadsSpec => []Served
<1> USE BoundsAssumption
<1>1. ThreadsInit => CacheP!Init
  BY InitParts, SameCache
<1>2. [ThreadsNext]_allVars => [CacheP!Next]_(CacheP!vars)
  BY StepParts, SameCache
<1>3. CacheP!Spec => []CacheP!Served
  BY CacheP!ServedTheorem
<1>4. CacheP!Served => Served
  BY SameCache DEF Served
<1> QED
  BY <1>1, <1>2, <1>3, <1>4, PTL DEF ThreadsSpec, CacheP!Spec

\* However many files a folder has, and whatever the other threads do, FindNextFile
\* finds the next film on the list but in the cases named in VideoPlaylist.
THEOREM ThreadsNextFilmTheorem == ThreadsSpec => []NextIsOnList
<1> USE BoundsAssumption
<1>1. ThreadsInit => FilmsP!Init
  BY InitParts, SameFilms
<1>2. [ThreadsNext]_allVars => [FilmsP!Step]_(FilmsP!vars)
  BY StepParts, SameFilms
<1>3. FilmsP!Spec => []FilmsP!NextIsOnList
  BY FilmsP!NextFilmTheorem
<1>4. FilmsP!NextIsOnList => NextIsOnList
  BY SameFilms DEF NextIsOnList
<1> QED
  BY <1>1, <1>2, <1>3, <1>4, PTL DEF ThreadsSpec, FilmsP!Spec
----------------------------------------------------------------------------
(* The player control, with both choices of the player.                    *)

\* A step is one of the player's, as the choice says, or leaves the player alone.
LEMMA PlayerPart ==
  ASSUME [ThreadsNext]_allVars
  PROVE  /\ which' = which
         /\ which = "writers" => [Next]_vars
         /\ which # "writers" => [ListP!Next]_(ListP!vars)
<1>1. CASE ThreadsNext
  <2>1. which' = which
    BY <1>1, Zenon DEF ThreadsNext
  <2>2. (which = "writers" /\ Next) \/ Playlist!Next \/ UNCHANGED vars
    BY <1>1, Zenon DEF ThreadsNext, handshakes
  <2>3. ASSUME which = "writers" PROVE Next \/ UNCHANGED vars
    BY <1>1, <2>3, Zenon DEF ThreadsNext, handshakes
  <2> QED
    BY <2>1, <2>2, <2>3, SamePlayer
<1>2. CASE UNCHANGED allVars
  BY <1>2, SamePlayer DEF allVars, handshakes
<1> QED
  BY <1>1, <1>2

\* The player that plays a list keeps its invariant, as nobody disturbs it.
ListOK == which # "writers" => ListP!Inv /\ ListP!FilmOK

LEMMA ListStep ==
  /\ ThreadsInit => ListOK
  /\ ListOK /\ [ThreadsNext]_allVars => ListOK'
<1> ListP!Undisturbed
  BY DEF ListP!Undisturbed
<1>1. ThreadsInit => ListOK
  BY FilesAssumption, SamePlayer, ListP!InitInv DEF ThreadsInit, ListOK
<1>2. ASSUME ListOK, [ThreadsNext]_allVars, which # "writers"
      PROVE  ListP!Inv' /\ ListP!FilmOK'
  BY FilesAssumption, <1>2, PlayerPart, ListP!StepInv, ListP!FilmInv DEF ListOK
<1> QED
  BY <1>1, <1>2, PlayerPart DEF ListOK

\* ShutdownGui's request to the menus is not lost, whoever writes controlledbygui,
\* and with a play order of songs that may hold a video (PlayerControl).
THEOREM ThreadsShutdownTheorem ==
  ASSUME Undisturbed
  PROVE  ThreadsSpec => []ShutdownRequestKept
<1> DEFINE WritersOK == which = "writers" => Inv
<1>1. ThreadsInit => WritersOK /\ ListOK
  BY InitInv, ListStep DEF ThreadsInit
<1>2. WritersOK /\ ListOK /\ [ThreadsNext]_allVars => (WritersOK /\ ListOK)'
  <2> SUFFICES ASSUME WritersOK, [ThreadsNext]_allVars
               PROVE  WritersOK'
    BY ListStep
  <2> QED
    BY PlayerPart, StepInv
<1>3. WritersOK /\ ListOK => ShutdownRequestKept
  BY DEF ListOK, Inv, Places, ModeOK, ShowOK, Away, Showing, ListP!Inv, ListP!Places,
     ListP!ModeOK, ListP!ShowOK, ListP!Away, ListP!Showing, ShutdownRequestKept
<1> QED
  BY <1>1, <1>2, <1>3, PTL DEF ThreadsSpec

\* Without a play order LoadMPlayerFile sets the next file when the previous one
\* has ended and the player has no other (PlayerControl).
THEOREM ThreadsPreviousEndedTheorem ==
  ASSUME ~AutoNext
  PROVE  ThreadsSpec => []PreviousEndedByChoice
<1> DEFINE WritersOK == which = "writers" => Inv /\ EndedOK
<1>1. ThreadsInit => WritersOK
  BY InitInv DEF ThreadsInit
<1>2. WritersOK /\ [ThreadsNext]_allVars => WritersOK'
  BY PlayerPart, StepInv, EndedInv DEF Undisturbed
<1>3. WritersOK => PreviousEndedByChoice
  BY DEF EndedOK, PreviousEndedByChoice
<1> QED
  BY <1>1, <1>2, <1>3, PTL DEF ThreadsSpec

\* With a play order, and neither the sleep timer nor a drive taken out, a film that
\* has control does not draw while the menus draw (PlayerControl).
THEOREM ThreadsOneDrawerTheorem == ThreadsSpec => []OneDrawerAwake
<1>1. ListOK => OneDrawerAwake
  BY DEF ListOK, ListP!FilmOK, OneDrawerAwake, OneDrawer
<1> QED
  BY <1>1, ListStep, PTL DEF ThreadsSpec
----------------------------------------------------------------------------
(* What the GUI thread draws, and when the device thread looks.            *)

\* Whatever the other threads do, the GUI thread draws no window whose function has
\* returned (GuiWindows).
THEOREM ThreadsWindowsTheorem == ThreadsSpec => []WindowsAlive
<1>1. ThreadsInit => WindowsP!Init
  BY InitParts, SameWindows
<1>2. [ThreadsNext]_allVars => [WindowsP!Next]_(WindowsP!vars)
  BY StepParts, SameWindows
<1>3. WindowsP!Spec => []WindowsP!WindowsAlive
  BY WindowsP!WindowsAliveTheorem
<1> QED
  BY <1>1, <1>2, <1>3, SameWindows, PTL DEF ThreadsSpec, WindowsP!Spec

\* Back in the menu, nothing of an action that is over is left on the screen
\* (GuiWindows).
THEOREM ThreadsMenuTheorem == ThreadsSpec => []MenuIsUsable
<1>1. ThreadsInit => WindowsP!Init
  BY InitParts, SameWindows
<1>2. [ThreadsNext]_allVars => [WindowsP!Next]_(WindowsP!vars)
  BY StepParts, SameWindows
<1>3. WindowsP!Spec => []WindowsP!MenuIsUsable
  BY WindowsP!MenuIsUsableTheorem
<1> QED
  BY <1>1, <1>2, <1>3, SameWindows, PTL DEF ThreadsSpec, WindowsP!Spec

\* A parked device thread is woken by the main thread alone, which does not while it
\* reads, writes or mounts; the way out of MountDVD is the exception (DeviceThread).
THEOREM ThreadsQuietTheorem == ThreadsSpec => []QuietDuringJobs
<1>1. ThreadsInit => QuietDuringJobs
  BY InitParts DEF Device!Init, QuietDuringJobs, Device!QuietDuringJobs
<1>2. ASSUME QuietDuringJobs, [ThreadsNext]_allVars
      PROVE  QuietDuringJobs'
  <2> USE DEF QuietDuringJobs, Device!QuietDuringJobs, Device!Suspended, Device!Parked,
        Device!main
  <2>1. CASE UNCHANGED deviceVars
    BY <1>2, <2>1 DEF deviceVars
  <2>2. CASE Device!DeviceStep
    BY <1>2, <2>2 DEF Device!DeviceStep, Device!FirstTest, Device!FirstNap, Device!FirstLoopEnds,
      Device!LookEnds, Device!HaltTest, Device!Nap, Device!Woken
  <2>3. CASE Device!MainMust
    BY <1>2, <2>3 DEF Device!MainMust, Device!MenusBegin, Device!SuspendEnds, Device!Mounting,
      Device!Joined, Device!ProgramEnds
  <2>4. CASE Device!MainMay
    BY <1>2, <2>4 DEF Device!MainMay, Device!Begin, Device!MountBegins, Device!MountEnds,
      Device!WorkEnds, Device!StopDeviceThread, Device!FilmEnds
  <2>5. CASE Device!HomeButton
    BY <1>2, <2>5 DEF Device!HomeButton
  <2> QED
    BY <1>2, <2>1, <2>2, <2>3, <2>4, <2>5, StepParts DEF Device!Next
<1> QED
  BY <1>1, <1>2, PTL DEF ThreadsSpec
----------------------------------------------------------------------------
(* What a search of a drive lists, and what is mounted.                    *)

\* The search's variables have their types; it reads records that were there.
ScanOK ==
  /\ slot \in Drives \union {NoDrive} /\ part \in Seq(Nat) /\ Len(part) <= MaxDevices
  /\ scan \in {"rest", "mbr", "primary", "ebr", "logical", "stray", "done", "remount"}
  /\ i \in Nat /\ ebr_lba \in Nat /\ next_ebr_lba \in Nat /\ part_lba \in Nat
  /\ mbr \in Seq([type : STRING, at : Nat])
  /\ scan \in {"primary", "ebr", "logical"} => i \in 1..Len(mbr)

ScanFlags == inserted \in BOOLEAN /\ linux \in BOOLEAN /\ whole \in BOOLEAN

\* What is mounted is what is listed, each once.
ListedOnce ==
  /\ DOMAIN onMounts = 1..Len(part)
  /\ \A n \in 1..Len(part) : onMounts[n] = part[n]
  /\ \A n, m \in 1..Len(part) : part[n] = part[m] => n = m

\* Without a drive nothing is listed: FindPartitions, which empties the list, finds
\* it empty.
Unlisted ==
  scan \in {"remount", "mbr"} \/ (scan = "rest" /\ ~inserted) => part = <<>>

TableOK == ScanOK /\ ListedOnce /\ Unlisted

LEMMA AddKeeps ==
  ASSUME ScanOK, ListedOnce, NEW s \in Nat, NEW fs, Drive!AddPartition(s, fs)
  PROVE  /\ part' \in Seq(Nat) /\ Len(part') <= MaxDevices
         /\ ListedOnce'
<1>1. CASE UNCHANGED Drive!table
  BY <1>1 DEF Drive!table, ScanOK, ListedOnce
<1>2. CASE ~UNCHANGED Drive!table
  <2>1. /\ Len(part) < MaxDevices /\ (\A n \in 1..Len(part) : part[n] # s)
        /\ part' = Append(part, s)
        /\ onMounts' = [n \in DOMAIN onMounts \union {Len(part')} |->
                          IF n = Len(part') THEN s ELSE onMounts[n]]
    BY <1>2, Zenon DEF Drive!AddPartition
  <2>2. part' \in Seq(Nat) /\ Len(part') = Len(part) + 1 /\ Len(part) \in Nat
    BY <2>1 DEF ScanOK
  <2>3. \A n \in 1..Len(part) : part'[n] = part[n]
    BY <2>1 DEF ScanOK
  <2>4. part'[Len(part) + 1] = s
    BY <2>1 DEF ScanOK
  <2>5. DOMAIN onMounts' = 1..Len(part')
    BY <2>1, <2>2 DEF ListedOnce
  <2>6. \A n \in 1..Len(part') : onMounts'[n] = part'[n]
    BY <2>1, <2>2, <2>3, <2>4, <2>5 DEF ListedOnce
  <2>7. \A n, m \in 1..Len(part') : part'[n] = part'[m] => n = m
    BY <2>1, <2>2, <2>3, <2>4 DEF ListedOnce
  <2>8. Len(part') <= MaxDevices
    BY <2>1, <2>2, DrivesAssumption DEF ScanOK
  <2> QED
    BY <2>2, <2>5, <2>6, <2>7, <2>8 DEF ListedOnce
<1> QED
  BY <1>1, <1>2

LEMMA NoneListed ==
  ASSUME part' = <<>>, onMounts' = [n \in {} |-> 0] \/ (ListedOnce /\ part = <<>> /\ onMounts' = onMounts)
  PROVE  /\ part' \in Seq(Nat) /\ Len(part') = 0
         /\ ListedOnce'
<1>1. part' \in Seq(Nat) /\ Len(part') = 0 /\ 1..Len(part') = {}
  OBVIOUS
<1> QED
  BY <1>1 DEF ListedOnce

\* Where the search goes from a primary record, or from one of a chain.
LEMMA GoesOn ==
  ASSUME ScanOK, scan \in {"primary", "ebr", "logical"},
         NEW next \in Nat, Drive!NextPrimary \/ Drive!ChainGoesOn(next)
  PROVE  /\ scan' \in {"primary", "ebr", "stray", "done"}
         /\ i' \in Nat
         /\ scan' \in {"primary", "ebr"} => i' \in 1..Len(mbr)
BY DEF ScanOK, Drive!NextPrimary, Drive!ChainGoesOn

\* The record that the search reads was there.
LEMMA RecordRead ==
  ASSUME ScanOK, scan = "primary"
  PROVE  mbr[i].at \in Nat
<1>1. mbr \in Seq([type : STRING, at : Nat]) /\ i \in 1..Len(mbr)
  BY DEF ScanOK
<1>2. \A R : \A q \in Seq(R) : \A n \in 1..Len(q) : q[n] \in R
  OBVIOUS
<1>3. mbr[i] \in [type : STRING, at : Nat]
  BY <1>1, <1>2, Zenon
<1> QED
  BY <1>3

LEMMA ScanKeeps ==
  ASSUME TableOK, Drive!ScanStep
  PROVE  TableOK'
<1> USE DrivesAssumption DEF TableOK, ScanOK, Unlisted, Drive!table, Drive!locals
<1>1. CASE Drive!ReadMBR
  BY <1>1 DEF Drive!ReadMBR, Drive!Read, ListedOnce
<1>2. CASE Drive!Primary
  <2>1. mbr[i].at \in Nat
    BY <1>2, RecordRead DEF Drive!Primary
  <2>2. part' \in Seq(Nat) /\ Len(part') <= MaxDevices /\ ListedOnce'
    BY <1>2, <2>1, AddKeeps DEF Drive!Primary
  <2> QED
    BY <1>2, <2>1, <2>2, GoesOn DEF Drive!Primary
<1>3. CASE Drive!Extended
  <2>1. mbr[i].at \in Nat
    BY <1>3, RecordRead DEF Drive!Extended
  <2> QED
    BY <1>3, <2>1 DEF Drive!Extended, ListedOnce
<1>4. CASE Drive!EBRUnread \/ Drive!BadEBR
  <2>1. Drive!ChainGoesOn(next_ebr_lba) \/ Drive!ChainGoesOn(0)
    BY <1>4 DEF Drive!EBRUnread, Drive!BadEBR
  <2>2. /\ scan' \in {"primary", "ebr", "stray", "done"} /\ i' \in Nat
        /\ scan' \in {"primary", "ebr"} => i' \in 1..Len(mbr)
    BY <1>4, <2>1, GoesOn DEF Drive!EBRUnread, Drive!BadEBR
  <2>3. CASE Drive!EBRUnread
    BY <2>2, <2>3 DEF Drive!EBRUnread, ListedOnce
  <2>4. CASE Drive!BadEBR
    BY <2>2, <2>4 DEF Drive!BadEBR, ListedOnce
  <2> QED
    BY <1>4, <2>3, <2>4
<1>5. CASE Drive!EBR
  BY <1>5 DEF Drive!EBR, Drive!Record, Drive!Read, ListedOnce
<1>6. CASE Drive!Logical
  <2>1. part' \in Seq(Nat) /\ Len(part') <= MaxDevices /\ ListedOnce'
    BY <1>6, AddKeeps DEF Drive!Logical
  <2> QED
    BY <1>6, <2>1, GoesOn DEF Drive!Logical
<1>7. CASE Drive!StraySector
  <2>1. part' \in Seq(Nat) /\ Len(part') <= MaxDevices /\ ListedOnce'
    BY <1>7, AddKeeps DEF Drive!StraySector
  <2> QED
    BY <1>7, <2>1 DEF Drive!StraySector
<1>8. CASE Drive!ScanDone
  BY <1>8 DEF Drive!ScanDone, ListedOnce
<1>9. CASE Drive!Remounted
  BY <1>9, NoneListed DEF Drive!Remounted, Drive!FindPartitions, ListedOnce
<1> QED
  BY <1>1, <1>2, <1>3, <1>4, <1>5, <1>6, <1>7, <1>8, <1>9 DEF Drive!ScanStep

LEMMA DriveKeeps ==
  ASSUME TableOK, Drive!Next
  PROVE  TableOK'
<1> USE DrivesAssumption DEF TableOK, ScanOK, Unlisted, Drive!table, Drive!locals
<1>1. CASE Drive!DriveInserted
  BY <1>1, NoneListed DEF Drive!DriveInserted, Drive!FindPartitions
<1>2. CASE Drive!DriveRemoved
  BY <1>2, NoneListed DEF Drive!DriveRemoved, Drive!UnmountPartitions
<1>3. CASE Drive!Remount
  BY <1>3, NoneListed DEF Drive!Remount, Drive!UnmountPartitions, ListedOnce
<1>4. CASE Drive!TakeOut
  BY <1>4 DEF Drive!TakeOut, ListedOnce
<1>5. CASE Drive!PutIn
  BY <1>5 DEF Drive!PutIn, ListedOnce
<1> QED
  BY <1>1, <1>2, <1>3, <1>4, <1>5, ScanKeeps DEF Drive!Next

(* What a search without a change of the drive has listed so far.          *)

Entries(tab) == {tab[n] : n \in 1..Len(tab)}
Full(tab) == Len(tab) = MaxDevices

\* All that the primary record r tells of is listed, as long as there is room.
Dealt(d, r, tab) ==
  Full(tab) \/ \A p \in DOMAIN d.fs : Drive!Tells(d, r, p) => p \in Entries(tab)

\* All that the records at qs tell of is.
Seen(d, qs, tab) ==
  Full(tab) \/ \A q \in qs, p \in DOMAIN d.fs : Drive!ChainTells(d, q, p) => p \in Entries(tab)

\* qs hold all that is reached from them but for r.
ClosedBut(d, s, qs, r) ==
  \A k \in DOMAIN d.ebr :
    (k = s \/ \E q \in qs : k = s + d.ebr[q].next) => k \in qs \/ k = r

\* In the chain of the extended partition at ebr_lba the search comes to a record ...
AtRecord ==
  /\ Drive!Record \in DOMAIN slot.ebr => Drive!Record \in Drive!Chain(slot, ebr_lba)
  /\ \E qs \in SUBSET DOMAIN slot.ebr :
       Seen(slot, qs, part) /\ ClosedBut(slot, ebr_lba, qs, Drive!Record)

\* ... and then to what the record tells of.
AtLogical ==
  \E q \in Drive!Chain(slot, ebr_lba), qs \in SUBSET DOMAIN slot.ebr :
    /\ part_lba = q + slot.ebr[q].at /\ next_ebr_lba = slot.ebr[q].next
    /\ Drive!FitsLogical(linux) = Drive!FitsLogical(slot.ebr[q].type = "ext")
    /\ Seen(slot, qs, part) /\ ClosedBut(slot, ebr_lba, qs, q)

AtPrimary ==
  /\ mbr = slot.primary /\ Entries(part) \subseteq Drive!Told(slot)
  /\ \A n \in 1..(i - 1) : Dealt(slot, mbr[n], part)

InChain == mbr[i].type = "extended" /\ ebr_lba = mbr[i].at

Found ==
  /\ Drive!Told(slot) # {} => Entries(part) \subseteq Drive!Told(slot)
  /\ Len(part) < MaxDevices => Drive!Told(slot) \subseteq Entries(part)

SearchOK ==
  whole =>
    /\ slot \in Drives /\ Entries(part) \subseteq DOMAIN slot.fs
    /\ scan \in {"primary", "ebr", "logical"} => AtPrimary
    /\ scan \in {"ebr", "logical"} => InChain
    /\ scan = "ebr" => AtRecord
    /\ scan = "logical" => AtLogical
    /\ scan = "stray" => Drive!Told(slot) = {}
    /\ scan = "done" \/ (scan = "rest" /\ inserted) => Found

\* AddPartition keeps what is listed, and lists what it can.
LEMMA AddMore ==
  ASSUME ScanOK, slot \in Drives, NEW s \in Nat, NEW kinds, Drive!AddPartition(s, kinds)
  PROVE  /\ Entries(part) \subseteq Entries(part')
         /\ Full(part) => Full(part')
         /\ \A p \in Entries(part') :
              p \in Entries(part) \/ (p = s /\ s \in DOMAIN slot.fs /\ slot.fs[s] \in kinds)
         /\ s \in DOMAIN slot.fs /\ slot.fs[s] \in kinds => Full(part') \/ s \in Entries(part')
<1>1. slot # NoDrive
  BY DrivesAssumption
<1>2. CASE Len(part) < MaxDevices /\ (\A n \in 1..Len(part) : part[n] # s)
           /\ Drive!Holds(s, kinds)
  <2>1. part' = Append(part, s)
    BY <1>2, Zenon DEF Drive!AddPartition
  <2>2. /\ Len(part') = Len(part) + 1 /\ Len(part) \in Nat
        /\ \A n \in 1..Len(part) : part'[n] = part[n]
        /\ part'[Len(part) + 1] = s
    BY <2>1 DEF ScanOK
  <2>3. \A p : p \in Entries(part') <=> p \in Entries(part) \/ p = s
    BY <2>2 DEF Entries
  <2> QED
    BY <1>2, <2>2, <2>3 DEF Full, Drive!Holds
<1>3. CASE ~(Len(part) < MaxDevices /\ (\A n \in 1..Len(part) : part[n] # s)
             /\ Drive!Holds(s, kinds))
  <2>1. part' = part
    BY <1>3 DEF Drive!AddPartition, Drive!table
  <2>2. CASE Len(part) < MaxDevices /\ Drive!Holds(s, kinds)
    BY <1>3, <2>1, <2>2 DEF Entries
  <2>3. CASE ~(Len(part) < MaxDevices)
    BY <2>1, <2>3, DrivesAssumption DEF ScanOK, Full
  <2>4. CASE ~Drive!Holds(s, kinds)
    BY <1>1, <2>1, <2>4 DEF Drive!Holds, Drive!Read
  <2> QED
    BY <2>2, <2>3, <2>4
<1> QED
  BY <1>2, <1>3

\* What has been dealt with stays so.
LEMMA DealtStays ==
  ASSUME NEW d, NEW t, NEW u, Entries(t) \subseteq Entries(u), Full(t) => Full(u)
  PROVE  /\ \A r : Dealt(d, r, t) => Dealt(d, r, u)
         /\ \A qs : Seen(d, qs, t) => Seen(d, qs, u)
BY Zenon DEF Dealt, Seen

\* A chain goes on from its records, and begins at its first.
LEMMA ChainGoes ==
  ASSUME NEW d, NEW s, NEW k \in DOMAIN d.ebr,
         k = s \/ \E q \in Drive!Chain(d, s) : k = s + d.ebr[q].next
  PROVE  k \in Drive!Chain(d, s)
<1> SUFFICES ASSUME NEW ss \in SUBSET DOMAIN d.ebr, Drive!Closed(d, s, ss)
             PROVE  k \in ss
  BY Zenon DEF Drive!Chain
<1>1. \A q \in Drive!Chain(d, s) : q \in ss
  BY Zenon DEF Drive!Chain
<1> QED
  BY <1>1, Zenon DEF Drive!Closed

\* When the records seen are closed, the extended partition has been dealt with.
LEMMA ChainDealt ==
  ASSUME NEW d, NEW r, r.type = "extended", NEW tab,
         NEW qs \in SUBSET DOMAIN d.ebr, Drive!Closed(d, r.at, qs), Seen(d, qs, tab)
  PROVE  Dealt(d, r, tab)
<1>1. \A q \in Drive!Chain(d, r.at) : q \in qs
  BY Zenon DEF Drive!Chain
<1> QED
  BY <1>1, Zenon DEF Seen, Dealt, Drive!Tells

\* When all primary records have been dealt with, all is listed.
LEMMA AllDealt ==
  ASSUME NEW d \in Drives, NEW tab, ~Full(tab),
         \A n \in 1..Len(d.primary) : Dealt(d, d.primary[n], tab)
  PROVE  Drive!Told(d) \subseteq Entries(tab)
<1>1. DOMAIN d.primary = 1..Len(d.primary)
  BY DrivesAssumption
<1> QED
  BY <1>1, Zenon DEF Dealt, Drive!Told

\* The search goes on from a primary record that has been dealt with.
LEMMA PrimaryDone ==
  ASSUME ScanOK, ScanOK', scan \in {"primary", "ebr", "logical"}, slot \in Drives, AtPrimary,
         slot' = slot, mbr' = mbr, Drive!NextPrimary,
         Entries(part') \subseteq DOMAIN slot.fs, Entries(part') \subseteq Drive!Told(slot),
         Entries(part) \subseteq Entries(part'), Full(part) => Full(part'),
         Dealt(slot, mbr[i], part')
  PROVE  SearchOK'
<1>1. \A n \in 1..(i - 1) : Dealt(slot, mbr[n], part')
  BY DealtStays DEF AtPrimary
<1>2. \A n \in 1..i : Dealt(slot, mbr[n], part')
  <2>1. \A n \in 1..i : n \in 1..(i - 1) \/ n = i
    BY DEF ScanOK
  <2> QED
    BY <1>1, <2>1, Zenon
<1>3. CASE i < Len(mbr)
  <2>1. scan' = "primary" /\ i' = i + 1
    BY <1>3 DEF Drive!NextPrimary
  <2>2. \A n \in 1..(i' - 1) : Dealt(slot', mbr'[n], part')
    BY <1>2, <2>1 DEF ScanOK
  <2>3. AtPrimary'
    BY <2>2, Zenon DEF AtPrimary
  <2> QED
    BY <2>1, <2>3 DEF SearchOK
<1>4. CASE ~(i < Len(mbr))
  <2>1. i = Len(slot.primary)
    BY <1>4 DEF ScanOK, AtPrimary
  <2>2. ~Full(part') => Drive!Told(slot) \subseteq Entries(part')
    BY <1>2, <2>1, AllDealt DEF AtPrimary
  <2>3. CASE part' = <<>>
    <3>1. ~Full(part') /\ Entries(part') = {}
      BY <2>3, DrivesAssumption DEF Full, Entries
    <3>2. scan' = "stray"
      BY <1>4, <2>3 DEF Drive!NextPrimary
    <3> QED
      BY <2>2, <3>1, <3>2 DEF SearchOK
  <2>4. CASE part' # <<>>
    <3>1. scan' = "done"
      BY <1>4, <2>4 DEF Drive!NextPrimary
    <3>2. Len(part') < MaxDevices => ~Full(part')
      BY DrivesAssumption DEF ScanOK, Full
    <3>3. Found'
      BY <2>2, <3>2 DEF Found
    <3> QED
      BY <3>1, <3>3 DEF SearchOK
  <2> QED
    BY <2>3, <2>4
<1> QED
  BY <1>3, <1>4

LEMMA PrimarySearched ==
  ASSUME ScanOK, ScanOK', SearchOK, whole, Drive!Primary
  PROVE  SearchOK'
<1>1. /\ scan = "primary" /\ mbr[i].type # "extended"
      /\ Drive!AddPartition(mbr[i].at, Drive!Fits(mbr[i].type)) /\ Drive!NextPrimary
      /\ slot' = slot /\ mbr' = mbr
  BY DEF Drive!Primary
<1>2. slot \in Drives /\ AtPrimary /\ Entries(part) \subseteq DOMAIN slot.fs
  BY <1>1 DEF SearchOK
<1>3. mbr[i].at \in Nat
  BY <1>1, RecordRead
<1>4. i \in DOMAIN slot.primary /\ mbr[i] = slot.primary[i]
  BY <1>1, <1>2 DEF ScanOK, AtPrimary
<1>5. /\ Entries(part) \subseteq Entries(part')
      /\ Full(part) => Full(part')
      /\ \A p \in Entries(part') :
           \/ p \in Entries(part)
           \/ /\ p = mbr[i].at /\ p \in DOMAIN slot.fs
              /\ slot.fs[p] \in Drive!Fits(mbr[i].type)
      /\ mbr[i].at \in DOMAIN slot.fs /\ slot.fs[mbr[i].at] \in Drive!Fits(mbr[i].type)
           => Full(part') \/ mbr[i].at \in Entries(part')
  BY <1>1, <1>2, <1>3, AddMore, ZenonT(60)
<1>6. \A p : Drive!Tells(slot, mbr[i], p)
               <=> p = mbr[i].at /\ slot.fs[p] \in Drive!Fits(mbr[i].type)
  BY <1>1, Zenon DEF Drive!Tells
<1>7. Dealt(slot, mbr[i], part')
  BY <1>5, <1>6, Zenon DEF Dealt
<1>8. Entries(part') \subseteq DOMAIN slot.fs
  BY <1>2, <1>5
<1>9. Entries(part') \subseteq Drive!Told(slot)
  <2> SUFFICES ASSUME NEW p \in Entries(part'), p \notin Entries(part)
               PROVE  p \in Drive!Told(slot)
    BY <1>2 DEF AtPrimary
  <2>1. p \in DOMAIN slot.fs /\ Drive!Tells(slot, slot.primary[i], p)
    BY <1>4, <1>5, <1>6
  <2> QED
    BY <1>4, <2>1, Zenon DEF Drive!Told
<1> QED
  BY <1>1, <1>2, <1>5, <1>7, <1>8, <1>9, PrimaryDone

LEMMA ExtendedSearched ==
  ASSUME ScanOK, SearchOK, whole, Drive!Extended
  PROVE  SearchOK'
<1>1. /\ scan = "primary" /\ mbr[i].type = "extended" /\ mbr' = mbr /\ i' = i
      /\ ebr_lba' = mbr[i].at /\ next_ebr_lba' = 0 /\ scan' = "ebr"
      /\ slot' = slot /\ part' = part
  BY DEF Drive!Extended, Drive!table
<1>2. slot \in Drives /\ AtPrimary /\ Entries(part) \subseteq DOMAIN slot.fs
  BY <1>1 DEF SearchOK
<1>3. AtPrimary' /\ InChain'
  BY <1>1, <1>2 DEF AtPrimary, InChain
<1>4. Drive!Record' = ebr_lba' /\ ebr_lba' \in Nat
  BY <1>1, RecordRead DEF Drive!Record
<1>5. ebr_lba' \in DOMAIN slot.ebr => ebr_lba' \in Drive!Chain(slot, ebr_lba')
  BY ChainGoes
<1>6. Seen(slot, {}, part) /\ ClosedBut(slot, ebr_lba', {}, ebr_lba')
  BY Zenon DEF Seen, ClosedBut
<1>7. AtRecord'
  BY <1>1, <1>4, <1>5, <1>6 DEF AtRecord
<1> QED
  BY <1>1, <1>2, <1>3, <1>7 DEF SearchOK

\* The chain goes on to the next record, or ends and is dealt with.
LEMMA ChainOn ==
  ASSUME ScanOK, ScanOK', SearchOK, whole, scan \in {"ebr", "logical"},
         NEW next \in Nat, Drive!ChainGoesOn(next),
         slot' = slot, mbr' = mbr, ebr_lba' = ebr_lba,
         Entries(part') \subseteq DOMAIN slot.fs, Entries(part') \subseteq Drive!Told(slot),
         Entries(part) \subseteq Entries(part'), Full(part) => Full(part'),
         next # 0 => AtRecord',
         next = 0 => \E qs \in SUBSET DOMAIN slot.ebr :
                       Drive!Closed(slot, ebr_lba, qs) /\ Seen(slot, qs, part')
  PROVE  SearchOK'
<1>1. slot \in Drives /\ AtPrimary /\ InChain
  BY DEF SearchOK
<1>2. CASE next # 0
  <2>1. scan' = "ebr" /\ i' = i
    BY <1>2 DEF Drive!ChainGoesOn
  <2>2. \A n \in 1..(i - 1) : Dealt(slot, mbr[n], part')
    BY <1>1, DealtStays DEF AtPrimary
  <2>3. AtPrimary'
    BY <1>1, <2>1, <2>2, Zenon DEF AtPrimary
  <2>4. InChain'
    BY <1>1, <2>1, Zenon DEF InChain
  <2> QED
    BY <1>1, <1>2, <2>1, <2>3, <2>4 DEF SearchOK
<1>3. CASE next = 0
  <2>1. Dealt(slot, mbr[i], part')
    BY <1>1, <1>3, ChainDealt DEF InChain
  <2>2. Drive!NextPrimary
    BY <1>3 DEF Drive!ChainGoesOn
  <2> QED
    BY <1>1, <2>1, <2>2, PrimaryDone
<1> QED
  BY <1>2, <1>3

LEMMA RecordSearched ==
  ASSUME ScanOK, SearchOK, whole, Drive!EBR
  PROVE  SearchOK'
<1>1. /\ scan = "ebr" /\ Drive!Record \in DOMAIN slot.ebr /\ scan' = "logical"
      /\ part_lba' = Drive!Record + slot.ebr[Drive!Record].at
      /\ next_ebr_lba' = slot.ebr[Drive!Record].next
      /\ mbr' = mbr /\ i' = i /\ ebr_lba' = ebr_lba
      /\ slot' = slot /\ part' = part
  BY DEF Drive!EBR, Drive!table
<1>2. linux' = (slot.ebr[Drive!Record].type = "ext")
  BY Zenon DEF Drive!EBR
<1>3. /\ slot \in Drives /\ AtPrimary /\ InChain /\ AtRecord
      /\ Entries(part) \subseteq DOMAIN slot.fs
  BY <1>1 DEF SearchOK
<1>4. AtPrimary' /\ InChain'
  BY <1>1, <1>3 DEF AtPrimary, InChain
<1>5. PICK qs \in SUBSET DOMAIN slot.ebr :
        Seen(slot, qs, part) /\ ClosedBut(slot, ebr_lba, qs, Drive!Record)
  BY <1>3, Zenon DEF AtRecord
<1>6. Drive!Record \in Drive!Chain(slot, ebr_lba)
  BY <1>1, <1>3 DEF AtRecord
<1>7. Drive!FitsLogical(linux') = Drive!FitsLogical(slot.ebr[Drive!Record].type = "ext")
  BY <1>2, Zenon
<1>8. AtLogical'
  BY <1>1, <1>5, <1>6, <1>7, Zenon DEF AtLogical
<1> QED
  BY <1>1, <1>3, <1>4, <1>8 DEF SearchOK

LEMMA BadRecordSearched ==
  ASSUME ScanOK, ScanOK', SearchOK, whole, Drive!BadEBR
  PROVE  SearchOK'
<1>1. /\ scan = "ebr" /\ Drive!Record \notin DOMAIN slot.ebr /\ Drive!ChainGoesOn(0)
      /\ mbr' = mbr /\ ebr_lba' = ebr_lba /\ slot' = slot /\ part' = part
  BY DEF Drive!BadEBR, Drive!table
<1>2. /\ slot \in Drives /\ AtPrimary /\ AtRecord
      /\ Entries(part) \subseteq DOMAIN slot.fs
  BY <1>1 DEF SearchOK
<1>3. PICK qs \in SUBSET DOMAIN slot.ebr :
        Seen(slot, qs, part) /\ ClosedBut(slot, ebr_lba, qs, Drive!Record)
  BY <1>2, Zenon DEF AtRecord
<1>4. Drive!Closed(slot, ebr_lba, qs)
  BY <1>1, <1>3, Zenon DEF ClosedBut, Drive!Closed
<1>5. \E ss \in SUBSET DOMAIN slot.ebr :
        Drive!Closed(slot, ebr_lba, ss) /\ Seen(slot, ss, part')
  BY <1>1, <1>3, <1>4, Zenon
<1> QED
  BY <1>1, <1>2, <1>5, ChainOn DEF AtPrimary

LEMMA LogicalSearched ==
  ASSUME ScanOK, ScanOK', SearchOK, whole, Drive!Logical
  PROVE  SearchOK'
<1>1. /\ scan = "logical" /\ Drive!AddPartition(part_lba, Drive!FitsLogical(linux))
      /\ Drive!ChainGoesOn(next_ebr_lba) /\ next_ebr_lba' = next_ebr_lba
      /\ mbr' = mbr /\ ebr_lba' = ebr_lba /\ slot' = slot
  BY DEF Drive!Logical
<1>2. /\ slot \in Drives /\ AtPrimary /\ InChain /\ AtLogical
      /\ Entries(part) \subseteq DOMAIN slot.fs
  BY <1>1 DEF SearchOK
<1>3. PICK q \in Drive!Chain(slot, ebr_lba), qs \in SUBSET DOMAIN slot.ebr :
        /\ part_lba = q + slot.ebr[q].at /\ next_ebr_lba = slot.ebr[q].next
        /\ Drive!FitsLogical(linux) = Drive!FitsLogical(slot.ebr[q].type = "ext")
        /\ Seen(slot, qs, part) /\ ClosedBut(slot, ebr_lba, qs, q)
  BY <1>2, Zenon DEF AtLogical
<1>4. q \in DOMAIN slot.ebr
  BY Zenon DEF Drive!Chain
<1>5. /\ Entries(part) \subseteq Entries(part')
      /\ Full(part) => Full(part')
      /\ \A p \in Entries(part') :
           \/ p \in Entries(part)
           \/ /\ p = part_lba /\ p \in DOMAIN slot.fs
              /\ slot.fs[p] \in Drive!FitsLogical(linux)
      /\ part_lba \in DOMAIN slot.fs /\ slot.fs[part_lba] \in Drive!FitsLogical(linux)
           => Full(part') \/ part_lba \in Entries(part')
  <2>1. part_lba \in Nat
    BY DEF ScanOK
  <2> QED
    BY <1>1, <1>2, <2>1, AddMore, Zenon
<1>6. \A p : Drive!ChainTells(slot, q, p)
               <=> p = part_lba /\ slot.fs[p] \in Drive!FitsLogical(linux)
  BY <1>3, Zenon DEF Drive!ChainTells
<1>7. Entries(part') \subseteq DOMAIN slot.fs
  BY <1>2, <1>5
<1>8. Entries(part') \subseteq Drive!Told(slot)
  <2> SUFFICES ASSUME NEW p \in Entries(part'), p \notin Entries(part)
               PROVE  p \in Drive!Told(slot)
    BY <1>2 DEF AtPrimary
  <2>1. p \in DOMAIN slot.fs /\ Drive!ChainTells(slot, q, p)
    BY <1>5, <1>6
  <2>2. i \in DOMAIN slot.primary /\ mbr = slot.primary
    BY <1>1, <1>2 DEF ScanOK, AtPrimary
  <2>3. Drive!Tells(slot, slot.primary[i], p)
    BY <1>2, <2>1, <2>2, Zenon DEF Drive!Tells, InChain
  <2> QED
    BY <2>1, <2>2, <2>3, Zenon DEF Drive!Told
<1> DEFINE ss == qs \union {q}
<1>9. ss \in SUBSET DOMAIN slot.ebr
  BY <1>4
<1>10. Seen(slot, ss, part')
  <2>1. Seen(slot, qs, part')
    BY <1>3, <1>5, DealtStays
  <2> QED
    BY <1>5, <1>6, <2>1 DEF Seen
<1>11. CASE next_ebr_lba # 0
  <2>1. Drive!Record' = ebr_lba + slot.ebr[q].next
    BY <1>1, <1>3 DEF Drive!Record
  <2>2. Drive!Record' \in DOMAIN slot.ebr => Drive!Record' \in Drive!Chain(slot, ebr_lba)
    BY <1>3, <2>1, ChainGoes
  <2>3. ClosedBut(slot, ebr_lba, ss, Drive!Record')
    BY <1>3, <2>1, Zenon DEF ClosedBut
  <2>4. AtRecord'
    BY <1>1, <1>9, <1>10, <2>2, <2>3, Zenon DEF AtRecord
  <2> QED
    BY <1>1, <1>2, <1>5, <1>7, <1>8, <1>11, <2>4, ChainOn DEF ScanOK
<1>12. CASE next_ebr_lba = 0
  <2>1. ebr_lba + slot.ebr[q].next = ebr_lba
    BY <1>3, <1>12 DEF ScanOK
  <2>2. Drive!Closed(slot, ebr_lba, ss)
    BY <1>3, <2>1, Zenon DEF ClosedBut, Drive!Closed
  <2> QED
    BY <1>1, <1>2, <1>5, <1>7, <1>8, <1>9, <1>10, <1>12, <2>2, ChainOn DEF ScanOK
<1> QED
  BY <1>11, <1>12

LEMMA StraySearched ==
  ASSUME ScanOK, SearchOK, whole, Drive!StraySector
  PROVE  SearchOK'
<1>1. slot' = slot /\ scan = "stray" /\ scan' \in {"stray", "done"}
  BY DEF Drive!StraySector
<1>2. slot \in Drives /\ Drive!Told(slot) = {} /\ Entries(part) \subseteq DOMAIN slot.fs
  BY <1>1 DEF SearchOK
<1>3. \E s \in Nat : \E kinds : Drive!AddPartition(s, kinds)
  BY DEF ScanOK, Drive!StraySector
<1>4. Entries(part') \subseteq DOMAIN slot.fs
  BY <1>2, <1>3, AddMore
<1>5. Found'
  BY <1>1, <1>2 DEF Found
<1> QED
  BY <1>1, <1>2, <1>4, <1>5 DEF SearchOK

\* A search begins with an empty list, and with the drive that is there.
LEMMA SearchBegins ==
  ASSUME ScanOK, slot # NoDrive, slot' = slot, Drive!FindPartitions
  PROVE  SearchOK'
BY DEF ScanOK, Drive!FindPartitions, SearchOK, Entries

LEMMA SearchStep ==
  ASSUME TableOK, TableOK', SearchOK, Drive!Next
  PROVE  SearchOK'
<1> USE DEF TableOK
<1>1. ASSUME ~whole, whole' = whole
      PROVE  SearchOK'
  BY <1>1 DEF SearchOK
<1>2. CASE Drive!ReadMBR
  <2>1. /\ scan = "mbr" /\ whole' = whole /\ slot' = slot /\ part' = part
        /\ IF slot = NoDrive THEN scan' = "done"
           ELSE IF slot.primary # <<>>
                THEN scan' = "primary" /\ i' = 1 /\ mbr' = slot.primary
                ELSE scan' = "stray"
    BY <1>2 DEF Drive!ReadMBR, Drive!Read, Drive!table
  <2>2. CASE whole
    <3>1. slot \in Drives /\ Entries(part) \subseteq DOMAIN slot.fs /\ slot # NoDrive
      BY <2>2, DrivesAssumption DEF SearchOK
    <3>2. CASE slot.primary # <<>>
      <4>1. part = <<>>
        BY <2>1 DEF Unlisted
      <4> QED
        BY <2>1, <3>1, <3>2, <4>1 DEF SearchOK, AtPrimary, Entries
    <3>3. CASE slot.primary = <<>>
      <4>1. Drive!Told(slot) = {}
        BY <3>3 DEF Drive!Told
      <4> QED
        BY <2>1, <3>1, <3>3, <4>1 DEF SearchOK
    <3> QED
      BY <3>2, <3>3
  <2> QED
    BY <1>1, <2>1, <2>2
<1>3. CASE Drive!EBRUnread
  <2>1. slot = NoDrive /\ whole' = whole
    BY <1>3 DEF Drive!EBRUnread, Drive!Read
  <2> QED
    BY <1>1, <2>1, DrivesAssumption DEF SearchOK
<1>4. CASE Drive!Primary \/ Drive!Extended \/ Drive!BadEBR \/ Drive!EBR \/ Drive!Logical
           \/ Drive!StraySector
  <2>1. whole' = whole
    BY <1>4 DEF Drive!Primary, Drive!Extended, Drive!BadEBR, Drive!EBR, Drive!Logical,
       Drive!StraySector
  <2> QED
    BY <1>1, <1>4, <2>1, PrimarySearched, ExtendedSearched, BadRecordSearched, RecordSearched,
       LogicalSearched, StraySearched
<1>5. CASE Drive!ScanDone
  BY <1>5 DEF Drive!ScanDone, Drive!table, SearchOK, Found
<1>6. CASE Drive!DriveInserted
  BY <1>6, SearchBegins DEF Drive!DriveInserted
<1>7. CASE Drive!Remounted
  <2>1. CASE slot # NoDrive
    BY <1>7, <2>1, SearchBegins DEF Drive!Remounted
  <2>2. CASE slot = NoDrive
    BY <1>7, <2>2, DrivesAssumption DEF Drive!Remounted, SearchOK
  <2> QED
    BY <2>1, <2>2
<1>8. CASE Drive!DriveRemoved
  BY <1>8, DrivesAssumption DEF Drive!DriveRemoved, SearchOK
<1>9. CASE Drive!Remount
  BY <1>9 DEF Drive!Remount, Drive!UnmountPartitions, Drive!table, SearchOK, Entries
<1>10. CASE Drive!TakeOut
  BY <1>10 DEF Drive!TakeOut, SearchOK
<1>11. CASE Drive!PutIn
  BY <1>11, DrivesAssumption DEF Drive!PutIn, SearchOK
<1> QED
  BY <1>2, <1>3, <1>4, <1>5, <1>6, <1>7, <1>8, <1>9, <1>10, <1>11 DEF Drive!Next, Drive!ScanStep

LEMMA DrivePart ==
  /\ ThreadsInit => Drive!Init
  /\ [ThreadsNext]_allVars => Drive!Next \/ UNCHANGED driveVars
<1>1. ASSUME ThreadsNext PROVE Drive!Next \/ UNCHANGED driveVars
  BY <1>1, Zenon DEF ThreadsNext, others
<1>2. ASSUME UNCHANGED allVars PROVE UNCHANGED driveVars
  BY <1>2 DEF allVars, others
<1> QED
  BY <1>1, <1>2 DEF ThreadsInit

LEMMA DriveInv ==
  /\ ThreadsInit => TableOK /\ SearchOK
  /\ TableOK /\ SearchOK /\ [ThreadsNext]_allVars => TableOK' /\ SearchOK'
<1>1. ASSUME Drive!Init PROVE TableOK /\ SearchOK
  <2>1. part = <<>> /\ Len(part) = 0 /\ mbr = <<>>
    BY <1>1 DEF Drive!Init
  <2>2. part \in Seq(Nat) /\ mbr \in Seq([type : STRING, at : Nat])
    BY <2>1
  <2> QED
    BY <1>1, <2>1, <2>2, DrivesAssumption
    DEF Drive!Init, TableOK, ScanOK, ListedOnce, Unlisted, SearchOK
<1>2. ASSUME TableOK, SearchOK, UNCHANGED driveVars PROVE TableOK' /\ SearchOK'
  <2>1. TableOK'
    BY <1>2 DEF driveVars, TableOK, ScanOK, ListedOnce, Unlisted
  <2>2. /\ slot' = slot /\ part' = part /\ scan' = scan /\ i' = i /\ ebr_lba' = ebr_lba
        /\ next_ebr_lba' = next_ebr_lba /\ part_lba' = part_lba /\ mbr' = mbr
    BY <1>2 DEF driveVars
  <2>3. linux' = linux /\ whole' = whole /\ inserted' = inserted
    BY <1>2 DEF driveVars
  <2>4. SearchOK'
    BY <1>2, <2>2, <2>3, Zenon
    DEF SearchOK, AtPrimary, InChain, AtRecord, AtLogical, Found, Drive!Record
  <2> QED
    BY <2>1, <2>4
<1> QED
  BY <1>1, <1>2, DrivePart, DriveKeeps, SearchStep

\* Whatever the tables of a drive say, what is mounted is what is listed, each once;
\* and a search through which the drive stays in its place lists what the tables tell
\* of, or as much as there is room for (FindPartitions, AddPartition).
THEOREM TableTheorem == ThreadsSpec => []TableIsDrive
<1>1. TableOK /\ SearchOK => TableIsDrive
  <2> SUFFICES ASSUME TableOK, SearchOK
               PROVE  TableIsDrive
    OBVIOUS
  <2>1. /\ DOMAIN onMounts = 1..Len(part)
        /\ \A n, m \in 1..Len(part) : onMounts[n] = part[n] /\ (part[n] = part[m] => n = m)
    BY DEF TableOK, ListedOnce
  <2>2. ASSUME scan = "rest", whole, inserted
        PROVE  /\ {part[n] : n \in 1..Len(part)} \subseteq DOMAIN slot.fs
               /\ Drive!Told(slot) # {} => {part[n] : n \in 1..Len(part)} \subseteq Drive!Told(slot)
               /\ Len(part) < MaxDevices => Drive!Told(slot) \subseteq {part[n] : n \in 1..Len(part)}
    BY <2>2, Zenon DEF SearchOK, Found, Entries
  <2> QED
    BY <2>1, <2>2, Zenon DEF TableIsDrive, Drive!TableIsDrive
<1> QED
  BY <1>1, DriveInv, PTL DEF ThreadsSpec
----------------------------------------------------------------------------
(* Each variable has its type.                                             *)

LEMMA PlayerTypes ==
  /\ ThreadsInit => Places /\ Flags
  /\ Places /\ Flags /\ [ThreadsNext]_allVars => Places' /\ Flags'
<1>1. ThreadsInit => Places /\ Flags
  BY InitInv DEF ThreadsInit, Inv
<1>2. /\ ListP!Places <=> Places
      /\ ListP!Flags <=> Flags
      /\ ListP!Places' <=> Places'
      /\ ListP!Flags' <=> Flags'
  BY DEF Places, Flags, ListP!Places, ListP!Flags
<1>3. ASSUME UNCHANGED vars, Places, Flags PROVE Places' /\ Flags'
  <2>1. Places'
    BY <1>3 DEF vars, film, playing, screen, menu, drive, timer, Places
  <2>2. Flags'
    BY <1>3 DEF vars, film, playing, screen, menu, drive, timer, Flags
  <2> QED
    BY <2>1, <2>2
<1>4. ASSUME [ThreadsNext]_allVars
      PROVE  Next \/ ListP!Next \/ UNCHANGED vars
  <2>1. CASE ThreadsNext
    <3>1. Next \/ Playlist!Next \/ UNCHANGED vars
      BY <2>1, Zenon DEF ThreadsNext, handshakes
    <3> QED
      BY <3>1, SamePlayer
  <2>2. CASE UNCHANGED allVars
    BY <2>2 DEF allVars, handshakes
  <2> QED
    BY <1>4, <2>1, <2>2
<1>5. ASSUME Places, Flags, Next PROVE Places' /\ Flags'
  BY <1>5, PlacesStep, FlagsStep
<1>6. ASSUME Places, Flags, ListP!Next PROVE Places' /\ Flags'
  BY FilesAssumption, <1>2, <1>6, ListP!PlacesStep, ListP!FlagsStep
<1> QED
  BY <1>1, <1>3, <1>4, <1>5, <1>6

DevicePlaces ==
  /\ deviceHalt \in 0..2
  /\ device \in {"none", "first", "first nap", "parked first", "look", "test", "nap",
                 "parked", "woken", "gone"}
  /\ job \in Device!Jobs \union {"menus"}
  /\ at \in {"start", "rest", "suspend", "work", "mount", "mounting", "join", "film", "end"}

DeviceFlags == discMounted \in BOOLEAN /\ dvdLastUsed \in BOOLEAN /\ leaving \in BOOLEAN

LEMMA DeviceFlagsStep ==
  ASSUME DeviceFlags, Device!Next
  PROVE  DeviceFlags'
<1> USE DEF DeviceFlags, Device!main
<1>1. CASE Device!DeviceStep
  BY <1>1, Zenon DEF Device!DeviceStep, Device!FirstTest, Device!FirstNap,
    Device!FirstLoopEnds, Device!LookEnds, Device!HaltTest, Device!Nap, Device!Woken
<1>2. CASE Device!MainMust
  BY <1>2, Zenon DEF Device!MainMust, Device!MenusBegin, Device!SuspendEnds,
    Device!Mounting, Device!Joined, Device!ProgramEnds
<1>3. CASE Device!MainMay
  <2>1. discMounted' \in BOOLEAN
    BY <1>3, Zenon DEF Device!MainMay, Device!Begin, Device!MountBegins, Device!MountEnds,
      Device!WorkEnds, Device!StopDeviceThread, Device!FilmEnds
  <2>2. dvdLastUsed' \in BOOLEAN
    <3>1. CASE Device!WorkEnds
      <4>1. dvdLastUsed' \in IF job = "MountDVD" THEN BOOLEAN ELSE {dvdLastUsed}
        BY <3>1, Zenon DEF Device!WorkEnds
      <4> QED
        BY <4>1, Zenon
    <3>2. CASE ~Device!WorkEnds
      BY <1>3, <3>2, Zenon DEF Device!MainMay, Device!Begin, Device!MountBegins,
        Device!MountEnds, Device!StopDeviceThread, Device!FilmEnds
    <3> QED
      BY <3>1, <3>2
  <2>3. leaving' \in BOOLEAN
    BY <1>3, Zenon DEF Device!MainMay, Device!Begin, Device!MountBegins, Device!MountEnds,
      Device!WorkEnds, Device!StopDeviceThread, Device!FilmEnds
  <2> QED
    BY <2>1, <2>2, <2>3
<1>4. CASE Device!HomeButton
  BY <1>4, Zenon DEF Device!HomeButton
<1> QED
  BY <1>1, <1>2, <1>3, <1>4 DEF Device!Next

LEMMA DeviceWoken ==
  ASSUME DevicePlaces
  PROVE  Device!Wake \in {"none", "first", "first nap", "look", "test", "nap", "woken", "gone"}
<1>1. CASE device = "parked"
  BY <1>1, Zenon DEF Device!Wake
<1>2. CASE device = "parked first"
  <2>1. Device!Wake = "first nap"
    BY <1>2 DEF Device!Wake
  <2> QED
    BY <2>1
<1>3. CASE device \notin {"parked", "parked first"}
  <2>1. Device!Wake = device
    BY <1>3 DEF Device!Wake
  <2> QED
    BY <1>3, <2>1 DEF DevicePlaces
<1> QED
  BY <1>1, <1>2, <1>3

LEMMA HaltValues == 0 \in 0..2 /\ 1 \in 0..2 /\ 2 \in 0..2
OBVIOUS

LEMMA DevicePlacesStep ==
  ASSUME DevicePlaces, Device!Next
  PROVE  DevicePlaces'
<1> USE DeviceWoken
<1>0. 0 \in 0..2 /\ 1 \in 0..2 /\ 2 \in 0..2
  BY HaltValues
<1>1. CASE Device!DeviceStep
  BY <1>1 DEF DevicePlaces, Device!main, Device!Jobs, Device!DeviceStep, Device!FirstTest,
    Device!FirstNap, Device!FirstLoopEnds, Device!LookEnds, Device!HaltTest, Device!Nap,
    Device!Woken
<1>2. CASE Device!MainMust
  <2>1. CASE Device!MenusBegin
    <3>1. /\ deviceHalt' = 0 /\ (device' = "first" \/ device' = Device!Wake)
          /\ at' = "rest" /\ job' = job
      BY <2>1, Zenon DEF Device!MenusBegin, Device!ResumeDeviceThread
    <3> QED
      BY <1>0, <3>1, Zenon DEF DevicePlaces, Device!Jobs
  <2>2. CASE Device!SuspendEnds
    <3>1. /\ deviceHalt' = deviceHalt /\ device' = device
          /\ at' = "work" /\ job' = job
      BY <2>2, Zenon DEF Device!SuspendEnds
    <3> QED
      BY <1>0, <3>1, Zenon DEF DevicePlaces, Device!Jobs
  <2>3. CASE Device!Mounting
    <3>1. /\ deviceHalt' = deviceHalt /\ device' = device
          /\ at' = "mounting" /\ job' = job
      BY <2>3, Zenon DEF Device!Mounting
    <3> QED
      BY <1>0, <3>1, Zenon DEF DevicePlaces, Device!Jobs
  <2>4. CASE Device!Joined
    <3>1. /\ deviceHalt' = deviceHalt /\ device' = "none"
          /\ at' = "film" /\ job' = job
      BY <2>4, Zenon DEF Device!Joined
    <3> QED
      BY <1>0, <3>1, Zenon DEF DevicePlaces, Device!Jobs
  <2>5. CASE Device!ProgramEnds
    <3>1. /\ deviceHalt' = 1 /\ device' = device
          /\ at' = "end" /\ job' = job
      BY <2>5, Zenon DEF Device!ProgramEnds, Device!SuspendDeviceThread
    <3> QED
      BY <1>0, <3>1, Zenon DEF DevicePlaces, Device!Jobs
  <2> QED
    BY <1>2, <2>1, <2>2, <2>3, <2>4, <2>5 DEF Device!MainMust
<1>3. CASE Device!MainMay
  <2>1. CASE \E j \in Device!Jobs : Device!Begin(j)
    <3>1. /\ deviceHalt' = 1 /\ device' = device
          /\ at' = "suspend" /\ job' \in Device!Jobs
      BY <2>1, Zenon DEF Device!Begin, Device!SuspendDeviceThread
    <3> QED
      BY <1>0, <3>1, Zenon DEF DevicePlaces, Device!Jobs
  <2>2. CASE Device!MountBegins
    <3>1. /\ deviceHalt' = 1 /\ device' = device
          /\ at' = "mount" /\ job' = job
      BY <2>2, Zenon DEF Device!MountBegins, Device!SuspendDeviceThread
    <3> QED
      BY <1>0, <3>1, Zenon DEF DevicePlaces, Device!Jobs
  <2>3. CASE Device!MountEnds
    <3>1. /\ deviceHalt' = 0 /\ (device' = "first" \/ device' = Device!Wake)
          /\ at' = "work" /\ job' = job
      BY <2>3, Zenon DEF Device!MountEnds, Device!ResumeDeviceThread
    <3> QED
      BY <1>0, <3>1, Zenon DEF DevicePlaces, Device!Jobs
  <2>4. CASE Device!WorkEnds
    <3>1. /\ \/ deviceHalt' = deviceHalt /\ device' = device
             \/ deviceHalt' = 0 /\ (device' = "first" \/ device' = Device!Wake)
          /\ at' = "rest" /\ job' = "menus"
      BY <2>4, Zenon DEF Device!WorkEnds, Device!ResumeDeviceThread
    <3> QED
      BY <1>0, <3>1, Zenon DEF DevicePlaces, Device!Jobs
  <2>5. CASE Device!StopDeviceThread
    <3>1. /\ deviceHalt' = 2 /\ device' = Device!Wake
          /\ at' = "join" /\ job' = job
      BY <2>5, Zenon DEF Device!StopDeviceThread
    <3> QED
      BY <1>0, <3>1, Zenon DEF DevicePlaces, Device!Jobs
  <2>6. CASE Device!FilmEnds
    <3>1. /\ deviceHalt' = deviceHalt /\ device' = device
          /\ at' = "start" /\ job' = job
      BY <2>6, Zenon DEF Device!FilmEnds
    <3> QED
      BY <1>0, <3>1, Zenon DEF DevicePlaces, Device!Jobs
  <2> QED
    BY <1>3, <2>1, <2>2, <2>3, <2>4, <2>5, <2>6 DEF Device!MainMay
<1>4. CASE Device!HomeButton
  <2>1. deviceHalt' = deviceHalt /\ device' = device /\ at' = at /\ job' = job
    BY <1>4, Zenon DEF Device!HomeButton, Device!main
  <2> QED
    BY <2>1, Zenon DEF DevicePlaces, Device!Jobs
<1> QED
  BY <1>1, <1>2, <1>3, <1>4 DEF Device!Next

LEMMA DeviceTypes ==
  /\ ThreadsInit => DevicePlaces /\ DeviceFlags
  /\ DevicePlaces /\ DeviceFlags /\ [ThreadsNext]_allVars => DevicePlaces' /\ DeviceFlags'
<1>1. ThreadsInit => DevicePlaces /\ DeviceFlags
  <2>1. ThreadsInit => DevicePlaces
    BY InitParts DEF Device!Init, DevicePlaces
  <2>2. ThreadsInit => DeviceFlags
    BY InitParts, Zenon DEF Device!Init, DeviceFlags
  <2> QED
    BY <2>1, <2>2
<1>2. ASSUME UNCHANGED deviceVars, DevicePlaces, DeviceFlags
      PROVE  DevicePlaces' /\ DeviceFlags'
  <2>1. /\ deviceHalt' = deviceHalt /\ device' = device /\ job' = job /\ at' = at
        /\ discMounted' = discMounted /\ dvdLastUsed' = dvdLastUsed /\ leaving' = leaving
    BY <1>2 DEF deviceVars
  <2> QED
    BY <1>2, <2>1, ZenonT(60) DEF DevicePlaces, DeviceFlags, Device!Jobs
<1> QED
  BY <1>1, <1>2, StepParts, DeviceFlagsStep, DevicePlacesStep

\* The network thread asks while it has attempts left.
NetworkPlaces ==
  /\ netHalt \in {0, 2} /\ retry \in 0..Retries
  /\ networkthread \in {"none", "round", "try", "ask", "end", "park", "parked", "gone"}
  /\ caller \in {"rest", "loop", "wait", "stop", "halt", "join", "tried"}
  /\ networkthread = "ask" => retry > 0

NetworkFlags ==
  networkInit \in BOOLEAN /\ silent \in BOOLEAN /\ cancelNetworkInit \in BOOLEAN

LEMMA NetworkFlagsStep ==
  ASSUME NetworkFlags, Network!Next
  PROVE  NetworkFlags'
<1> USE DEF NetworkFlags, Network!main
<1>1. CASE Network!NetStep
  BY <1>1, Zenon DEF Network!NetStep, Network!Round, Network!Try, Network!Connected,
    Network!NotConnected, Network!RoundEnds, Network!Parks
<1>2. CASE Network!MainMust
  BY <1>2, Zenon DEF Network!MainMust, Network!LoopTest, Network!WaitEnds,
    Network!NotStopped, Network!StopTest, Network!Stop, Network!Joined, Network!Tried
<1>3. CASE Network!CancelButton \/ Network!CheckMplayerNetwork
  BY <1>3, Zenon DEF Network!CancelButton, Network!CheckMplayerNetwork
<1>4. CASE \E b \in BOOLEAN : Network!InitializeNetwork(b)
  BY <1>4, Zenon DEF Network!InitializeNetwork
<1> QED
  BY <1>1, <1>2, <1>3, <1>4 DEF Network!Next

LEMMA NetworkPlacesStep ==
  ASSUME NetworkPlaces, Network!Next
  PROVE  NetworkPlaces'
<1> USE BoundsAssumption DEF NetworkPlaces, Network!main
<1>1. CASE Network!NetStep
  BY <1>1 DEF Network!NetStep, Network!Round, Network!Try, Network!Connected,
    Network!NotConnected, Network!RoundEnds, Network!Parks
<1>2. CASE Network!MainMust
  BY <1>2 DEF Network!MainMust, Network!LoopTest, Network!WaitEnds, Network!NotStopped,
    Network!StopTest, Network!Stop, Network!Joined, Network!Tried, Network!Wake,
    Network!StartNetworkThread
<1>3. CASE Network!CancelButton \/ Network!CheckMplayerNetwork
  BY <1>3 DEF Network!CancelButton, Network!CheckMplayerNetwork, Network!Wake,
    Network!StartNetworkThread
<1>4. CASE \E b \in BOOLEAN : Network!InitializeNetwork(b)
  BY <1>4 DEF Network!InitializeNetwork
<1> QED
  BY <1>1, <1>2, <1>3, <1>4 DEF Network!Next

LEMMA NetworkTypes ==
  /\ ThreadsInit => NetworkPlaces /\ NetworkFlags
  /\ NetworkPlaces /\ NetworkFlags /\ [ThreadsNext]_allVars => NetworkPlaces' /\ NetworkFlags'
<1>1. ThreadsInit => NetworkPlaces /\ NetworkFlags
  <2>1. ThreadsInit => NetworkPlaces
    BY BoundsAssumption DEF ThreadsInit, Network!Init, NetworkPlaces
  <2>2. ThreadsInit => NetworkFlags
    BY Zenon DEF ThreadsInit, Network!Init, NetworkFlags
  <2> QED
    BY <2>1, <2>2
<1>2. ASSUME UNCHANGED networkVars, NetworkPlaces, NetworkFlags
      PROVE  NetworkPlaces' /\ NetworkFlags'
  <2>1. /\ netHalt' = netHalt /\ retry' = retry /\ networkthread' = networkthread
        /\ caller' = caller /\ networkInit' = networkInit /\ silent' = silent
        /\ cancelNetworkInit' = cancelNetworkInit
    BY <1>2 DEF networkVars
  <2> QED
    BY <1>2, <2>1, Zenon DEF NetworkPlaces, NetworkFlags
<1>3. [ThreadsNext]_allVars => Network!Next \/ UNCHANGED networkVars
  <2>1. ASSUME ThreadsNext PROVE Network!Next \/ UNCHANGED networkVars
    BY <2>1, Zenon DEF ThreadsNext, others
  <2>2. ASSUME UNCHANGED allVars PROVE UNCHANGED networkVars
    BY <2>2 DEF allVars, others
  <2> QED
    BY <2>1, <2>2
<1> QED
  BY <1>1, <1>2, <1>3, NetworkFlagsStep, NetworkPlacesStep

LEMMA DriveTypes ==
  /\ ThreadsInit => ScanFlags
  /\ ScanFlags /\ [ThreadsNext]_allVars => ScanFlags'
<1> USE DEF ScanFlags
<1>1. ASSUME ScanFlags, Drive!Next
      PROVE  inserted' \in BOOLEAN
  BY <1>1, Zenon DEF Drive!Next, Drive!ScanStep, Drive!ReadMBR, Drive!Primary, Drive!Extended,
     Drive!EBRUnread, Drive!BadEBR, Drive!EBR, Drive!Logical, Drive!StraySector, Drive!ScanDone,
     Drive!Remounted, Drive!DriveInserted, Drive!DriveRemoved, Drive!Remount, Drive!TakeOut,
     Drive!PutIn
<1>2. ASSUME ScanFlags, Drive!Next
      PROVE  whole' \in BOOLEAN
  BY <1>2, Zenon DEF Drive!Next, Drive!ScanStep, Drive!ReadMBR, Drive!Primary, Drive!Extended,
     Drive!EBRUnread, Drive!BadEBR, Drive!EBR, Drive!Logical, Drive!StraySector, Drive!ScanDone,
     Drive!Remounted, Drive!DriveInserted, Drive!DriveRemoved, Drive!Remount, Drive!TakeOut,
     Drive!PutIn, Drive!FindPartitions
<1>3. ASSUME ScanFlags, Drive!Next
      PROVE  linux' \in BOOLEAN
  BY <1>3, Zenon DEF Drive!Next, Drive!ScanStep, Drive!ReadMBR, Drive!Primary, Drive!Extended,
     Drive!EBRUnread, Drive!BadEBR, Drive!EBR, Drive!Logical, Drive!StraySector, Drive!ScanDone,
     Drive!Remounted, Drive!DriveInserted, Drive!DriveRemoved, Drive!Remount, Drive!TakeOut,
     Drive!PutIn, Drive!FindPartitions, Drive!locals
<1>4. ASSUME ScanFlags, UNCHANGED driveVars PROVE ScanFlags'
  <2>1. inserted' = inserted /\ linux' = linux /\ whole' = whole
    BY <1>4 DEF driveVars
  <2> QED
    BY <1>4, <2>1, Zenon
<1>5. Drive!Init => ScanFlags
  BY DEF Drive!Init
<1> QED
  BY <1>1, <1>2, <1>3, <1>4, <1>5, DrivePart

\* Each variable of each part has its type.
THEOREM TypesTheorem == ThreadsSpec => []TypesOK
<1>1. ThreadsSpec => []Cache!TypeOK
  <2>1. ThreadsInit => CacheP!Init
    BY InitParts, SameCache
  <2>2. [ThreadsNext]_allVars => [CacheP!Next]_(CacheP!vars)
    BY StepParts, SameCache
  <2>3. CacheP!Spec => []CacheP!TypeOK
    BY BoundsAssumption, CacheP!TypeTheorem
  <2>4. CacheP!TypeOK => Cache!TypeOK
    BY DEF CacheP!TypeOK, Cache!TypeOK
  <2> QED
    BY <2>1, <2>2, <2>3, <2>4, PTL DEF ThreadsSpec, CacheP!Spec
<1>2. ThreadsSpec => []Films!TypeOK
  <2>1. ThreadsInit => FilmsP!Init
    BY InitParts, SameFilms
  <2>2. [ThreadsNext]_allVars => [FilmsP!Step]_(FilmsP!vars)
    BY StepParts, SameFilms
  <2>3. FilmsP!Spec => []FilmsP!TypeOK
    BY BoundsAssumption, FilmsP!TypeTheorem
  <2>4. FilmsP!TypeOK => Films!TypeOK
    BY DEF FilmsP!TypeOK, Films!TypeOK, FilmsP!Modes, Films!Modes
  <2> QED
    BY <2>1, <2>2, <2>3, <2>4, PTL DEF ThreadsSpec, FilmsP!Spec
<1>3. ThreadsSpec => []Windows!TypeOK
  <2>1. ThreadsInit => WindowsP!Init
    BY InitParts, SameWindows
  <2>2. [ThreadsNext]_allVars => [WindowsP!Next]_(WindowsP!vars)
    BY StepParts, SameWindows
  <2>3. WindowsP!Spec => []WindowsP!TypeOK
    BY WindowsP!TypeTheorem
  <2>4. WindowsP!TypeOK => Windows!TypeOK
    BY DEF WindowsP!TypeOK, Windows!TypeOK
  <2> QED
    BY <2>1, <2>2, <2>3, <2>4, PTL DEF ThreadsSpec, WindowsP!Spec
<1>4. Places /\ Flags => TypeOK
  BY DEF Places, Flags, TypeOK
<1>5. DevicePlaces /\ DeviceFlags => Device!TypeOK
  BY DEF DevicePlaces, DeviceFlags, Device!TypeOK
<1>6. NetworkPlaces /\ NetworkFlags => Network!TypeOK
  BY DEF NetworkPlaces, NetworkFlags, Network!TypeOK
<1>7. TableOK /\ ScanFlags => Drive!TypeOK
  <2>1. TableOK => DOMAIN onMounts \subseteq 1..MaxDevices
    BY DrivesAssumption DEF TableOK, ScanOK, ListedOnce
  <2> QED
    BY <2>1 DEF TableOK, ScanOK, ScanFlags, Drive!TypeOK
<1>8. ThreadsSpec => [](TypeOK /\ Device!TypeOK)
  BY <1>4, <1>5, PlayerTypes, DeviceTypes, PTL DEF ThreadsSpec
<1>9. ThreadsSpec => [](Network!TypeOK /\ Drive!TypeOK)
  BY <1>6, <1>7, NetworkTypes, DriveTypes, DriveInv, PTL DEF ThreadsSpec
<1>10. TypeOK /\ Cache!TypeOK /\ Windows!TypeOK /\ Device!TypeOK
       /\ Network!TypeOK /\ Films!TypeOK /\ Drive!TypeOK => TypesOK
  BY DEF TypesOK
<1> QED
  BY <1>1, <1>2, <1>3, <1>8, <1>9, <1>10, PTL
=============================================================================
