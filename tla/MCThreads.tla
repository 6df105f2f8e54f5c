----------------------------- MODULE MCThreads -----------------------------
(***************************************************************************)
(* The hand-shakes of the program's threads, in one model-checking run.    *)
(* Each is a protocol over variables of its own - controlledbygui, the     *)
(* cache thread's flags, guiHalt and progressThreadHalt, deviceHalt,       *)
(* netHalt, the folder's films, the drive's partitions - and no model      *)
(* writes what another one reads.  So a behaviour of the run is one of the *)
(* parts', chosen at the start; the others stay as they began.             *)
(*                                                                         *)
(* The player control is checked twice: "writers" has every writer of      *)
(* controlledbygui but no play order, "playlist" the play order and the    *)
(* files whose kind only the player finds out.                             *)
(***************************************************************************)
EXTENDS PlayerControl, Sequences

CONSTANTS Blocks, NoBlock, MaxFilms, Drives, NoDrive, MaxDevices, Stray, Retries

ASSUME BoundsAssumption ==
  NoBlock \notin Blocks /\ MaxFilms \in Nat \ {0} /\ Retries \in Nat

\* Whatever a drive's tables say, they say it in records.
ASSUME DrivesAssumption ==
  /\ MaxDevices \in Nat \ {0} /\ Stray \in Nat /\ NoDrive \notin Drives
  /\ \A d \in Drives :
       /\ d.primary \in Seq([type : STRING, at : Nat])
       /\ \A s \in DOMAIN d.ebr : d.ebr[s] \in [type : STRING, at : Nat, next : Nat]

VARIABLES
  which, shutdown,
  filler, held, cachearg, stop, command, live, open, stage, mine, pid, after,
  getMESS, waitReload, gaveUp,
  guiHalt, frame, drawn, elements, state, alive, showProgress,
  progressThreadHalt, window, added, oldState, place, returns, over, opener,
  ExitRequested,
  deviceHalt, device, job, at, discMounted, dvdLastUsed, leaving,
  autoPlayNextVideo, films, numEntries, selIndex, shuffleList, shuffleIndex, shows, stale,
  fault,
  slot, inserted, part, onMounts, scan, i, ebr_lba, next_ebr_lba, part_lba, linux, mbr,
  whole,
  netHalt, networkthread, retry, networkInit, caller, silent, cancelNetworkInit

Playlist == INSTANCE PlayerControl
  WITH AutoNext <- TRUE, SongsWithVideo <- TRUE, Reselect <- FALSE,
       Removals <- FALSE, SleepTimer <- FALSE
Cache   == INSTANCE CacheThread
Windows == INSTANCE GuiWindows WITH guiShutdown <- shutdown
Device  == INSTANCE DeviceThread
Network == INSTANCE NetworkThread
Films   == INSTANCE VideoPlaylist
Drive   == INSTANCE Partitions
             WITH drive <- slot, isInserted <- inserted, mounted <- onMounts

cacheVars ==
  <<filler, held, cachearg, stop, command, live, open, stage, mine, pid, after, getMESS,
    waitReload, gaveUp>>
windowVars ==
  <<guiHalt, frame, drawn, elements, state, alive, showProgress, progressThreadHalt,
    window, added, oldState, place, returns, over, opener, shutdown, ExitRequested>>
deviceVars == <<deviceHalt, device, job, at, discMounted, dvdLastUsed, leaving>>
networkVars ==
  <<netHalt, networkthread, retry, networkInit, caller, silent, cancelNetworkInit>>
filmVars ==
  <<autoPlayNextVideo, films, numEntries, selIndex, shuffleList, shuffleIndex, shows, stale,
    fault>>
driveVars ==
  <<slot, inserted, part, onMounts, scan, i, ebr_lba, next_ebr_lba, part_lba, linux, mbr,
    whole>>
handshakes == <<vars, cacheVars, windowVars, deviceVars>>
others == <<networkVars, filmVars, driveVars>>
allVars == <<which, handshakes, others>>

ThreadsInit ==
  /\ which \in {"writers", "playlist", "cache", "windows", "device", "network", "videos",
               "drives"}
  /\ Init /\ Cache!Init /\ Windows!Init /\ Device!Init
  /\ Network!Init /\ Films!Init /\ Drive!Init

ThreadsNext ==
  \/ /\ UNCHANGED <<which, others>>
     /\ \/ which = "writers" /\ Next /\ UNCHANGED <<cacheVars, windowVars, deviceVars>>
        \/ which = "playlist" /\ Playlist!Next /\ UNCHANGED <<cacheVars, windowVars, deviceVars>>
        \/ which = "cache" /\ Cache!Next /\ UNCHANGED <<vars, windowVars, deviceVars>>
        \/ which = "windows" /\ Windows!Next /\ UNCHANGED <<vars, cacheVars, deviceVars>>
        \/ which = "device" /\ Device!Next /\ UNCHANGED <<vars, cacheVars, windowVars>>
  \/ /\ UNCHANGED <<which, handshakes>>
     /\ \/ which = "network" /\ Network!Next /\ UNCHANGED <<filmVars, driveVars>>
        \/ which = "videos" /\ Films!Step /\ UNCHANGED <<networkVars, driveVars>>
        \/ which = "drives" /\ Drive!Next /\ UNCHANGED <<networkVars, filmVars>>

\* The fairness of each part's own specification, as far as that part runs.
ThreadsSpec ==
  /\ ThreadsInit /\ [][ThreadsNext]_allVars
  /\ WF_vars(which = "writers" /\ PlayerMust) /\ WF_vars(which = "writers" /\ MainMust)
  /\ WF_vars(which = "writers" /\ DeviceStep) /\ WF_vars(which = "writers" /\ GuiMust)
  /\ WF_vars(which = "writers" /\ ExitThread)
  /\ WF_vars(which = "playlist" /\ Playlist!PlayerMust)
  /\ WF_vars(which = "playlist" /\ Playlist!MainMust)
  /\ WF_vars(which = "playlist" /\ Playlist!DeviceStep)
  /\ WF_vars(which = "playlist" /\ Playlist!GuiMust)
  /\ WF_vars(which = "playlist" /\ Playlist!ExitThread)
  /\ WF_cacheVars(which = "cache" /\ Cache!FillerStep)
  /\ WF_cacheVars(which = "cache" /\ Cache!PlayerMust)
  /\ WF_windowVars(which = "windows" /\ Windows!GuiStep)
  /\ WF_windowVars(which = "windows" /\ Windows!ProgressStep)
  /\ WF_windowVars(which = "windows" /\ Windows!MainMust)
  /\ WF_windowVars(which = "windows" /\ Windows!PlayerMust)
  /\ WF_windowVars(which = "windows" /\ Windows!ExitThread)
  /\ SF_windowVars(which = "windows" /\ Windows!WorkDone)
  /\ SF_windowVars(which = "windows" /\ Windows!Opened)
  /\ WF_deviceVars(which = "device" /\ Device!DeviceStep)
  /\ WF_deviceVars(which = "device" /\ Device!MainMust)
  /\ SF_deviceVars(which = "device" /\ Device!FirstLoopEnds)
  /\ WF_networkVars(which = "network" /\ Network!NetStep)
  /\ WF_networkVars(which = "network" /\ Network!MainMust)
  /\ WF_driveVars(which = "drives" /\ Drive!ScanStep)

----------------------------------------------------------------------------
\* Each variable has its type.
TypesOK == TypeOK /\ Cache!TypeOK /\ Windows!TypeOK /\ Device!TypeOK
           /\ Network!TypeOK /\ Films!TypeOK /\ Drive!TypeOK

\* Without a play order the previous file has ended when LoadMPlayerFile sets
\* the next one (PlayerControl; with one it need not have, as another run shows).
PreviousEndedByChoice == which = "writers" => PreviousFileEnded

\* With the sleep timer a film may be told to end while it goes on alone; else it
\* does not draw while the menus draw (PlayerControl).
OneDrawerAwake == which # "writers" => OneDrawer

\* LoadNewFile's loop ends, and without removals of the drive, which end a paused
\* film behind its button, so does the loop after ResumeMPlayerFile (PlayerControl).
MainIsAnswered == LoadAnswered /\ (which # "writers" => ResumeAnswered)

\* Whoever writes controlledbygui, a request to end the film is taken up, unless
\* the next file is opened with it (PlayerControl).
StopHeardByChoice == which = "writers" => StopHeard

\* The menus go for a video that they did not have to choose (PlayerControl).
GuiGivesWayByChoice == which = "writers" => GuiGivesWay

\* The cache thread works on films that still exist, and a film that is played
\* from its cache has the thread at work for it (CacheThread).
Served == Cache!Served

\* No wait of the player for the cache thread lasts for ever (CacheThread).
CacheWaitsEnd == Cache!WaitsEnd

\* The GUI thread draws no window whose function has returned (GuiWindows).
WindowsAlive == Windows!WindowsAlive

\* Back in the menu, the screen is as before the action (GuiWindows).
MenuIsUsable == Windows!MenuIsUsable

\* Told to go, the menus go (GuiWindows).
MenusGo == Windows!MenusGo

\* No drive is polled while it is used (DeviceThread).
QuietDuringJobs == Device!QuietDuringJobs

\* Whoever waits for the device thread has an answer (DeviceThread), if what the
\* thread does at a drive ends; and its search of a drive's tables does, unless the
\* drive is taken out or has a chain that leads back into itself (Partitions).
DeviceAnswers == Device!DeviceAnswers /\ Drive!ScanEnds

\* InitializeNetwork does not wait for ever, unless the cache thread keeps the
\* network thread at work or takes back the order to end (NetworkThread).
NetworkAnswers == Network!NetworkAnswers

\* A film after a film is on the folder's list (VideoPlaylist).
NextIsOnList == Films!NextIsOnList

\* What is mounted is what is listed, and what the drive's tables tell of (Partitions).
TableIsDrive == Drive!TableIsDrive

----------------------------------------------------------------------------
(* The drives of the run: one with an ext, a FAT and an NTFS file system   *)
(* in primary and logical partitions, more than there is room for; one     *)
(* whose records repeat a partition and lead to a record without a         *)
(* signature; one whose chain leads back into itself; one that begins with *)
(* a file system.                                                          *)
MCDrives ==
  {[primary |-> <<[type |-> "other", at |-> 1], [type |-> "ntfs", at |-> 2],
                  [type |-> "extended", at |-> 3], [type |-> "ext", at |-> 9]>>,
    ebr |-> [s \in {3, 5} |-> IF s = 3 THEN [type |-> "other", at |-> 1, next |-> 2]
                                       ELSE [type |-> "ext", at |-> 2, next |-> 0]],
    fs |-> [s \in {1, 2, 4, 7, 9} |->
              IF s \in {1, 4} THEN "fat" ELSE IF s = 2 THEN "ntfs" ELSE "ext"]],
   [primary |-> <<[type |-> "other", at |-> 1], [type |-> "extended", at |-> 3],
                  [type |-> "ntfs", at |-> 1]>>,
    ebr |-> [s \in {3} |-> [type |-> "other", at |-> 1, next |-> 2]],
    fs |-> [s \in {1, 4} |-> IF s = 1 THEN "ntfs" ELSE "fat"]],
   [primary |-> <<[type |-> "extended", at |-> 3]>>,
    ebr |-> [s \in {3, 5} |-> [type |-> "other", at |-> 1, next |-> 2]],
    fs |-> [s \in {4, 6} |-> "fat"]],
   [primary |-> <<>>, ebr |-> [s \in {} |-> 0], fs |-> [s \in {1} |-> "fat"]]}
============================================================================
