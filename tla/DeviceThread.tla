----------------------------- MODULE DeviceThread -----------------------------
(***************************************************************************)
(* The device thread (fileop.cpp), which looks every two seconds whether a *)
(* drive was put in or taken out, and the main thread, which parks it      *)
(* around everything that reads, writes or mounts a drive, creates it with *)
(* the menus and stops it when they go.  The thread is asked through       *)
(* deviceHalt and parks itself; the main thread polls.  Suspensions are    *)
(* not counted: MountDVD, called while a file is loaded, resumes the       *)
(* thread on its way out.                                                  *)
(*                                                                         *)
(* The thread has the lowest priority (40): it is preempted between any    *)
(* two of its tests.                                                       *)
(***************************************************************************)
EXTENDS Naturals

VARIABLES
  deviceHalt,  \* 0 run, 1 park, 2 end
  device,      \* where the device thread is
  job,         \* what the main thread does
  at,          \* where it is in that
  discMounted, \* MountDVD was called by the job
  dvdLastUsed, \* the DVD is mounted: dvdLastUsed > 0
  leaving      \* ExitRequested

main == <<job, at, discMounted>>
vars == <<deviceHalt, device, main, dvdLastUsed, leaving>>

\* The thread is created when the menus begin.
Init ==
  /\ deviceHalt = 0 /\ device = "none"
  /\ job = "menus" /\ at = "start" /\ discMounted = FALSE
  /\ dvdLastUsed = FALSE /\ leaving = FALSE

----------------------------------------------------------------------------
(* devicecallback.                                                         *)

\* The first loop, of 0.2 s: only deviceHalt = 1 is looked for.
FirstTest ==
  /\ device = "first"
  /\ device' = IF deviceHalt = 1 THEN "parked first" ELSE "first nap"
  /\ UNCHANGED <<deviceHalt, main, dvdLastUsed, leaving>>

FirstNap ==
  /\ device = "first nap"
  /\ device' = "first"
  /\ UNCHANGED <<deviceHalt, main, dvdLastUsed, leaving>>

FirstLoopEnds ==
  /\ device = "first nap"
  /\ device' = "look"
  /\ UNCHANGED <<deviceHalt, main, dvdLastUsed, leaving>>

\* The drives are looked at; the motor of the DVD is stopped after a minute.
LookEnds ==
  /\ device = "look"
  /\ device' = "test"
  /\ dvdLastUsed' \in {dvdLastUsed, FALSE}
  /\ UNCHANGED <<deviceHalt, main, leaving>>

\* The loop of 2 s.
HaltTest ==
  /\ device = "test"
  /\ device' = CASE deviceHalt = 1 -> "parked" [] deviceHalt = 2 -> "gone" [] OTHER -> "nap"
  /\ UNCHANGED <<deviceHalt, main, dvdLastUsed, leaving>>

Nap ==
  /\ device = "nap"
  /\ device' \in {"test", "look"}
  /\ UNCHANGED <<deviceHalt, main, dvdLastUsed, leaving>>

\* It has been woken.
Woken ==
  /\ device = "woken"
  /\ device' = IF deviceHalt = 2 THEN "gone" ELSE "nap"
  /\ UNCHANGED <<deviceHalt, main, dvdLastUsed, leaving>>

----------------------------------------------------------------------------
(* The main thread.                                                        *)

Parked == device \in {"parked", "parked first"}

Wake == CASE device = "parked" -> "woken" [] device = "parked first" -> "first nap"
          [] OTHER -> device

\* A thread that is not there is created, as WiiMenu needs it.
ResumeDeviceThread ==
  /\ deviceHalt' = 0
  /\ device' = IF device = "none" THEN "first" ELSE Wake

SuspendDeviceThread == deviceHalt' = 1 /\ UNCHANGED device
Suspended == device = "none" \/ Parked

\* WiiMenu.
MenusBegin ==
  /\ at = "start"
  /\ ResumeDeviceThread
  /\ at' = "rest"
  /\ UNCHANGED <<job, discMounted, dvdLastUsed, leaving>>

\* LoadFile, SaveFile, Remount, LoadMPlayerFile and ResumeMPlayerFile park the
\* thread first; MountDVD too, when the DVD is not mounted.
Begin(j) ==
  /\ at = "rest"
  /\ j = "MountDVD" => ~dvdLastUsed
  /\ SuspendDeviceThread
  /\ job' = j /\ at' = "suspend" /\ discMounted' = FALSE
  /\ UNCHANGED <<dvdLastUsed, leaving>>

\* A wrong variant does not wait.
SuspendEndsAtOnce ==
  /\ at = "suspend"
  /\ at' = "work"
  /\ UNCHANGED <<deviceHalt, device, job, discMounted, dvdLastUsed, leaving>>
SuspendEnds ==
  /\ at = "suspend" /\ Suspended
  /\ at' = "work"
  /\ UNCHANGED <<deviceHalt, device, job, discMounted, dvdLastUsed, leaving>>

\* ChangeInterface of LoadFile and SaveFile: the file is on a DVD.
MountBegins ==
  /\ at = "work" /\ job \in {"LoadFile", "SaveFile"} /\ ~dvdLastUsed
  /\ SuspendDeviceThread
  /\ at' = "mount"
  /\ UNCHANGED <<job, discMounted, dvdLastUsed, leaving>>

Mounting ==
  /\ at = "mount" /\ Suspended
  /\ at' = "mounting"
  /\ UNCHANGED <<deviceHalt, device, job, discMounted, dvdLastUsed, leaving>>

MountEnds ==
  /\ at = "mounting"
  /\ dvdLastUsed' \in BOOLEAN
  /\ ResumeDeviceThread
  /\ discMounted' = TRUE /\ at' = "work"
  /\ UNCHANGED <<job, leaving>>

\* The work is done.  SaveFile resumes the thread unless the machine is to be
\* switched off, LoadNewFile unless a video is shown; ResumeMPlayerFile does not.
WorkEnds ==
  /\ at = "work"
  /\ \/ /\ job = "SaveFile" => ~leaving
        /\ job # "ResumeMPlayerFile"
        /\ ResumeDeviceThread
     \/ /\ job \in {"LoadMPlayerFile", "ResumeMPlayerFile"} \/ (job = "SaveFile" /\ leaving)
        /\ UNCHANGED <<deviceHalt, device>>
  /\ dvdLastUsed' \in IF job = "MountDVD" THEN BOOLEAN ELSE {dvdLastUsed}
  /\ at' = "rest" /\ job' = "menus"
  /\ UNCHANGED <<discMounted, leaving>>

\* The menus go: StopDeviceThread.
StopDeviceThread ==
  /\ at = "rest"
  /\ deviceHalt' = 2 /\ device' = Wake
  /\ at' = "join"
  /\ UNCHANGED <<job, discMounted, dvdLastUsed, leaving>>

Joined ==
  /\ at = "join" /\ device = "gone"
  /\ device' = "none"
  /\ at' = "film"
  /\ UNCHANGED <<deviceHalt, job, discMounted, dvdLastUsed, leaving>>

\* The film ends, and the menus come back, or the program ends: there
\* SuspendDeviceThread finds no thread.
FilmEnds ==
  /\ at = "film" /\ ~leaving
  /\ at' = "start"
  /\ UNCHANGED <<deviceHalt, device, job, discMounted, dvdLastUsed, leaving>>

ProgramEnds ==
  /\ at = "film" /\ leaving
  /\ SuspendDeviceThread /\ Suspended
  /\ at' = "end"
  /\ UNCHANGED <<job, discMounted, dvdLastUsed, leaving>>

HomeButton ==
  /\ at \notin {"start", "join", "film", "end"}
  /\ leaving' = TRUE
  /\ UNCHANGED <<deviceHalt, device, main, dvdLastUsed>>

Jobs == {"LoadFile", "SaveFile", "MountDVD", "Remount", "LoadMPlayerFile", "ResumeMPlayerFile"}

DeviceStep == FirstTest \/ FirstNap \/ FirstLoopEnds \/ LookEnds \/ HaltTest \/ Nap \/ Woken
MainMust == MenusBegin \/ SuspendEnds \/ Mounting \/ Joined \/ ProgramEnds
MainMay ==
  \/ (\E j \in Jobs : Begin(j)) \/ MountBegins \/ MountEnds \/ WorkEnds
  \/ StopDeviceThread \/ FilmEnds

Next == DeviceStep \/ MainMust \/ MainMay \/ HomeButton

Spec == Init /\ [][Next]_vars

\* Both threads go on, and the first loop is over after 0.2 s.
FairSpec == Spec /\ WF_vars(DeviceStep) /\ WF_vars(MainMust) /\ SF_vars(FirstLoopEnds)

----------------------------------------------------------------------------
\* Each variable has its type.
TypeOK ==
  /\ deviceHalt \in 0..2
  /\ device \in {"none", "first", "first nap", "parked first", "look", "test", "nap",
                 "parked", "woken", "gone"}
  /\ job \in Jobs \union {"menus"}
  /\ at \in {"start", "rest", "suspend", "work", "mount", "mounting", "join", "film", "end"}
  /\ {discMounted, dvdLastUsed, leaving} \subseteq BOOLEAN

\* While a drive is read, written or mounted the device thread does not look at
\* the drives, unless the job has mounted the DVD on its way (fileop.cpp:2713,
\* 2800).
QuietDuringJobs == at \in {"work", "mounting"} /\ ~discMounted => Suspended

\* Every wait of the main thread for the device thread ends.
DeviceAnswers ==
  at \in {"suspend", "mount", "join"} ~> at \notin {"suspend", "mount", "join"}
=============================================================================
