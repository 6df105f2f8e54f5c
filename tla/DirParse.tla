------------------------------ MODULE DirParse ------------------------------
(***************************************************************************)
(* Reading a folder into the browser's list (fileop.cpp, filebrowser.cpp).  *)
(* The main thread opens the folder and reads its first entries, the parse   *)
(* thread the others, a batch at a time; each sorts the list after a batch.   *)
(* The parse thread rests suspended.  Whoever is about to use the drive asks  *)
(* it to stop by parseHalt and waits until it is suspended: the main thread,   *)
(* and the thread that loads a picture for the selected entry.               *)
(*                                                                         *)
(* The list is the sequence of its names: its links are BrowserList's.  The   *)
(* listing of the drives, of a playlist and of the music playlist is no       *)
(* folder, and empty here.                                                  *)
(***************************************************************************)
EXTENDS Naturals, Sequences, FiniteSets, Functions

CONSTANTS Folder,    \* the folders
          Entries,   \* what a folder holds, in the drive's order
          Above,     \* the folders above a folder
          Listed,    \* the entries a listing shows: folders and allowed files
          Subtitle,  \* the subtitles
          Rank,      \* the place of an entry in FileSortCallback's order
          Up,        \* the entry ".."
          NoFolder,  \* no folder is shown
          Batch,     \* the entries one call of ParseDirEntries adds (20)
          Artwork,   \* WiiSettings.artwork: pictures are loaded for the entries
          Shortage   \* memory may run out

Names == {Up} \union UNION {{Entries[d][k] : k \in 1..Len(Entries[d])} : d \in Folder}

ASSUME FolderAssumption ==
  /\ Up \notin Listed \union Subtitle /\ NoFolder \notin Folder
  /\ Above \in [Folder -> SUBSET Folder] /\ Rank \in [Names -> Nat]
  /\ Entries \in [Folder -> Seq(Names)]
  /\ Batch \in Nat \ {0} /\ Artwork \in BOOLEAN /\ Shortage \in BOOLEAN
  /\ \A d \in Folder : \A j, k \in 1..Len(Entries[d]) : Entries[d][j] = Entries[d][k] => j = k

VARIABLES parseHalt,   \* 0 run, 1 suspend, 2 stop
          parsethread, \* the thread: "none", "runs", "suspended", "ended"
          at,          \* where the main, parse and thumb threads are
          i, entry,    \* locals of ParseDirEntries: entries added, entry # NULL
          dirHandle,   \* a directory is open
          left,        \* what is left to read of it
          list, subs,  \* browser and browserSubs
          dir,         \* the folder that was opened last
          goal,        \* what the main thread suspends the parse thread for
          thumbLoad,   \* a picture is wanted
          subtitleVisibility, \* of WiiSettings
          opened,      \* the folder that dirHandle belongs to
          cut, warned, lostUp \* since the folder was opened: parseHalt ended its
                       \* reading; the user was told that entries are missing;
                       \* and ever: a folder was left open for want of memory
                       \* (opened, cut, warned and lostUp only observe)

listing == <<list, subs, dir>>
reading == <<dirHandle, left, i, entry, opened, cut, warned, lostUp>>
thread  == <<parseHalt, parsethread>>
vars    == <<thread, at, reading, listing, goal, thumbLoad, subtitleVisibility>>

Threads == {"main", "parse", "thumb"}
Labels == {"enter", "read", "prompt", "sort", "close",
           "outside", "start", "menus", "browse", "halt", "open", "resume", "wait", "load",
           "join", "stop", "top", "parked", "nap", "off", "ready", "picture"}

(* The points inside ParseDirEntries.                                       *)
Inside == {"enter", "read", "prompt", "sort", "close"}

Goals == {"playlist", "file", "done", NoFolder} \union Folder

Elements(s) == {s[k] : k \in 1..Len(s)}

ThreadsOK == parsethread \in {"none", "runs", "suspended", "ended"} /\ at \in [Threads -> Labels]

TypeOK ==
  /\ ThreadsOK /\ parseHalt \in 0..2
  /\ i \in [{"main", "parse"} -> 0..Batch] /\ entry \in [{"main", "parse"} -> BOOLEAN]
  /\ dirHandle \in BOOLEAN /\ left \in Seq(Names)
  /\ list \in Seq(Names) /\ subs \in Seq(Names)
  /\ dir \in Folder \union {NoFolder} /\ opened \in Folder \union {NoFolder} /\ goal \in Goals
  /\ thumbLoad \in BOOLEAN /\ subtitleVisibility \in BOOLEAN
  /\ cut \in BOOLEAN /\ warned \in BOOLEAN /\ lostUp \in BOOLEAN

Init ==
  /\ parseHalt = 0 /\ parsethread = "none"
  /\ at = [main |-> "outside", parse |-> "top", thumb |-> "off"]
  /\ i = [t \in {"main", "parse"} |-> 0] /\ entry = [t \in {"main", "parse"} |-> FALSE]
  /\ dirHandle = FALSE /\ left = <<>> /\ opened = NoFolder
  /\ list = <<>> /\ subs = <<>> /\ dir = NoFolder /\ goal = NoFolder
  /\ thumbLoad = FALSE /\ subtitleVisibility \in BOOLEAN
  /\ cut = FALSE /\ warned = FALSE /\ lostUp = FALSE

At(t, label) == at[t] = label
Goto(t, label) == at' = [at EXCEPT ![t] = label]

-----------------------------------------------------------------------------
(* ParseDirEntries, in the main or in the parse thread.                     *)

(* What its caller does then: the main thread wakes the parse thread; the    *)
(* parse thread sleeps and calls it again, or suspends itself.              *)
Return(t, more) ==
  Goto(t, IF t = "main" THEN "resume" ELSE IF more THEN "nap" ELSE "top")

Enter(t) ==
  /\ At(t, "enter")
  /\ IF dirHandle
     THEN /\ i' = [i EXCEPT ![t] = 0] /\ entry' = [entry EXCEPT ![t] = FALSE]
          /\ Goto(t, "read")
     ELSE Return(t, FALSE) /\ UNCHANGED <<i, entry>>
  /\ UNCHANGED <<dirHandle, left, opened, cut, warned, lostUp>>
  /\ UNCHANGED <<thread, listing, goal, thumbLoad, subtitleVisibility>>

(* The menu is that of the videos: subtitles are kept apart.                 *)
FindSubtitle(f) == subs' = IF f \in Subtitle THEN Append(subs, f) ELSE subs

(* Mutant: an entry is read before the batch is found full.                  *)
ReadEntryFirst(t) ==
  /\ At(t, "read") /\ parseHalt = 0 /\ left # <<>>
  /\ left' = Tail(left) /\ entry' = [entry EXCEPT ![t] = TRUE]
  /\ IF i[t] < Batch
     THEN /\ FindSubtitle(Head(left)) /\ UNCHANGED at
          /\ IF Head(left) \in Listed
             THEN list' = Append(list, Head(left)) /\ i' = [i EXCEPT ![t] = @ + 1]
             ELSE UNCHANGED <<list, i>>
     ELSE Goto(t, "sort") /\ UNCHANGED <<i, list, subs>>
  /\ UNCHANGED <<thread, dir, goal, thumbLoad, subtitleVisibility, dirHandle, opened, cut, warned, lostUp>>

(* One round of the loop: the entry is skipped, or added to the list.        *)
ReadEntry(t) ==
  /\ At(t, "read") /\ i[t] < Batch /\ parseHalt = 0 /\ left # <<>>
  /\ LET f == Head(left)
     IN  /\ left' = Tail(left) /\ entry' = [entry EXCEPT ![t] = TRUE]
         /\ FindSubtitle(f)
         /\ IF f \in Listed
            THEN list' = Append(list, f) /\ i' = [i EXCEPT ![t] = @ + 1]
            ELSE UNCHANGED <<list, i>>
  /\ UNCHANGED <<thread, at, dir, goal, thumbLoad, subtitleVisibility, dirHandle, opened, cut, warned, lostUp>>

(* There is no memory for the entry or its name: the user is told.  (Without    *)
(* memory for a subtitle's entry the code reads a null pointer instead.)      *)
ReadNoMemory(t) ==
  /\ Shortage /\ At(t, "read") /\ i[t] < Batch /\ parseHalt = 0 /\ left # <<>>
  /\ Head(left) \in Listed \union Subtitle
  /\ left' = Tail(left) /\ entry' = [entry EXCEPT ![t] = FALSE]
  /\ warned' = TRUE /\ Goto(t, "prompt")
  /\ UNCHANGED <<thread, listing, goal, thumbLoad, subtitleVisibility, dirHandle, i, opened, cut, lostUp>>

InfoPromptClosed(t) ==
  /\ At(t, "prompt") /\ Goto(t, "sort")
  /\ UNCHANGED <<thread, reading, listing, goal, thumbLoad, subtitleVisibility>>

(* The batch is full, the thread is to halt, or the folder has been read.    *)
ReadEnds(t) ==
  /\ At(t, "read") /\ (i[t] = Batch \/ parseHalt # 0 \/ left = <<>>)
  /\ entry' = [entry EXCEPT ![t] = @ /\ (i[t] = Batch \/ parseHalt # 0)]
  /\ Goto(t, "sort")
  /\ UNCHANGED <<thread, listing, goal, thumbLoad, subtitleVisibility,
                 dirHandle, left, i, opened, cut, warned, lostUp>>

(* SortBrowser with FileSortCallback.                                       *)
InOrder(s) == \A j, k \in 1..Len(s) : j < k => Rank[s[j]] <= Rank[s[k]]

Sorted(s) ==
  {t \in {[k \in 1..Len(s) |-> s[p[k]]] : p \in Bijection(1..Len(s), 1..Len(s))} : InOrder(t)}

(* Mutant: the list is not sorted once the thread is to halt.                *)
SortNotHalted(t) ==
  /\ At(t, "sort") /\ Goto(t, "close")
  /\ IF i[t] > 0 /\ parseHalt = 0 THEN list' \in Sorted(list) ELSE list' = list
  /\ UNCHANGED <<thread, reading, subs, dir, goal, thumbLoad, subtitleVisibility>>

(* A list to which nothing was added is not sorted again.                    *)
Sort(t) ==
  /\ At(t, "sort") /\ Goto(t, "close")
  /\ IF i[t] > 0 THEN list' \in Sorted(list) ELSE list' = list
  /\ UNCHANGED <<thread, reading, subs, dir, goal, thumbLoad, subtitleVisibility>>

Close(t) ==
  /\ At(t, "close")
  /\ IF ~entry[t] \/ parseHalt # 0
     THEN /\ dirHandle' = FALSE /\ left' = <<>> /\ cut' = (cut \/ parseHalt # 0)
          /\ Return(t, FALSE)
     ELSE UNCHANGED <<dirHandle, left, cut>> /\ Return(t, TRUE)
  /\ UNCHANGED <<thread, listing, goal, thumbLoad, subtitleVisibility, i, entry, opened, warned, lostUp>>

ParseDirEntries(t) == Enter(t) \/ ReadEntry(t) \/ ReadEnds(t) \/ Sort(t) \/ Close(t)

-----------------------------------------------------------------------------
(* The parse thread (parsecallback).                                        *)

SuspendSelf ==
  /\ At("parse", "top") /\ parsethread = "runs"
  /\ parsethread' = "suspended" /\ Goto("parse", "parked")
  /\ UNCHANGED <<parseHalt, reading, listing, goal, thumbLoad, subtitleVisibility>>

Woken ==
  /\ At("parse", "parked") /\ parsethread = "runs"
  /\ IF parseHalt = 2 THEN parsethread' = "ended" /\ UNCHANGED at
                      ELSE Goto("parse", "enter") /\ UNCHANGED parsethread
  /\ UNCHANGED <<parseHalt, reading, listing, goal, thumbLoad, subtitleVisibility>>

Slept ==
  /\ At("parse", "nap") /\ Goto("parse", "enter")
  /\ UNCHANGED <<thread, reading, listing, goal, thumbLoad, subtitleVisibility>>

ParseStep == SuspendSelf \/ Woken \/ Slept \/ ParseDirEntries("parse")

-----------------------------------------------------------------------------
(* SuspendParseThread.                                                      *)
Suspend(t) == parseHalt' = 1 /\ Goto(t, "halt")

(* Mutant: the caller does not wait.                                        *)
SuspendedNotYet(t) == At(t, "halt")

Suspended(t) == At(t, "halt") /\ parsethread \in {"none", "suspended"}

(* ThumbThread loads the picture of the selected entry by LoadFile, which    *)
(* suspends the parse thread and leaves it so.                              *)
LoadPicture ==
  /\ At("thumb", "ready") /\ thumbLoad
  /\ thumbLoad' = FALSE /\ Suspend("thumb")
  /\ UNCHANGED <<parsethread, reading, listing, goal, subtitleVisibility>>

ReadPicture ==
  /\ Suspended("thumb") /\ Goto("thumb", "picture")
  /\ UNCHANGED <<thread, reading, listing, goal, thumbLoad, subtitleVisibility>>

PictureLoaded ==
  /\ At("thumb", "picture") /\ Goto("thumb", "ready")
  /\ UNCHANGED <<thread, reading, listing, goal, thumbLoad, subtitleVisibility>>

ThumbStep == LoadPicture \/ ReadPicture \/ PictureLoaded

-----------------------------------------------------------------------------
(* The main thread.                                                         *)

(* In MenuBrowse another entry is selected: its picture is wanted; ".." has     *)
(* none.                                                                    *)
Hover ==
  /\ At("main", "browse") /\ Artwork /\ ~ (Elements(list) \subseteq {Up})
  /\ thumbLoad' = TRUE
  /\ UNCHANGED <<thread, at, reading, listing, goal, subtitleVisibility>>

(* A folder, the drives, a playlist or a file is chosen, the button that      *)
(* shows the music playlist, or MenuBrowse is left.  With subtitles a file     *)
(* does not stop the parse thread: it waits for it.                          *)
Choose(g) ==
  /\ At("main", "browse") /\ goal' = g
  /\ IF g = "file" /\ subtitleVisibility THEN Goto("main", "wait") /\ UNCHANGED parseHalt
                                         ELSE Suspend("main")
  /\ UNCHANGED <<parsethread, reading, listing, thumbLoad, subtitleVisibility>>

(* BrowserChangeFolder: ResetFiles, and no folder to open.                   *)
ShowOther ==
  /\ Suspended("main") /\ goal \in {"playlist", NoFolder}
  /\ list' = <<>> /\ subs' = <<>> /\ dir' = NoFolder /\ Goto("main", "browse")
  /\ UNCHANGED <<thread, reading, goal, thumbLoad, subtitleVisibility>>

(* A playlist that cannot be read: the listing stays.                        *)
KeepListing ==
  /\ Suspended("main") /\ goal = "playlist" /\ list # <<>> /\ Goto("main", "browse")
  /\ UNCHANGED <<thread, reading, listing, goal, thumbLoad, subtitleVisibility>>

(* ParseDirectory, whose own call of SuspendParseThread finds the thread       *)
(* suspended: ResetFiles.                                                   *)
ResetFiles ==
  /\ Suspended("main") /\ goal \in Folder
  /\ list' = <<>> /\ subs' = <<>> /\ dir' = NoFolder /\ Goto("main", "open")
  /\ UNCHANGED <<thread, reading, goal, thumbLoad, subtitleVisibility>>

(* The folder or one above it is opened, and ".." is added; a directory that   *)
(* was left open is not opened again.                                       *)
Open(d) ==
  /\ At("main", "open") /\ d \in {goal} \union Above[goal]
  /\ dirHandle => d = goal
  /\ IF dirHandle THEN UNCHANGED <<left, opened>> ELSE left' = Entries[d] /\ opened' = d
  /\ dirHandle' = TRUE
  /\ dir' = d /\ cut' = FALSE /\ warned' = FALSE
  /\ \/ /\ list' = <<Up>> /\ parseHalt' = 0 /\ Goto("main", "enter") /\ UNCHANGED lostUp
     \/ /\ Shortage /\ lostUp' = TRUE /\ Goto("main", "browse") /\ UNCHANGED <<list, parseHalt>>
  /\ UNCHANGED <<parsethread, i, entry, subs, goal, thumbLoad, subtitleVisibility>>

(* None can be opened: the drives are listed.                                *)
OpenFails ==
  /\ At("main", "open") /\ ~dirHandle /\ Goto("main", "browse")
  /\ UNCHANGED <<thread, reading, listing, goal, thumbLoad, subtitleVisibility>>

(* Mutant: the parse thread is not woken for the rest.                       *)
ResumeNot ==
  /\ At("main", "resume") /\ Goto("main", "browse")
  /\ UNCHANGED <<thread, reading, listing, goal, thumbLoad, subtitleVisibility>>

(* ResumeParseThread at the end of ParseDirectory.                          *)
Resume ==
  /\ At("main", "resume") /\ Goto("main", "browse")
  /\ parseHalt' = 0
  /\ parsethread' = IF parsethread = "suspended" THEN "runs" ELSE parsethread
  /\ UNCHANGED <<reading, listing, goal, thumbLoad, subtitleVisibility>>

(* LoadMPlayerFile: wiiLoadFile, which looks for subtitles.  A song leaves    *)
(* the listing as it is; for a film MenuBrowse is left.                      *)
ParseDone ==
  /\ At("main", "wait") /\ parsethread \in {"none", "suspended"} /\ Goto("main", "load")
  /\ UNCHANGED <<thread, reading, listing, goal, thumbLoad, subtitleVisibility>>

LoadHalted ==
  /\ Suspended("main") /\ goal = "file" /\ Goto("main", "load")
  /\ UNCHANGED <<thread, reading, listing, goal, thumbLoad, subtitleVisibility>>

Loaded ==
  /\ At("main", "load")
  /\ \/ Goto("main", "browse") /\ UNCHANGED <<parseHalt, goal>>
     \/ goal' = "done" /\ Suspend("main")
  /\ UNCHANGED <<parsethread, reading, listing, thumbLoad, subtitleVisibility>>

(* Mutant: MenuBrowse is left while the parse thread may still read.         *)
LeaveBrowseNow ==
  /\ At("main", "halt") /\ goal = "done" /\ Goto("main", "join")
  /\ UNCHANGED <<thread, reading, listing, goal, thumbLoad, subtitleVisibility>>

(* "done:" in MenuBrowse: the thumb thread is joined.                        *)
LeaveBrowse ==
  /\ Suspended("main") /\ goal = "done" /\ Goto("main", "join")
  /\ UNCHANGED <<thread, reading, listing, goal, thumbLoad, subtitleVisibility>>

JoinThumb ==
  /\ At("main", "join") /\ at["thumb"] \in {"ready", "off"}
  /\ at' = [at EXCEPT !["main"] = "menus", !["thumb"] = "off"] /\ thumbLoad' = FALSE
  /\ UNCHANGED <<thread, reading, listing, goal, subtitleVisibility>>

(* WiiMenu starts MenuBrowse, which shows the folder of its menu.            *)
MenuBrowse(d) ==
  /\ At("main", "menus") /\ goal' = d
  /\ list' = <<>> /\ subs' = <<>> /\ dir' = NoFolder /\ parseHalt' = 1
  /\ at' = [at EXCEPT !["main"] = "halt", !["thumb"] = IF Artwork THEN "ready" ELSE "off"]
  /\ UNCHANGED <<parsethread, reading, thumbLoad, subtitleVisibility>>

(* Mutant: the suspended thread is not woken to end.                         *)
StopParseThreadNot ==
  /\ At("main", "menus") /\ Goto("main", "stop") /\ parseHalt' = 2
  /\ UNCHANGED <<parsethread, reading, listing, goal, thumbLoad, subtitleVisibility>>

(* StopParseThread at the end of WiiMenu.                                   *)
StopParseThread ==
  /\ At("main", "menus") /\ Goto("main", "stop")
  /\ parseHalt' = 2 /\ parsethread' = IF parsethread = "suspended" THEN "runs" ELSE parsethread
  /\ UNCHANGED <<reading, listing, goal, thumbLoad, subtitleVisibility>>

JoinParse ==
  /\ At("main", "stop") /\ parsethread = "ended"
  /\ parsethread' = "none" /\ Goto("main", "outside")
  /\ UNCHANGED <<parseHalt, reading, listing, goal, thumbLoad, subtitleVisibility>>

(* WiiMenu begins: ResumeParseThread creates the thread, which suspends       *)
(* itself while the main thread starts the menus' other threads.             *)
WiiMenu ==
  /\ At("main", "outside")
  /\ parseHalt' = 0 /\ parsethread' = "runs"
  /\ at' = [at EXCEPT !["main"] = "start", !["parse"] = "top"]
  /\ UNCHANGED <<reading, listing, goal, thumbLoad, subtitleVisibility>>

Started ==
  /\ At("main", "start") /\ parsethread = "suspended" /\ Goto("main", "menus")
  /\ UNCHANGED <<thread, reading, listing, goal, thumbLoad, subtitleVisibility>>

UserStep ==
  \/ Hover \/ StopParseThread \/ WiiMenu
  \/ \E g \in Goals : Choose(g)
  \/ \E d \in Folder : MenuBrowse(d)
  \/ \E t \in {"main", "parse"} : ReadNoMemory(t) \/ InfoPromptClosed(t)

MainStep ==
  \/ ParseDirEntries("main")
  \/ ShowOther \/ KeepListing \/ ResetFiles \/ OpenFails \/ (\E d \in Folder : Open(d))
  \/ Resume \/ ParseDone \/ LoadHalted \/ Loaded \/ LeaveBrowse \/ JoinThumb \/ JoinParse \/ Started

Next == UserStep \/ MainStep \/ ParseStep \/ ThumbStep

Spec == Init /\ [][Next]_vars

Fairness == WF_vars(MainStep) /\ WF_vars(ParseStep) /\ WF_vars(ThumbStep)

FairSpec == Spec /\ Fairness

-----------------------------------------------------------------------------
(* What each thread may rely on: a suspended parse thread is at the call that   *)
(* suspends it, one that is no more reads nothing, it is only told to end when  *)
(* the menus are left, and between the main thread's wait in                 *)
(* SuspendParseThread and its next ResumeParseThread or StopParseThread the    *)
(* parse thread is suspended.                                               *)
Handshake ==
  /\ parsethread = "suspended" => at["parse"] = "parked"
  /\ parsethread \in {"none", "ended"} => at["parse"] \in {"top", "parked"}
  /\ parsethread = "none" <=> at["main"] = "outside"
  /\ parseHalt = 2 => at["main"] \in {"stop", "outside"}
  /\ parsethread = "ended" => at["main"] = "stop"
  /\ at["main"] \in Inside \union {"open", "resume", "join", "menus"} => parsethread = "suspended"

IInv == TypeOK /\ Handshake

(* The open directory has one reader at a time: the parse thread is outside    *)
(* ParseDirEntries as long as the main thread is in ParseDirectory.           *)
OneReader == at["main"] \in Inside \union {"open", "resume"} => at["parse"] \notin Inside

(* A listing is replaced, and its entries are freed, only while the parse      *)
(* thread is at rest.                                                       *)
ResetSafely == [][dir' # dir => at["parse"] \in {"top", "parked"}]_vars

(* As long as the directory is open, every entry to be shown is either in the  *)
(* list, once, or still to be read, whoever reads; unless memory ran out.  (A    *)
(* folder's own ".." is passed over.)                                       *)
Conserved ==
  dirHandle /\ ~warned /\ ~lostUp /\ at["main"] # "open" /\ dir # NoFolder =>
    /\ Elements(list) \intersect Elements(left) \subseteq {Up}
    /\ Cardinality(Elements(list)) = Len(list)
    /\ Elements(list) \union (Elements(left) \intersect Listed)
         = {Up} \union (Elements(Entries[dir]) \intersect Listed)

(* Whenever no batch is being read, the list is sorted, with ".." first.      *)
SortedAtRest ==
  at["main"] \notin Inside /\ at["parse"] \notin Inside => InOrder(list)

Resting == at["main"] \in {"browse", "load"} /\ parsethread = "suspended"

(* When the thread rests it has found everything in the folder, or a request   *)
(* to halt has ended it, or the user has been told.                         *)
IndexedUnlessCut ==
  Resting /\ dir # NoFolder /\ ~cut /\ ~warned /\ ~lostUp =>
    /\ Elements(list) = {Up} \union (Elements(Entries[dir]) \intersect Listed)
    /\ Elements(subs) = Elements(Entries[dir]) \intersect Subtitle

(* When a file is loaded and subtitles are to be shown, the folder's           *)
(* subtitles have been found.                                               *)
SubtitlesFound ==
  at["main"] = "load" /\ subtitleVisibility /\ dir # NoFolder =>
    Elements(Entries[dir]) \intersect Subtitle \subseteq Elements(subs)

(* Each wait of the main thread for another thread ends, unless the user is    *)
(* asked to confirm a message.                                              *)
MainReturns ==
  at["main"] \in {"halt", "wait", "join", "stop", "start"} ~>
    \/ at["main"] \notin {"halt", "wait", "join", "stop", "start"}
    \/ at["parse"] = "prompt"
=============================================================================
