----------------------------- MODULE GuiWindows -----------------------------
(***************************************************************************)
(* Who changes what the GUI draws (menu.cpp, libwiigui/gui_window.cpp).    *)
(* The GUI thread draws the elements of the main window frame by frame.    *)
(* The main thread opens prompts, the progress thread a window that shows  *)
(* what the main thread or the player is busy with; each lives on its      *)
(* thread's stack and is gone when the function returns.  A thread that    *)
(* changes the elements parks the GUI thread first (SuspendGui) and wakes  *)
(* it afterwards (ResumeGui); the progress thread itself is parked by      *)
(* CancelAction.  Flags and polling, no locks and no counting.             *)
(*                                                                         *)
(* The main thread (64) preempts the GUI and the progress thread (60) and  *)
(* is preempted by the player (68) only, which here runs while the main    *)
(* thread waits for it: what each of them does between two sleeps is one   *)
(* action.  The GUI and the progress thread are preempted anywhere.        *)
(***************************************************************************)
EXTENDS Naturals

VARIABLES
  guiHalt,            \* 0 run, 1 park, 2 end
  frame,              \* where the GUI thread is
  drawn,              \* what it draws in this frame
  elements,           \* what the main window holds besides the menu's own
  state,              \* STATE_DEFAULT or STATE_DISABLED of the main window
  alive,              \* the windows that exist
  showProgress,       \* 0 no, 1 a bar, 2 a throbber
  progressThreadHalt, \* 0 run, 1 park, 2 end
  window,             \* where the progress thread is
  added, oldState,    \* the locals of ProgressWindow
  place,              \* where the main thread is
  returns,            \* where it goes on after CancelAction, after a prompt
  over,               \* local of WindowPrompt: the menu was disabled before
  opener,             \* where the player is
  guiShutdown, ExitRequested

gui      == <<guiHalt, frame, drawn>>
screen   == <<elements, state, alive>>
progress == <<showProgress, progressThreadHalt>>
own      == <<window, added, oldState>>
main     == <<place, returns, over>>
flags    == <<guiShutdown, ExitRequested>>
vars == <<gui, screen, progress, own, main, opener, flags>>

\* StartGuiThreads: the threads park themselves at once.
StartGuiThreads ==
  /\ guiHalt' = 1 /\ frame' = "top"
  /\ showProgress' = 0 /\ progressThreadHalt' = 1 /\ window' = "top"

Init ==
  /\ guiHalt = 1 /\ frame = "top" /\ drawn = {}
  /\ elements = {} /\ state = "default" /\ alive = {}
  /\ showProgress = 0 /\ progressThreadHalt = 1
  /\ window = "top" /\ added = FALSE /\ oldState = "default"
  /\ place = "start" /\ returns = [cancel |-> "work", prompt |-> "menu"] /\ over = FALSE
  /\ opener = "idle"
  /\ guiShutdown = FALSE /\ ExitRequested = FALSE

----------------------------------------------------------------------------
(* The GUI thread.                                                         *)

GuiParks ==
  /\ frame = "top" /\ guiHalt = 1
  /\ frame' = "parked"
  /\ UNCHANGED <<guiHalt, drawn, screen, progress, own, main, opener, flags>>

\* Woken, the thread does not look whether it is to park again.
FrameBegins ==
  /\ \/ frame = "top" /\ guiHalt = 0
     \/ frame = "woken" /\ guiHalt # 2
  /\ frame' = "draw" /\ drawn' = elements
  /\ UNCHANGED <<guiHalt, screen, progress, own, main, opener, flags>>

GuiEnds ==
  /\ frame \in {"top", "woken"} /\ guiHalt = 2
  /\ frame' = "gone"
  /\ UNCHANGED <<guiHalt, drawn, screen, progress, own, main, opener, flags>>

FrameEnds ==
  /\ frame = "draw" /\ ~ExitRequested
  /\ frame' = "top" /\ drawn' = {}
  /\ UNCHANGED <<guiHalt, screen, progress, own, main, opener, flags>>

HomeButton ==
  /\ frame = "draw"
  /\ ExitRequested' = TRUE
  /\ UNCHANGED <<gui, screen, progress, own, main, opener, guiShutdown>>

\* The screen has faded to black.
GuiExits ==
  /\ frame = "draw" /\ ExitRequested
  /\ guiShutdown' = TRUE /\ guiHalt' = 1
  /\ frame' = "top" /\ drawn' = {}
  /\ UNCHANGED <<screen, progress, own, main, opener, ExitRequested>>

\* The exit thread, which it has started, switches off whatever the main thread
\* does.
ExitThread ==
  /\ ExitRequested /\ guiShutdown /\ frame # "draw" /\ place # "over"
  /\ place' = "over"
  /\ UNCHANGED <<gui, screen, progress, own, returns, over, opener, flags>>

\* LWP_ResumeThread, which does nothing to a thread that runs.
Woken(t) == IF t = "parked" THEN "woken" ELSE t

ResumeGui ==
  /\ guiHalt' = IF guiShutdown THEN guiHalt ELSE 0
  /\ frame' = IF guiShutdown THEN frame ELSE Woken(frame)
  /\ UNCHANGED drawn

\* SuspendGui sets the flag, then polls.
AskGui == guiHalt' = 1 /\ UNCHANGED <<frame, drawn>>
GuiParked == frame = "parked"

----------------------------------------------------------------------------
(* The progress thread.                                                    *)

ProgressParks ==
  /\ window = "top" /\ progressThreadHalt = 1
  /\ window' = "parked"
  /\ UNCHANGED <<gui, screen, progress, added, oldState, main, opener, flags>>

ProgressEnds ==
  /\ window \in {"top", "woken"} /\ progressThreadHalt = 2
  /\ window' = "gone"
  /\ UNCHANGED <<gui, screen, progress, added, oldState, main, opener, flags>>

\* ProgressWindow is entered.
WindowMade ==
  /\ \/ window = "top" /\ progressThreadHalt = 0
     \/ window = "woken" /\ progressThreadHalt # 2
  /\ window' = "made" /\ alive' = alive \union {"progress"}
  /\ UNCHANGED <<gui, elements, state, progress, added, oldState, main, opener, flags>>

\* It waits up to 0.4 s, to see if the action is short.
Cancelled == showProgress = 0 \/ progressThreadHalt > 0

WindowUnused ==
  /\ window = "made" /\ Cancelled
  /\ window' = "top" /\ alive' = alive \ {"progress"}
  /\ UNCHANGED <<gui, elements, state, progress, added, oldState, main, opener, flags>>

WindowWanted ==
  /\ window = "made" /\ ~Cancelled
  /\ AskGui
  /\ window' = "enter"
  /\ UNCHANGED <<screen, progress, added, oldState, main, opener, flags>>

\* The polling loop ends; the main thread may come in between.
SeesGuiParked ==
  /\ window \in {"enter", "leave"} /\ GuiParked
  /\ window' = IF window = "enter" THEN "add" ELSE "remove"
  /\ UNCHANGED <<gui, screen, progress, added, oldState, main, opener, flags>>

WindowShown ==
  /\ window = "add"
  /\ oldState' = state /\ added' = ("disabled" \notin elements)
  /\ state' = "disabled" /\ elements' = elements \union {"disabled", "progress"}
  /\ window' = IF guiShutdown THEN "shown" ELSE "wake"
  /\ UNCHANGED <<gui, alive, progress, main, opener, flags>>

WindowCancelled ==
  /\ window = "shown" /\ Cancelled
  /\ AskGui
  /\ window' = "leave"
  /\ UNCHANGED <<screen, progress, added, oldState, main, opener, flags>>

WindowRemoved ==
  /\ window = "remove"
  /\ elements' = (elements \ {"progress"}) \ (IF added THEN {"disabled"} ELSE {})
  /\ state' = oldState
  /\ window' = IF guiShutdown THEN "top" ELSE "last"
  /\ alive' = IF guiShutdown THEN alive \ {"progress"} ELSE alive
  /\ UNCHANGED <<gui, progress, added, oldState, main, opener, flags>>

\* The rest of ResumeGui, whose test of guiShutdown is behind: the player may
\* set it in between.
ResumesGui ==
  /\ window \in {"wake", "last"}
  /\ guiHalt' = 0 /\ frame' = Woken(frame)
  /\ window' = IF window = "wake" THEN "shown" ELSE "top"
  /\ alive' = IF window = "wake" THEN alive ELSE alive \ {"progress"}
  /\ UNCHANGED <<drawn, elements, state, progress, added, oldState, main, opener, flags>>

----------------------------------------------------------------------------
(* The main thread.                                                        *)

\* WiiMenu.
MenuBegins ==
  /\ place = "start"
  /\ ResumeGui
  /\ place' = "menu"
  /\ UNCHANGED <<screen, progress, own, returns, over, opener, flags>>

\* CancelAction sets two flags, then polls.
CancelFlags == showProgress' = 0 /\ progressThreadHalt' = 1
ProgressParked == window = "parked"

CancelAction(then) ==
  /\ CancelFlags
  /\ place' = "cancel" /\ returns' = [returns EXCEPT !.cancel = then]

CancelEnds ==
  /\ place = "cancel" /\ ProgressParked
  /\ place' = returns.cancel
  /\ UNCHANGED <<gui, screen, progress, own, returns, over, opener, flags>>

\* A file is to be loaded: the menu is disabled while the GUI draws it.
LoadBegins ==
  /\ place = "menu" /\ ~guiShutdown
  /\ elements' = elements \union {"disabled"} /\ state' = "disabled"
  /\ place' = "action"
  /\ UNCHANGED <<gui, alive, progress, own, returns, over, opener, flags>>

\* ShowAction.
NoAction ==
  /\ place = "action" /\ (guiShutdown \/ ExitRequested)
  /\ place' = "work"
  /\ UNCHANGED <<gui, screen, progress, own, returns, over, opener, flags>>

CancelOther ==
  /\ place = "action" /\ ~(guiShutdown \/ ExitRequested)
  /\ IF showProgress # 2
     THEN CancelAction("wanted")
     ELSE place' = "wanted" /\ UNCHANGED <<progress, returns>>
  /\ UNCHANGED <<gui, screen, own, over, opener, flags>>

Show(kind) ==
  /\ progressThreadHalt' = 0 /\ showProgress' = kind
  /\ window' = Woken(window) /\ UNCHANGED <<added, oldState>>

ShowAction ==
  /\ place = "wanted"
  /\ Show(2)
  /\ place' = "work"
  /\ UNCHANGED <<gui, screen, returns, over, opener, flags>>

\* What it does meanwhile may show and cancel actions of its own (networkop.cpp),
\* report an error, or wait until the player has opened the file.
WorkShows ==
  /\ place = "work"
  /\ \/ place' = "action" /\ UNCHANGED <<progress, returns>>
     \/ CancelAction("work")
  /\ UNCHANGED <<gui, screen, own, over, opener, flags>>

PlayerOpens ==
  /\ place = "work" /\ opener = "idle"
  /\ opener' = "opening" /\ place' = "wait"
  /\ UNCHANGED <<gui, screen, progress, own, returns, over, flags>>

PlayerAnswers ==
  /\ place = "wait" /\ (guiShutdown \/ opener = "idle")
  /\ place' = "work"
  /\ UNCHANGED <<gui, screen, progress, own, returns, over, opener, flags>>

\* A wrong variant does not wait for the progress window.
WorkDoneAtOnce ==
  /\ place = "work"
  /\ CancelFlags
  /\ place' = "done"
  /\ UNCHANGED <<gui, screen, own, returns, over, opener, flags>>
WorkDone ==
  /\ place = "work"
  /\ CancelAction("done")
  /\ UNCHANGED <<gui, screen, own, over, opener, flags>>

LoadEnds ==
  /\ place = "done"
  /\ place' = "menu"
  /\ IF guiShutdown
     THEN UNCHANGED <<elements, state>>
     ELSE elements' = elements \ {"disabled"} /\ state' = "default"
  /\ UNCHANGED <<gui, alive, progress, own, returns, over, opener, flags>>

\* A wrong variant does not wait for the progress window.
PromptMadeAtOnce ==
  /\ place \in (IF guiShutdown THEN {"work"} ELSE {"menu", "work"}) /\ ~ExitRequested
  /\ alive' = alive \union {"prompt"}
  /\ CancelFlags
  /\ place' = "prompt" /\ returns' = [returns EXCEPT !.prompt = place]
  /\ UNCHANGED <<gui, elements, state, own, over, opener, flags>>

\* WindowPrompt, from the menu or out of the work.
PromptMade ==
  /\ place \in (IF guiShutdown THEN {"work"} ELSE {"menu", "work"}) /\ ~ExitRequested
  /\ alive' = alive \union {"prompt"}
  /\ CancelFlags
  /\ place' = "cancel" /\ returns' = [cancel |-> "prompt", prompt |-> place]
  /\ UNCHANGED <<gui, elements, state, own, over, opener, flags>>

PromptAsksGui ==
  /\ place = "prompt"
  /\ over' = ("disabled" \in elements)
  /\ AskGui
  /\ place' = "enter"
  /\ UNCHANGED <<screen, progress, own, returns, opener, flags>>

PromptShown ==
  /\ place = "enter" /\ GuiParked
  /\ state' = "disabled" /\ elements' = elements \union {"disabled", "prompt"}
  /\ ResumeGui
  /\ place' = "choose"
  /\ UNCHANGED <<alive, progress, own, returns, over, opener, flags>>

\* The user chooses, or the menus are to go.
Choice ==
  /\ place = "choose"
  /\ AskGui
  /\ place' = "leave"
  /\ UNCHANGED <<screen, progress, own, returns, over, opener, flags>>
ChoiceForced == guiShutdown /\ Choice

PromptRemoved ==
  /\ place = "leave" /\ GuiParked
  /\ elements' = (elements \ {"prompt"}) \ (IF over THEN {} ELSE {"disabled"})
  /\ state' = "default"
  /\ ResumeGui
  /\ alive' = alive \ {"prompt"}
  /\ place' = returns.prompt
  /\ UNCHANGED <<progress, own, returns, over, opener, flags>>

\* MenuBrowse ends with SuspendGui.
MenuEnds ==
  /\ place = "menu" /\ guiShutdown
  /\ AskGui
  /\ place' = "end"
  /\ UNCHANGED <<screen, progress, own, returns, over, opener, flags>>

MenuEnded ==
  /\ place = "end" /\ GuiParked
  /\ place' = "stop"
  /\ UNCHANGED <<gui, screen, progress, own, returns, over, opener, flags>>

\* StopGuiThreads.  The player polls as often as the main thread, which has
\* slept once more (menu.cpp:8279), and comes first.
StopProgress ==
  /\ place = "stop" /\ opener \notin {"hide", "park"}
  /\ showProgress' = 0 /\ progressThreadHalt' = 2
  /\ window' = Woken(window)
  /\ place' = "join"
  /\ UNCHANGED <<gui, screen, added, oldState, returns, over, opener, flags>>

\* A wrong variant does not wake the thread it waits for.
StopGuiAsleep ==
  /\ place = "join" /\ window = "gone"
  /\ guiHalt' = 2 /\ UNCHANGED frame
  /\ place' = "joinGui"
  /\ UNCHANGED <<drawn, screen, progress, own, returns, over, opener, flags>>
StopGui ==
  /\ place = "join" /\ window = "gone"
  /\ guiHalt' = 2 /\ frame' = Woken(frame)
  /\ place' = "joinGui"
  /\ UNCHANGED <<drawn, screen, progress, own, returns, over, opener, flags>>

\* The menus are gone, and a film may be shown.
Stopped ==
  /\ place = "joinGui" /\ frame = "gone"
  /\ place' = "film"
  /\ UNCHANGED <<gui, screen, progress, own, returns, over, opener, flags>>

\* WiiMenu again.
FilmOver ==
  /\ place = "film" /\ opener = "film"
  /\ opener' = "idle" /\ guiShutdown' = FALSE
  /\ elements' = elements \ {"disabled"} /\ state' = "default"
  /\ StartGuiThreads
  /\ place' = "start"
  /\ UNCHANGED <<drawn, alive, added, oldState, returns, over, ExitRequested>>

----------------------------------------------------------------------------
(* The player.                                                             *)

\* stream_enable_cache shows how far the buffer is filled: ShowProgress.
BufferCancels ==
  /\ opener = "opening" /\ ~guiShutdown /\ ~ExitRequested
  /\ IF showProgress # 1 THEN CancelFlags ELSE UNCHANGED progress
  /\ opener' = "buffer"
  /\ UNCHANGED <<gui, screen, own, main, flags>>

BufferShown ==
  /\ opener = "buffer" /\ (showProgress = 1 \/ ProgressParked)
  /\ Show(1)
  /\ opener' = "opening"
  /\ UNCHANGED <<gui, screen, main, flags>>

\* A song, or no file.
Opened ==
  /\ opener = "opening"
  /\ opener' = "idle"
  /\ UNCHANGED <<gui, screen, progress, own, main, flags>>

\* A video: ShutdownGui.
ShutdownGui ==
  /\ opener = "opening"
  /\ guiShutdown' = TRUE
  /\ CancelFlags
  /\ opener' = "hide"
  /\ UNCHANGED <<gui, screen, own, main, ExitRequested>>

ShutdownParksGui ==
  /\ opener = "hide" /\ ProgressParked
  /\ AskGui
  /\ opener' = "park"
  /\ UNCHANGED <<screen, progress, own, main, flags>>

GuiShut ==
  /\ opener = "park" /\ GuiParked
  /\ opener' = "shut"
  /\ UNCHANGED <<gui, screen, progress, own, main, flags>>

FilmShown ==
  /\ opener = "shut" /\ place = "film"
  /\ opener' = "film"
  /\ UNCHANGED <<gui, screen, progress, own, main, flags>>

----------------------------------------------------------------------------
GuiStep == GuiParks \/ FrameBegins \/ GuiEnds \/ FrameEnds \/ GuiExits
ProgressStep ==
  \/ ProgressParks \/ ProgressEnds \/ WindowMade \/ WindowUnused \/ WindowWanted
  \/ SeesGuiParked \/ WindowShown \/ WindowCancelled \/ WindowRemoved \/ ResumesGui
MainMust ==
  \/ MenuBegins \/ CancelEnds \/ NoAction \/ CancelOther \/ ShowAction \/ PlayerAnswers
  \/ LoadEnds \/ PromptAsksGui \/ PromptShown \/ ChoiceForced \/ PromptRemoved
  \/ MenuEnds \/ MenuEnded \/ StopProgress \/ StopGui \/ Stopped
MainMay == LoadBegins \/ WorkShows \/ PlayerOpens \/ PromptMade \/ Choice \/ FilmOver
PlayerMust == BufferShown \/ ShutdownParksGui \/ GuiShut \/ FilmShown
PlayerMay  == BufferCancels \/ ShutdownGui

Next ==
  \/ GuiStep \/ ProgressStep \/ MainMust \/ WorkDone \/ MainMay
  \/ PlayerMust \/ Opened \/ PlayerMay \/ HomeButton \/ ExitThread

Spec == Init /\ [][Next]_vars

\* Every thread that runs or polls goes on; the work for a file and the opening
\* of it end.
FairSpec ==
  /\ Spec
  /\ WF_vars(GuiStep) /\ WF_vars(ProgressStep) /\ WF_vars(MainMust) /\ WF_vars(PlayerMust)
  /\ WF_vars(ExitThread) /\ SF_vars(WorkDone) /\ SF_vars(Opened)

----------------------------------------------------------------------------
\* Each variable has its type.
TypeOK ==
  /\ guiHalt \in 0..2 /\ progressThreadHalt \in 0..2 /\ showProgress \in 0..2
  /\ frame \in {"top", "parked", "woken", "draw", "gone"}
  /\ window \in {"top", "parked", "woken", "made", "enter", "add", "wake", "shown", "leave",
                 "remove", "last", "gone"}
  /\ place \in {"start", "menu", "cancel", "action", "wanted", "work", "wait", "done",
                "prompt", "enter", "choose", "leave", "end", "stop", "join", "joinGui",
                "film", "over"}
  /\ returns \in [cancel : {"wanted", "work", "done", "prompt"}, prompt : {"menu", "work"}]
  /\ opener \in {"idle", "opening", "buffer", "hide", "park", "shut", "film"}
  /\ drawn \subseteq {"disabled", "prompt", "progress"}
  /\ elements \subseteq {"disabled", "prompt", "progress"}
  /\ alive \subseteq {"prompt", "progress"}
  /\ state \in {"default", "disabled"} /\ oldState \in {"default", "disabled"}
  /\ added \in BOOLEAN /\ over \in BOOLEAN
  /\ guiShutdown \in BOOLEAN /\ ExitRequested \in BOOLEAN

\* What the GUI thread draws has not been destroyed by the thread on whose stack
\* it lives.
WindowsAlive ==
  frame = "draw" => (drawn \union elements) \subseteq alive \union {"disabled"}

\* Back in the menu, no window of an action that is over is left on the screen,
\* and the menu takes input again.
MenuIsUsable ==
  place = "menu" /\ ~guiShutdown => elements = {} /\ state = "default"

\* When the menus are told to go, by the player or on the way out, they go: none
\* of the threads that stop each other waits for ever.
MenusGo == guiShutdown ~> place \in {"film", "over"}
=============================================================================
