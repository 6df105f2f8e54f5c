--------------------------- MODULE GuiWindowsProofs ---------------------------
(***************************************************************************)
(* Whatever the threads do in between: the GUI thread draws no window      *)
(* whose function has returned, and back in the menu nothing of an action  *)
(* is left on the screen.                                                  *)
(***************************************************************************)
EXTENDS GuiWindows, TLAPS

\* TypeOK, in two parts.
Places ==
  /\ guiHalt \in 0..2 /\ progressThreadHalt \in 0..2 /\ showProgress \in 0..2
  /\ frame \in {"top", "parked", "woken", "draw", "gone"}
  /\ window \in {"top", "parked", "woken", "made", "enter", "add", "wake", "shown", "leave",
                 "remove", "last", "gone"}
  /\ place \in {"start", "menu", "cancel", "action", "wanted", "work", "wait", "done",
                "prompt", "enter", "choose", "leave", "end", "stop", "join", "joinGui",
                "film", "over"}
  /\ returns \in [cancel : {"wanted", "work", "done", "prompt"}, prompt : {"menu", "work"}]
  /\ opener \in {"idle", "opening", "buffer", "hide", "park", "shut", "film"}
  /\ drawn \subseteq {"disabled", "prompt", "progress"}
  /\ elements \subseteq {"disabled", "prompt", "progress"}
  /\ alive \subseteq {"prompt", "progress"}
  /\ state \in {"default", "disabled"} /\ oldState \in {"default", "disabled"}

Flags ==
  /\ added \in BOOLEAN /\ over \in BOOLEAN
  /\ guiShutdown \in BOOLEAN /\ ExitRequested \in BOOLEAN

\* WindowPrompt waits for its turn, shows its window or takes it away; its window
\* lives from the call on.
Prompting == {"prompt", "enter", "choose", "leave"}
PromptOpen == place \in Prompting \/ (place = "cancel" /\ returns.cancel = "prompt")

\* The progress window lives while ProgressWindow does, and is on the screen between
\* its two changes of the screen.
ProgressOK ==
  /\ "progress" \in alive <=> window \notin {"top", "parked", "woken", "gone"}
  /\ "progress" \in elements <=> window \in {"wake", "shown", "leave", "remove"}
  /\ frame = "draw" /\ "progress" \in drawn => window \in {"shown", "leave"}

\* So does the prompt; the machine may be switched off under it.
PromptOK ==
  /\ PromptOpen => "prompt" \in alive
  /\ "prompt" \in elements => "prompt" \in alive /\ place \in {"choose", "leave", "over"}
  /\ frame = "draw" /\ "prompt" \in drawn =>
       "prompt" \in alive /\ place \in {"choose", "leave", "over"}

\* Nobody wakes the GUI thread while the progress thread changes the screen, nor the
\* progress thread while the main thread does.
ParkedOK ==
  /\ window \in {"add", "wake", "remove", "last"} => frame = "parked"
  /\ place \in Prompting => window = "parked"
  /\ place = "start" => window \in {"top", "parked"} /\ frame \in {"top", "parked"}
  /\ place \in {"joinGui", "film"} => window = "gone"
  /\ place = "film" => frame = "gone"

\* The player shows its progress while the main thread waits for it, or when the
\* machine is to be switched off.
OpenerOK ==
  /\ opener \in {"opening", "buffer"} =>
       IF guiShutdown THEN place # "start" /\ ~PromptOpen ELSE place = "wait"
  /\ opener \in {"hide", "park", "shut", "film"} => guiShutdown
  /\ guiShutdown => ExitRequested \/ opener \in {"hide", "park", "shut", "film"}
  /\ place = "start" =>
       opener = "idle" /\ ~guiShutdown /\ guiHalt = 1 /\ progressThreadHalt = 1

\* Unless the menus are to go: in the menu, and in a prompt that it has opened, the
\* screen is as it was.
MenuOK ==
  ~guiShutdown =>
    /\ place \in {"start", "menu", "done", "cancel"} \cup Prompting => progressThreadHalt = 1
    /\ place \in {"start", "menu", "done"} => window \in {"top", "parked"}
    /\ place \in {"start", "menu"} => elements = {} /\ state = "default"
    /\ PromptOpen /\ returns.prompt = "menu" =>
         /\ place \in {"cancel", "prompt", "enter"} => elements = {}
         /\ place = "cancel" => window \in {"top", "parked"}
         /\ place \in {"enter", "choose", "leave"} => ~over

Inv == Places /\ Flags /\ ProgressOK /\ PromptOK /\ ParkedOK /\ OpenerOK /\ MenuOK

----------------------------------------------------------------------------
(* The steps in groups.                                                    *)
Main ==
  \/ MenuBegins \/ CancelEnds \/ NoAction \/ CancelOther \/ ShowAction \/ PlayerAnswers
  \/ LoadEnds \/ WorkDone \/ LoadBegins \/ WorkShows \/ PlayerOpens
Prompts == PromptMade \/ PromptAsksGui \/ PromptShown \/ Choice \/ PromptRemoved
Ends ==
  \/ MenuEnds \/ MenuEnded \/ StopProgress \/ StopGui \/ Stopped \/ FilmOver
  \/ HomeButton \/ ExitThread
Player ==
  \/ BufferShown \/ ShutdownParksGui \/ GuiShut \/ FilmShown \/ Opened
  \/ BufferCancels \/ ShutdownGui

\* Every step is in one of the groups.
LEMMA NextGroups ==
  ASSUME Next
  PROVE  GuiStep \/ ProgressStep \/ Main \/ Prompts \/ Ends \/ Player
BY Zenon DEF Next, MainMust, MainMay, PlayerMust, PlayerMay, ChoiceForced, Main, Prompts,
  Ends, Player

\* The flags keep their types.
LEMMA FlagsStep ==
  ASSUME Flags, Next
  PROVE  Flags'
<1> USE DEF Flags, gui, screen, progress, own, main, flags
<1>1. CASE GuiStep
  <2>1. CASE GuiParks
    BY <2>1, Zenon DEF GuiParks
  <2>2. CASE FrameBegins
    BY <2>2, Zenon DEF FrameBegins
  <2>3. CASE GuiEnds
    BY <2>3, Zenon DEF GuiEnds
  <2>4. CASE FrameEnds
    BY <2>4, Zenon DEF FrameEnds
  <2>5. CASE GuiExits
    BY <2>5, Zenon DEF GuiExits
  <2> QED
    BY <1>1, <2>1, <2>2, <2>3, <2>4, <2>5 DEF GuiStep
<1>2. CASE ProgressStep
  <2>1. CASE ProgressParks
    BY <2>1, Zenon DEF ProgressParks
  <2>2. CASE ProgressEnds
    BY <2>2, Zenon DEF ProgressEnds
  <2>3. CASE WindowMade
    BY <2>3, Zenon DEF WindowMade
  <2>4. CASE WindowUnused
    BY <2>4, Zenon DEF WindowUnused, Cancelled
  <2>5. CASE WindowWanted
    BY <2>5, Zenon DEF WindowWanted, AskGui, Cancelled
  <2>6. CASE SeesGuiParked
    BY <2>6, Zenon DEF SeesGuiParked, GuiParked
  <2>7. CASE WindowShown
    BY <2>7, Zenon DEF WindowShown
  <2>8. CASE WindowCancelled
    BY <2>8, Zenon DEF WindowCancelled, AskGui, Cancelled
  <2>9. CASE WindowRemoved
    BY <2>9, Zenon DEF WindowRemoved
  <2>10. CASE ResumesGui
    BY <2>10, Zenon DEF ResumesGui, Woken
  <2> QED
    BY <1>2, <2>1, <2>2, <2>3, <2>4, <2>5, <2>6, <2>7, <2>8, <2>9, <2>10 DEF ProgressStep
<1>3. CASE Main
  <2>1. CASE MenuBegins
    BY <2>1, Zenon DEF MenuBegins, ResumeGui, Woken
  <2>2. CASE CancelEnds
    BY <2>2, Zenon DEF CancelEnds, ProgressParked
  <2>3. CASE NoAction
    BY <2>3, Zenon DEF NoAction
  <2>4. CASE CancelOther
    BY <2>4, Zenon DEF CancelOther, CancelAction, CancelFlags
  <2>5. CASE ShowAction
    BY <2>5, Zenon DEF ShowAction, Show, Woken
  <2>6. CASE PlayerAnswers
    BY <2>6, Zenon DEF PlayerAnswers
  <2>7. CASE LoadEnds
    BY <2>7, Zenon DEF LoadEnds
  <2>8. CASE WorkDone
    BY <2>8, Zenon DEF WorkDone, CancelAction, CancelFlags
  <2>9. CASE LoadBegins
    BY <2>9, Zenon DEF LoadBegins
  <2>10. CASE WorkShows
    BY <2>10, Zenon DEF WorkShows, CancelAction, CancelFlags
  <2>11. CASE PlayerOpens
    BY <2>11, Zenon DEF PlayerOpens
  <2> QED
    BY <1>3, <2>1, <2>2, <2>3, <2>4, <2>5, <2>6, <2>7, <2>8, <2>9, <2>10, <2>11 DEF Main
<1>4. CASE Prompts
  <2>1. CASE PromptMade
    BY <2>1, Zenon DEF PromptMade, CancelFlags
  <2>2. CASE PromptAsksGui
    <3>1. over' = ("disabled" \in elements)
      BY <2>2, Zenon DEF PromptAsksGui
    <3>2. over' \in BOOLEAN
      BY <3>1
    <3> QED
      BY <2>2, <3>2, Zenon DEF PromptAsksGui, AskGui
  <2>3. CASE PromptShown
    BY <2>3, Zenon DEF PromptShown, ResumeGui, GuiParked, Woken
  <2>4. CASE Choice
    BY <2>4, Zenon DEF Choice, AskGui
  <2>5. CASE PromptRemoved
    BY <2>5, Zenon DEF PromptRemoved, ResumeGui, GuiParked, Woken
  <2> QED
    BY <1>4, <2>1, <2>2, <2>3, <2>4, <2>5 DEF Prompts
<1>5. CASE Ends
  <2>1. CASE MenuEnds
    BY <2>1, Zenon DEF MenuEnds, AskGui
  <2>2. CASE MenuEnded
    BY <2>2, Zenon DEF MenuEnded, GuiParked
  <2>3. CASE StopProgress
    BY <2>3, Zenon DEF StopProgress, Woken
  <2>4. CASE StopGui
    BY <2>4, Zenon DEF StopGui, Woken
  <2>5. CASE Stopped
    BY <2>5, Zenon DEF Stopped
  <2>6. CASE FilmOver
    BY <2>6, Zenon DEF FilmOver, StartGuiThreads
  <2>7. CASE HomeButton
    BY <2>7, Zenon DEF HomeButton
  <2>8. CASE ExitThread
    BY <2>8, Zenon DEF ExitThread
  <2> QED
    BY <1>5, <2>1, <2>2, <2>3, <2>4, <2>5, <2>6, <2>7, <2>8 DEF Ends
<1>6. CASE Player
  <2>1. CASE BufferShown
    BY <2>1, Zenon DEF BufferShown, ProgressParked, Show, Woken
  <2>2. CASE ShutdownParksGui
    BY <2>2, Zenon DEF ShutdownParksGui, AskGui, ProgressParked
  <2>3. CASE GuiShut
    BY <2>3, Zenon DEF GuiShut, GuiParked
  <2>4. CASE FilmShown
    BY <2>4, Zenon DEF FilmShown
  <2>5. CASE Opened
    BY <2>5, Zenon DEF Opened
  <2>6. CASE BufferCancels
    BY <2>6, Zenon DEF BufferCancels, CancelFlags
  <2>7. CASE ShutdownGui
    BY <2>7, Zenon DEF ShutdownGui, CancelFlags
  <2> QED
    BY <1>6, <2>1, <2>2, <2>3, <2>4, <2>5, <2>6, <2>7 DEF Player
<1> QED
  BY <1>1, <1>2, <1>3, <1>4, <1>5, <1>6, NextGroups

\* So do the other variables.
LEMMA PlacesStep ==
  ASSUME Places, Next
  PROVE  Places'
<1> USE DEF Places, gui, screen, progress, own, main, flags
<1>1. CASE GuiStep
  <2>1. CASE GuiParks
    BY <2>1 DEF GuiParks
  <2>2. CASE FrameBegins
    BY <2>2 DEF FrameBegins
  <2>3. CASE GuiEnds
    BY <2>3 DEF GuiEnds
  <2>4. CASE FrameEnds
    BY <2>4 DEF FrameEnds
  <2>5. CASE GuiExits
    BY <2>5 DEF GuiExits
  <2> QED
    BY <1>1, <2>1, <2>2, <2>3, <2>4, <2>5 DEF GuiStep
<1>2. CASE ProgressStep
  <2>1. CASE ProgressParks
    BY <2>1 DEF ProgressParks
  <2>2. CASE ProgressEnds
    BY <2>2 DEF ProgressEnds
  <2>3. CASE WindowMade
    BY <2>3 DEF WindowMade
  <2>4. CASE WindowUnused
    BY <2>4 DEF WindowUnused, Cancelled
  <2>5. CASE WindowWanted
    BY <2>5 DEF WindowWanted, AskGui, Cancelled
  <2>6. CASE SeesGuiParked
    BY <2>6 DEF SeesGuiParked, GuiParked
  <2>7. CASE WindowShown
    BY <2>7 DEF WindowShown
  <2>8. CASE WindowCancelled
    BY <2>8 DEF WindowCancelled, AskGui, Cancelled
  <2>9. CASE WindowRemoved
    BY <2>9 DEF WindowRemoved
  <2>10. CASE ResumesGui
    BY <2>10 DEF ResumesGui, Woken
  <2> QED
    BY <1>2, <2>1, <2>2, <2>3, <2>4, <2>5, <2>6, <2>7, <2>8, <2>9, <2>10 DEF ProgressStep
<1>3. CASE Main
  BY <1>3 DEF Main, MenuBegins, CancelEnds, NoAction, CancelOther, ShowAction,
    PlayerAnswers, LoadEnds, WorkDone, LoadBegins, WorkShows, PlayerOpens, ResumeGui,
    ProgressParked, CancelAction, Show, Woken, CancelFlags
<1>4. CASE Prompts
  <2>1. CASE PromptMade
    BY <2>1 DEF PromptMade, CancelFlags
  <2>2. CASE PromptAsksGui
    BY <2>2 DEF PromptAsksGui, AskGui
  <2>3. CASE PromptShown
    BY <2>3 DEF PromptShown, ResumeGui, GuiParked, Woken
  <2>4. CASE Choice
    BY <2>4 DEF Choice, AskGui
  <2>5. CASE PromptRemoved
    BY <2>5 DEF PromptRemoved, ResumeGui, GuiParked, Woken
  <2> QED
    BY <1>4, <2>1, <2>2, <2>3, <2>4, <2>5 DEF Prompts
<1>5. CASE Ends
  <2>1. CASE MenuEnds
    BY <2>1 DEF MenuEnds, AskGui
  <2>2. CASE MenuEnded
    BY <2>2 DEF MenuEnded, GuiParked
  <2>3. CASE StopProgress
    BY <2>3 DEF StopProgress, Woken
  <2>4. CASE StopGui
    BY <2>4 DEF StopGui, Woken
  <2>5. CASE Stopped
    BY <2>5 DEF Stopped
  <2>6. CASE FilmOver
    BY <2>6 DEF FilmOver, StartGuiThreads
  <2>7. CASE HomeButton
    BY <2>7 DEF HomeButton
  <2>8. CASE ExitThread
    BY <2>8 DEF ExitThread
  <2> QED
    BY <1>5, <2>1, <2>2, <2>3, <2>4, <2>5, <2>6, <2>7, <2>8 DEF Ends
<1>6. CASE Player
  <2>1. CASE BufferShown
    BY <2>1 DEF BufferShown, ProgressParked, Show, Woken
  <2>2. CASE ShutdownParksGui
    BY <2>2 DEF ShutdownParksGui, AskGui, ProgressParked
  <2>3. CASE GuiShut
    BY <2>3 DEF GuiShut, GuiParked
  <2>4. CASE FilmShown
    BY <2>4 DEF FilmShown
  <2>5. CASE Opened
    BY <2>5 DEF Opened
  <2>6. CASE BufferCancels
    BY <2>6 DEF BufferCancels, CancelFlags
  <2>7. CASE ShutdownGui
    BY <2>7 DEF ShutdownGui, CancelFlags
  <2> QED
    BY <1>6, <2>1, <2>2, <2>3, <2>4, <2>5, <2>6, <2>7 DEF Player
<1> QED
  BY <1>1, <1>2, <1>3, <1>4, <1>5, <1>6, NextGroups

\* The progress window is where ProgressWindow says.
LEMMA ProgressStepOK ==
  ASSUME Places, ProgressOK, ParkedOK, Next
  PROVE  ProgressOK'
<1> USE DEF Places, ProgressOK, ParkedOK, gui, screen, progress, own, main, flags
<1>1. CASE GuiStep
  BY <1>1 DEF GuiStep, GuiParks, FrameBegins, GuiEnds, FrameEnds, GuiExits
<1>2. CASE ProgressStep
  BY <1>2 DEF ProgressStep, ProgressParks, ProgressEnds, WindowMade, WindowUnused,
    WindowWanted, SeesGuiParked, WindowShown, WindowCancelled, WindowRemoved,
    ResumesGui, Cancelled, AskGui, GuiParked, Woken
<1>3. CASE Main
  BY <1>3 DEF Main, MenuBegins, CancelEnds, NoAction, CancelOther, ShowAction,
    PlayerAnswers, LoadEnds, WorkDone, LoadBegins, WorkShows, PlayerOpens, ResumeGui,
    ProgressParked, CancelAction, Show, Woken, CancelFlags
<1>4. CASE Prompts
  BY <1>4 DEF Prompts, PromptMade, PromptAsksGui, PromptShown, Choice, PromptRemoved,
    CancelFlags, AskGui, ResumeGui, GuiParked, Woken
<1>5. CASE Ends
  BY <1>5 DEF Ends, MenuEnds, MenuEnded, StopProgress, StopGui, Stopped, FilmOver,
    HomeButton, ExitThread, AskGui, GuiParked, Woken, StartGuiThreads
<1>6. CASE Player
  BY <1>6 DEF Player, BufferShown, ShutdownParksGui, GuiShut, FilmShown, Opened,
    BufferCancels, ShutdownGui, ProgressParked, Show, AskGui, GuiParked, CancelFlags,
    Woken
<1> QED
  BY <1>1, <1>2, <1>3, <1>4, <1>5, <1>6, NextGroups

\* The prompt is where WindowPrompt says.
LEMMA PromptStepOK ==
  ASSUME Places, PromptOK, ParkedOK, Next
  PROVE  PromptOK'
<1> USE DEF Places, PromptOK, ParkedOK, PromptOpen, Prompting, gui, screen, progress, own, main, flags
<1>1. CASE GuiStep
  BY <1>1 DEF GuiStep, GuiParks, FrameBegins, GuiEnds, FrameEnds, GuiExits
<1>2. CASE ProgressStep
  BY <1>2 DEF ProgressStep, ProgressParks, ProgressEnds, WindowMade, WindowUnused,
    WindowWanted, SeesGuiParked, WindowShown, WindowCancelled, WindowRemoved,
    ResumesGui, Cancelled, AskGui, GuiParked, Woken
<1>3. CASE Main
  BY <1>3 DEF Main, MenuBegins, CancelEnds, NoAction, CancelOther, ShowAction,
    PlayerAnswers, LoadEnds, WorkDone, LoadBegins, WorkShows, PlayerOpens, ResumeGui,
    ProgressParked, CancelAction, Show, Woken, CancelFlags
<1>4. CASE Prompts
  BY <1>4 DEF Prompts, PromptMade, PromptAsksGui, PromptShown, Choice, PromptRemoved,
    CancelFlags, AskGui, ResumeGui, GuiParked, Woken
<1>5. CASE Ends
  BY <1>5 DEF Ends, MenuEnds, MenuEnded, StopProgress, StopGui, Stopped, FilmOver,
    HomeButton, ExitThread, AskGui, GuiParked, Woken, StartGuiThreads
<1>6. CASE Player
  BY <1>6 DEF Player, BufferShown, ShutdownParksGui, GuiShut, FilmShown, Opened,
    BufferCancels, ShutdownGui, ProgressParked, Show, AskGui, GuiParked, CancelFlags,
    Woken
<1> QED
  BY <1>1, <1>2, <1>3, <1>4, <1>5, <1>6, NextGroups

\* Who was parked for a change of the screen stays so.
LEMMA ParkedStepOK ==
  ASSUME Places, Inv, Next
  PROVE  ParkedOK'
<1> USE DEF Inv, Places, ParkedOK, OpenerOK, PromptOpen, Prompting, gui, screen, progress, own, main, flags
<1>1. CASE GuiStep
  BY <1>1 DEF GuiStep, GuiParks, FrameBegins, GuiEnds, FrameEnds, GuiExits
<1>2. CASE ProgressStep
  BY <1>2 DEF ProgressStep, ProgressParks, ProgressEnds, WindowMade, WindowUnused,
    WindowWanted, SeesGuiParked, WindowShown, WindowCancelled, WindowRemoved,
    ResumesGui, Cancelled, AskGui, GuiParked, Woken
<1>3. CASE Main
  BY <1>3 DEF Main, MenuBegins, CancelEnds, NoAction, CancelOther, ShowAction,
    PlayerAnswers, LoadEnds, WorkDone, LoadBegins, WorkShows, PlayerOpens, ResumeGui,
    ProgressParked, CancelAction, Show, Woken, CancelFlags
<1>4. CASE Prompts
  BY <1>4 DEF Prompts, PromptMade, PromptAsksGui, PromptShown, Choice, PromptRemoved,
    CancelFlags, AskGui, ResumeGui, GuiParked, Woken
<1>5. CASE Ends
  BY <1>5 DEF Ends, MenuEnds, MenuEnded, StopProgress, StopGui, Stopped, FilmOver,
    HomeButton, ExitThread, AskGui, GuiParked, Woken, StartGuiThreads
<1>6. CASE Player
  BY <1>6 DEF Player, BufferShown, ShutdownParksGui, GuiShut, FilmShown, Opened,
    BufferCancels, ShutdownGui, ProgressParked, Show, AskGui, GuiParked, CancelFlags,
    Woken
<1> QED
  BY <1>1, <1>2, <1>3, <1>4, <1>5, <1>6, NextGroups

\* The player shows its progress only while that disturbs nobody.
LEMMA OpenerStepOK ==
  ASSUME Places, Flags, Inv, Next
  PROVE  OpenerOK'
<1> USE DEF Inv, Places, Flags, ParkedOK, OpenerOK, PromptOpen, Prompting, gui, screen, progress, own, main, flags
<1>1. CASE GuiStep
  BY <1>1 DEF GuiStep, GuiParks, FrameBegins, GuiEnds, FrameEnds, GuiExits
<1>2. CASE ProgressStep
  BY <1>2 DEF ProgressStep, ProgressParks, ProgressEnds, WindowMade, WindowUnused,
    WindowWanted, SeesGuiParked, WindowShown, WindowCancelled, WindowRemoved,
    ResumesGui, Cancelled, AskGui, GuiParked, Woken
<1>3. CASE Main
  BY <1>3 DEF Main, MenuBegins, CancelEnds, NoAction, CancelOther, ShowAction,
    PlayerAnswers, LoadEnds, WorkDone, LoadBegins, WorkShows, PlayerOpens, ResumeGui,
    ProgressParked, CancelAction, Show, Woken, CancelFlags
<1>4. CASE Prompts
  BY <1>4 DEF Prompts, PromptMade, PromptAsksGui, PromptShown, Choice, PromptRemoved,
    CancelFlags, AskGui, ResumeGui, GuiParked, Woken
<1>5. CASE Ends
  BY <1>5 DEF Ends, MenuEnds, MenuEnded, StopProgress, StopGui, Stopped, FilmOver,
    HomeButton, ExitThread, AskGui, GuiParked, Woken, StartGuiThreads
<1>6. CASE Player
  BY <1>6 DEF Player, BufferShown, ShutdownParksGui, GuiShut, FilmShown, Opened,
    BufferCancels, ShutdownGui, ProgressParked, Show, AskGui, GuiParked, CancelFlags,
    Woken
<1> QED
  BY <1>1, <1>2, <1>3, <1>4, <1>5, <1>6, NextGroups

\* The menu finds the screen as it was.
LEMMA MenuStepOK ==
  ASSUME Places, Inv, Next
  PROVE  MenuOK'
<1> USE DEF Inv, Places, ProgressOK, PromptOK, ParkedOK, OpenerOK, MenuOK, PromptOpen, Prompting, gui, screen, progress, own, main, flags
<1>1. CASE GuiStep
  BY <1>1 DEF GuiStep, GuiParks, FrameBegins, GuiEnds, FrameEnds, GuiExits
<1>2. CASE ProgressStep
  <2>1. CASE ProgressParks
    BY <2>1 DEF ProgressParks
  <2>2. CASE ProgressEnds
    BY <2>2 DEF ProgressEnds
  <2>3. CASE WindowMade
    BY <2>3 DEF WindowMade
  <2>4. CASE WindowUnused
    BY <2>4 DEF WindowUnused, Cancelled
  <2>5. CASE WindowWanted
    BY <2>5 DEF WindowWanted, AskGui, Cancelled
  <2>6. CASE SeesGuiParked
    BY <2>6 DEF SeesGuiParked, GuiParked
  <2>7. CASE WindowShown
    BY <2>7 DEF WindowShown
  <2>8. CASE WindowCancelled
    BY <2>8 DEF WindowCancelled, AskGui, Cancelled
  <2>9. CASE WindowRemoved
    BY <2>9 DEF WindowRemoved
  <2>10. CASE ResumesGui
    BY <2>10 DEF ResumesGui, Woken
  <2> QED
    BY <1>2, <2>1, <2>2, <2>3, <2>4, <2>5, <2>6, <2>7, <2>8, <2>9, <2>10 DEF ProgressStep
<1>3. CASE Main
  BY <1>3 DEF Main, MenuBegins, CancelEnds, NoAction, CancelOther, ShowAction,
    PlayerAnswers, LoadEnds, WorkDone, LoadBegins, WorkShows, PlayerOpens, ResumeGui,
    ProgressParked, CancelAction, Show, Woken, CancelFlags
<1>4. CASE Prompts
  <2>1. CASE PromptMade
    BY <2>1 DEF PromptMade, CancelFlags
  <2>2. CASE PromptAsksGui
    BY <2>2 DEF PromptAsksGui, AskGui
  <2>3. CASE PromptShown
    BY <2>3 DEF PromptShown, ResumeGui, GuiParked, Woken
  <2>4. CASE Choice
    BY <2>4 DEF Choice, AskGui
  <2>5. CASE PromptRemoved
    BY <2>5 DEF PromptRemoved, ResumeGui, GuiParked, Woken
  <2> QED
    BY <1>4, <2>1, <2>2, <2>3, <2>4, <2>5 DEF Prompts
<1>5. CASE Ends
  <2>1. CASE MenuEnds
    BY <2>1 DEF MenuEnds, AskGui
  <2>2. CASE MenuEnded
    BY <2>2 DEF MenuEnded, GuiParked
  <2>3. CASE StopProgress
    BY <2>3 DEF StopProgress, Woken
  <2>4. CASE StopGui
    BY <2>4 DEF StopGui, Woken
  <2>5. CASE Stopped
    BY <2>5 DEF Stopped
  <2>6. CASE FilmOver
    BY <2>6 DEF FilmOver, StartGuiThreads
  <2>7. CASE HomeButton
    BY <2>7 DEF HomeButton
  <2>8. CASE ExitThread
    BY <2>8 DEF ExitThread
  <2> QED
    BY <1>5, <2>1, <2>2, <2>3, <2>4, <2>5, <2>6, <2>7, <2>8 DEF Ends
<1>6. CASE Player
  BY <1>6 DEF Player, BufferShown, ShutdownParksGui, GuiShut, FilmShown, Opened,
    BufferCancels, ShutdownGui, ProgressParked, Show, AskGui, GuiParked, CancelFlags,
    Woken
<1> QED
  BY <1>1, <1>2, <1>3, <1>4, <1>5, <1>6, NextGroups

----------------------------------------------------------------------------
(* The invariant, and what follows from it.                                *)

\* All parts hold at the start.
LEMMA InitInv == Init => Inv
<1>1. Init => Flags
  BY Zenon DEF Init, Flags
<1>2. Init => Places /\ ProgressOK /\ PromptOK /\ ParkedOK /\ OpenerOK /\ MenuOK
  BY DEF Init, Places, ProgressOK, PromptOK, ParkedOK, OpenerOK, MenuOK, PromptOpen,
     Prompting
<1> QED
  BY <1>1, <1>2 DEF Inv

\* The invariant is inductive.
LEMMA StepInv ==
  ASSUME Inv, [Next]_vars
  PROVE  Inv'
<1>1. CASE Next
  BY <1>1, FlagsStep, PlacesStep, ProgressStepOK, PromptStepOK, ParkedStepOK, OpenerStepOK,
     MenuStepOK DEF Inv
<1>2. CASE UNCHANGED vars
  BY <1>2 DEF vars, gui, screen, progress, own, main, flags, Inv, Places, Flags, ProgressOK,
     PromptOK, ParkedOK, OpenerOK, MenuOK, PromptOpen
<1> QED
  BY <1>1, <1>2

LEMMA InvHolds == Spec => []Inv
BY InitInv, StepInv, PTL DEF Spec

\* Each variable has its type.
THEOREM TypeTheorem == Spec => []TypeOK
<1>1. Inv => TypeOK
  BY DEF Inv, Places, Flags, TypeOK
<1> QED
  BY <1>1, InvHolds, PTL

\* The windows of prompts and of the progress thread live on those threads' stacks
\* (menu.cpp: WindowPrompt, ProgressWindow).  What the GUI thread draws in a frame
\* has not returned, although it is asked to wait through a flag, everybody wakes it,
\* and suspensions are not counted.
THEOREM WindowsAliveTheorem == Spec => []WindowsAlive
<1>1. Inv => WindowsAlive
  BY DEF Inv, Places, ProgressOK, PromptOK, WindowsAlive
<1> QED
  BY <1>1, InvHolds, PTL

\* ProgressWindow and WindowPrompt save and restore what they find, at moments of
\* their own (menu.cpp).  Back in the menu nothing of theirs is left, and it takes
\* input.
THEOREM MenuIsUsableTheorem == Spec => []MenuIsUsable
<1>1. Inv => MenuIsUsable
  BY DEF Inv, MenuOK, MenuIsUsable
<1> QED
  BY <1>1, InvHolds, PTL
=============================================================================
