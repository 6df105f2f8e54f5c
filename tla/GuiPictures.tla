---------------------------- MODULE GuiPictures ----------------------------
(***************************************************************************)
(* GuiWindows with the thread that loads the pictures of the selected      *)
(* entry (menu.cpp, ThumbThread), which hides the old picture and shows    *)
(* the new one, each between SuspendGui and ResumeGui.  MenuBrowse starts  *)
(* it and, when another menu is chosen or the menus go, joins it before it *)
(* removes and deletes what the menu has shown.                            *)
(***************************************************************************)
EXTENDS GuiWindows

VARIABLES thumb, thumbThreadHalt

pictures == <<thumb, thumbThreadHalt>>

PicturesInit == Init /\ thumb = "sleep" /\ thumbThreadHalt = FALSE

\* A new entry is selected.
ThumbLoads ==
  /\ thumb = "sleep" /\ ~thumbThreadHalt /\ place # "start"
  /\ AskGui
  /\ thumb' = "ask to hide"
  /\ UNCHANGED <<screen, progress, own, main, opener, flags, thumbThreadHalt>>

PictureHidden ==
  /\ thumb = "ask to hide" /\ GuiParked
  /\ ResumeGui
  /\ thumb' = "load"
  /\ UNCHANGED <<screen, progress, own, main, opener, flags, thumbThreadHalt>>

\* The file is read, or there is none.
PictureLoaded ==
  /\ thumb = "load"
  /\ \/ AskGui /\ thumb' = "ask to show"
     \/ thumb' = "sleep" /\ UNCHANGED gui
  /\ UNCHANGED <<screen, progress, own, main, opener, flags, thumbThreadHalt>>

PictureShown ==
  /\ thumb = "ask to show" /\ GuiParked
  /\ ResumeGui
  /\ thumb' = "sleep"
  /\ UNCHANGED <<screen, progress, own, main, opener, flags, thumbThreadHalt>>

ThumbEnds ==
  /\ thumb = "sleep" /\ thumbThreadHalt
  /\ thumb' = "gone"
  /\ UNCHANGED <<vars, thumbThreadHalt>>

\* MenuBrowse ends because another menu was chosen, too.
MenuLeft ==
  /\ place = "menu" /\ ~guiShutdown
  /\ AskGui
  /\ place' = "end"
  /\ UNCHANGED <<screen, progress, own, returns, over, opener, flags, pictures>>

HaltThumb ==
  /\ place = "end" /\ GuiParked
  /\ thumbThreadHalt' = TRUE
  /\ place' = "join thumb"
  /\ UNCHANGED <<gui, screen, progress, own, returns, over, opener, flags, thumb>>

JoinThumb ==
  /\ place = "join thumb" /\ thumb = "gone"
  /\ place' = "clear"
  /\ UNCHANGED <<gui, screen, progress, own, returns, over, opener, flags, pictures>>

\* The picture, the file browser and the rest are removed; another menu begins,
\* with a thread of its own, or the menus go.
Cleared ==
  /\ place = "clear"
  /\ IF guiShutdown THEN place' = "stop" /\ UNCHANGED pictures
                    ELSE place' = "start" /\ thumb' = "sleep" /\ thumbThreadHalt' = FALSE
  /\ UNCHANGED <<gui, screen, progress, own, returns, over, opener, flags>>

\* MenuEnded, which goes to "stop" in GuiWindows, is here HaltThumb to Cleared.
PicturesNext ==
  \/ Next /\ place' # "stop" /\ UNCHANGED pictures
  \/ ThumbLoads \/ PictureHidden \/ PictureLoaded \/ PictureShown \/ ThumbEnds
  \/ MenuLeft \/ HaltThumb \/ JoinThumb \/ Cleared

PicturesSpec == PicturesInit /\ [][PicturesNext]_<<vars, pictures>>

\* While MenuBrowse removes its elements the GUI thread draws none of them:
\* SuspendGui "eliminates the possibility that the GUI is in the middle of
\* accessing an element that is being changed" (menu.cpp:449).
ClearedUndrawn == place = "clear" => frame # "draw"
=============================================================================
