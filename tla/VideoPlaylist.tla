--------------------------- MODULE VideoPlaylist ---------------------------
(***************************************************************************)
(* The films of a folder, one after the other (wiimc.cpp, filebrowser.cpp, *)
(* menu.cpp).  LoadNewFile empties browserVideos, and when the player      *)
(* shows a film fills it with the files of the folder; at the end of a     *)
(* film FindNextFile takes the next from it, in the way the user has set,  *)
(* which may have changed meanwhile.  The order of a shuffle is made when  *)
(* there is none or it is used up, whatever has become of the list.        *)
(*                                                                         *)
(* An entry is its place in the list, from 1.  What reading a null         *)
(* pointer, or the order beyond its end, does is not defined: fault.       *)
(***************************************************************************)
EXTENDS Integers, Sequences

CONSTANT MaxFilms  \* bound: files in a folder

VARIABLES
  autoPlayNextVideo,
  films,                 \* the entries that are linked in browserVideos
  numEntries, selIndex,  \* of browserVideos; selIndex is the next film, 0 none
  shuffleList, shuffleIndex,
  shows,   \* the player's film: "no", "film", or "paused", with the menus
  stale,   \* the order was made for another list (observes only)
  fault

videos == <<films, numEntries, selIndex>>
order  == <<shuffleList, shuffleIndex, stale>>
vars   == <<autoPlayNextVideo, videos, order, shows, fault>>

Modes == {"off", "on", "shuffle", "loop", "continuous"}

Init ==
  /\ autoPlayNextVideo = "off"
  /\ films = 0 /\ numEntries = 0 /\ selIndex = 0
  /\ shuffleList = <<>> /\ shuffleIndex = -1 /\ stale = FALSE
  /\ shows = "no" /\ fault = FALSE

\* The settings' menu goes round.
SetAutoPlay ==
  /\ shows # "film"
  /\ autoPlayNextVideo' =
       CASE autoPlayNextVideo = "off" -> "on" [] autoPlayNextVideo = "on" -> "shuffle"
         [] autoPlayNextVideo = "shuffle" -> "loop" [] autoPlayNextVideo = "loop" -> "continuous"
         [] OTHER -> "off"
  /\ UNCHANGED <<videos, order, shows, fault>>

After(k, n) == IF k < n THEN k + 1 ELSE 0

ResetVideos == films' = 0 /\ numEntries' = 0 /\ selIndex' = 0

\* The order, if there is one, is that of an older list from now on.
NewList == stale' = (shuffleIndex # -1) /\ UNCHANGED <<shuffleList, shuffleIndex>>

\* LoadNewFile and PopulateVideoPlaylist, of the k-th of n files.  Memory may run
\* out after m of them; an entry that is deleted again for want of memory for its
\* name stays counted (DeleteEntry).
LoadFilm(k, n, m) ==
  /\ shows # "film" /\ k <= n /\ m <= n
  /\ IF autoPlayNextVideo = "off"
     THEN ResetVideos
     ELSE /\ films' = m /\ numEntries' \in IF m = n THEN {n} ELSE {m, m + 1}
          /\ selIndex' = IF k <= m THEN After(k, m) ELSE 0
  /\ NewList
  /\ shows' = "film"
  /\ UNCHANGED <<autoPlayNextVideo, fault>>

\* The file is a song or cannot be loaded.
LoadOther ==
  /\ shows # "film"
  /\ ResetVideos /\ NewList
  /\ shows' = "no"
  /\ UNCHANGED <<autoPlayNextVideo, fault>>

\* MenuDVD does not fill the list.
LoadDVD ==
  /\ shows # "film"
  /\ ResetVideos /\ NewList
  /\ shows' = "film"
  /\ UNCHANGED <<autoPlayNextVideo, fault>>

Pause ==
  /\ shows = "film"
  /\ shows' = "paused"
  /\ UNCHANGED <<autoPlayNextVideo, videos, order, fault>>

Resume ==
  /\ shows = "paused"
  /\ shows' = "film"
  /\ UNCHANGED <<autoPlayNextVideo, videos, order, fault>>

\* Stopped by the user or by an error: FindNextFile is not asked, or does nothing.
StopFilm ==
  /\ shows # "no"
  /\ shows' = "no"
  /\ UNCHANGED <<autoPlayNextVideo, videos, order, fault>>

----------------------------------------------------------------------------
(* FindNextFile at the end of a film.  With "loop" only a film that cannot *)
(* be repeated ends (THP).                                                 *)
FilmEnds == shows = "film"

NoNext ==
  /\ FilmEnds
  /\ autoPlayNextVideo = "off" \/ (selIndex = 0 /\ autoPlayNextVideo = "on")
  /\ ResetVideos /\ NewList
  /\ shows' = "no"
  /\ UNCHANGED <<autoPlayNextVideo, fault>>

\* Continuous: from the first film again.
ToLoad ==
  IF autoPlayNextVideo = "continuous" /\ selIndex = 0 /\ films > 0 THEN 1 ELSE selIndex

NextInFolder ==
  /\ FilmEnds
  /\ autoPlayNextVideo \in {"loop", "continuous"} \/ (autoPlayNextVideo = "on" /\ selIndex # 0)
  /\ IF ToLoad = 0
     THEN fault' = TRUE /\ UNCHANGED selIndex
     ELSE selIndex' = After(ToLoad, films) /\ UNCHANGED fault
  /\ UNCHANGED <<autoPlayNextVideo, films, numEntries, order, shows>>

\* VideoPlaylistGetNextShuffle.
Shuffles(n) == {p \in [1..n -> 0..(n - 1)] : \A i, j \in 1..n : p[i] = p[j] => i = j}

\* A wrong variant: the order is used once more than it is long.
OrderUsedUpLate == shuffleIndex = -1 \/ shuffleIndex > numEntries
OrderUsedUp == shuffleIndex = -1 \/ shuffleIndex >= numEntries

\* The film at place i of the order p.
Pick(p, i) ==
  IF i < Len(p) /\ p[i + 1] < films
  THEN selIndex' = p[i + 1] + 1 /\ UNCHANGED fault
  ELSE fault' = TRUE /\ UNCHANGED selIndex

NextShuffled ==
  /\ FilmEnds /\ autoPlayNextVideo = "shuffle"
  /\ IF OrderUsedUp
     THEN /\ shuffleList' \in Shuffles(numEntries)
          /\ shuffleIndex' = 1 /\ stale' = FALSE
          /\ Pick(shuffleList', 0)
     ELSE /\ Pick(shuffleList, shuffleIndex)
          /\ shuffleIndex' = shuffleIndex + 1
          /\ UNCHANGED <<shuffleList, stale>>
  /\ UNCHANGED <<autoPlayNextVideo, films, numEntries, shows>>

\* Nothing is known after a fault.
Step ==
  /\ ~fault
  /\ \/ SetAutoPlay \/ LoadOther \/ LoadDVD \/ Pause \/ Resume \/ StopFilm
     \/ \E n \in 1..MaxFilms : \E k \in 1..n, m \in 0..n : LoadFilm(k, n, m)
     \/ NoNext \/ NextInFolder \/ NextShuffled

Spec == Init /\ [][Step]_vars

----------------------------------------------------------------------------
\* Each variable has its type, and the next film is on the list.
TypeOK ==
  /\ autoPlayNextVideo \in Modes /\ shows \in {"no", "film", "paused"}
  /\ numEntries \in 0..MaxFilms /\ films \in 0..numEntries /\ selIndex \in 0..films
  /\ shuffleList \in UNION {[1..n -> 0..(n - 1)] : n \in 0..MaxFilms}
  /\ shuffleIndex \in -1..MaxFilms /\ {stale, fault} \subseteq BOOLEAN

\* FindNextFile finds the next film on the list, or no film, unless the list is
\* empty or miscounted, the order is that of another list, or the last film of
\* the folder was to be repeated and cannot.  However the list and the setting
\* have changed since, nothing else reads a null pointer or beyond the order's end.
NextIsOnList ==
  fault =>
    films = 0 \/ films < numEntries \/ stale \/ (autoPlayNextVideo = "loop" /\ selIndex = 0)
=============================================================================
