----------------------------- MODULE CacheThread -----------------------------
(***************************************************************************)
(* The life of the thread that fills the stream cache (mplayer/stream/     *)
(* cache2.c), above what StreamCache models: how the player enables the    *)
(* cache of a film, pauses it, asks it a command, and ends it, or gives it *)
(* up when the film's driver hangs.  There is one thread for all films and *)
(* it is never ended: it parks itself, and works for cachearg when woken.  *)
(*                                                                         *)
(* The thread has priority 70 and the player 68: what the thread does      *)
(* between two points where it blocks (a call of the film's driver, a      *)
(* sleep, its suspension) is one action; the player is interrupted between *)
(* any two of its own.                                                     *)
(***************************************************************************)
CONSTANTS
  Blocks,   \* where the cache variables of a film may be allocated
  NoBlock   \* the null pointer

VARIABLES
  filler,     \* where the cache thread is
  held,       \* the film it works for: the argument of ThreadProc
  cachearg,   \* the film it works for when it is woken
  stop,       \* stop_cache_thread
  command,    \* the command slot of each film
  live,       \* the blocks that are allocated
  open,       \* the films whose connection is open
  stage,      \* where the player is
  mine,       \* the cache variables of the player's film
  pid,        \* its cache_pid
  after,      \* where cache_uninit returns to
  getMESS,    \* a reader has lost its patience
  waitReload, \* the menus are to load the film again
  gaveUp      \* the films cache_uninit did not wait for; not in the code

thread == <<filler, held>>
memory == <<live, open, gaveUp>>
film   == <<mine, pid, after>>
vars == <<thread, cachearg, stop, command, memory, stage, film, getMESS, waitReload>>

\* The cache thread is created suspended, before any film.
Init ==
  /\ filler = "parked" /\ held = NoBlock /\ cachearg = NoBlock /\ stop = TRUE
  /\ command = [b \in Blocks |-> "none"]
  /\ live = {} /\ open = {} /\ gaveUp = {}
  /\ stage = "idle" /\ mine = NoBlock /\ pid = FALSE /\ after = "close"
  /\ getMESS = FALSE /\ waitReload = FALSE

----------------------------------------------------------------------------
(* The cache thread.                                                       *)

\* cache_fill calls the driver, or has nothing to do: the ring is full or the
\* film at its end.
Fill == filler' \in {"driver", "rest"}

\* The thread has been resumed.  Without a film it parks itself again.
Wake ==
  /\ filler = "woken"
  /\ IF cachearg = NoBlock THEN filler' = "parked" /\ UNCHANGED held
                           ELSE held' = cachearg /\ Fill
  /\ UNCHANGED <<cachearg, stop, command, memory, stage, film, getMESS, waitReload>>

DriverReturns ==
  /\ filler = "driver"
  /\ filler' = "rest"
  /\ UNCHANGED <<held, cachearg, stop, command, memory, stage, film, getMESS, waitReload>>

\* The end of ThreadProc's loop.
LoopEnds == IF stop THEN filler' = "parked" ELSE Fill

\* cache_execute_control: a command to quit ends ThreadProc; without a
\* control function every other is answered at once.
ExecuteControl ==
  /\ filler = "rest"
  /\ command' = [command EXCEPT ![held] = "none"]
  /\ IF command[held] = "quit" THEN filler' = "parked" ELSE LoopEnds
  /\ UNCHANGED <<held, cachearg, stop, memory, stage, film, getMESS, waitReload>>

\* Otherwise the driver is called, if only for the time.
CallControl ==
  /\ filler = "rest" /\ command[held] # "quit"
  /\ filler' = "control"
  /\ UNCHANGED <<held, cachearg, stop, command, memory, stage, film, getMESS, waitReload>>

ControlReturns ==
  /\ filler = "control"
  /\ command' = [command EXCEPT ![held] = "none"]
  /\ LoopEnds
  /\ UNCHANGED <<held, cachearg, stop, memory, stage, film, getMESS, waitReload>>

----------------------------------------------------------------------------
(* The player.                                                             *)

\* A film that is not cached: its stream does not allow it, or there is no
\* memory for the cache's variables.
PlayUncached ==
  /\ stage = "idle"
  /\ stage' = "play"
  /\ UNCHANGED <<thread, cachearg, stop, command, memory, film, getMESS, waitReload>>

\* stream_enable_cache allocates and waits until the thread is parked.
Enable(b) ==
  /\ stage = "idle" /\ b \notin live
  /\ live' = live \union {b} /\ open' = open \union {b}
  /\ command' = [command EXCEPT ![b] = "none"]
  /\ mine' = b /\ stop' = TRUE
  /\ stage' = "enable"
  /\ UNCHANGED <<thread, cachearg, gaveUp, pid, after, getMESS, waitReload>>

\* LWP_ResumeThread does nothing to a thread that runs.
ResumeCacheThread ==
  /\ stop' = FALSE
  /\ filler' = IF filler = "parked" THEN "woken" ELSE filler
  /\ UNCHANGED held

\* A wrong variant does not wait for that.
EnabledAtOnce ==
  /\ stage = "enable"
  /\ cachearg' = mine
  /\ ResumeCacheThread
  /\ pid' = TRUE /\ stage' = "prefill"
  /\ UNCHANGED <<command, memory, mine, after, getMESS, waitReload>>

Enabled ==
  /\ stage = "enable" /\ filler = "parked"
  /\ cachearg' = mine
  /\ ResumeCacheThread
  /\ pid' = TRUE /\ stage' = "prefill"
  /\ UNCHANGED <<command, memory, mine, after, getMESS, waitReload>>

\* Enough is in the ring, or the film has ended.
Prefilled ==
  /\ stage = "prefill"
  /\ stage' = "play"
  /\ UNCHANGED <<thread, cachearg, stop, command, memory, film, getMESS, waitReload>>

\* The user stops the film: err_out.
PrefillInterrupted ==
  /\ stage = "prefill"
  /\ stage' = "uninit" /\ after' = "ending"
  /\ UNCHANGED <<thread, cachearg, stop, command, memory, mine, pid, getMESS, waitReload>>

\* cache_read waits for data.
Read ==
  /\ stage = "play" /\ pid
  /\ stage' = "read"
  /\ UNCHANGED <<thread, cachearg, stop, command, memory, film, getMESS, waitReload>>

\* Data, the end of the film, or no patience left.
ReadEnds ==
  /\ stage = "read"
  /\ stage' = "play"
  /\ UNCHANGED <<thread, cachearg, stop, command, memory, film, getMESS, waitReload>>

LosesPatience ==
  /\ stage = "read" /\ ~getMESS
  /\ getMESS' = TRUE
  /\ UNCHANGED <<thread, cachearg, stop, command, memory, stage, film, waitReload>>

\* cache_do_control.
Ask ==
  /\ stage = "play" /\ pid
  /\ command' = [command EXCEPT ![mine] = "ask"]
  /\ stage' = "asking"
  /\ UNCHANGED <<thread, cachearg, stop, memory, film, getMESS, waitReload>>

Answered == command[mine] = "none" \/ getMESS

AskEnds ==
  /\ stage = "asking" /\ Answered
  /\ stage' = "play"
  /\ UNCHANGED <<thread, cachearg, stop, command, memory, film, getMESS, waitReload>>

\* PauseAndGotoGUI.
Pause ==
  /\ stage = "play"
  /\ stop' = TRUE
  /\ stage' = "pausing"
  /\ UNCHANGED <<thread, cachearg, command, memory, film, getMESS, waitReload>>

Paused ==
  /\ stage = "pausing" /\ filler = "parked"
  /\ stage' = "paused"
  /\ UNCHANGED <<thread, cachearg, stop, command, memory, film, getMESS, waitReload>>

\* The film goes on.
Resume ==
  /\ stage = "paused"
  /\ ResumeCacheThread
  /\ stage' = "play"
  /\ UNCHANGED <<cachearg, command, memory, film, getMESS, waitReload>>

\* The film ends, or is ended from the menus; free_stream.
FilmEnds ==
  /\ stage \in {"play", "paused"}
  /\ stage' = "ending"
  /\ UNCHANGED <<thread, cachearg, stop, command, memory, film, getMESS, waitReload>>

FreeStream ==
  /\ stage = "ending"
  /\ stage' = "uninit" /\ after' = "close"
  /\ UNCHANGED <<thread, cachearg, stop, command, memory, mine, pid, getMESS, waitReload>>

\* What is left of cache_uninit once the thread is parked.
Discard ==
  /\ pid' = FALSE /\ cachearg' = NoBlock
  /\ live' = live \ {mine}
  /\ stage' = after
  /\ UNCHANGED <<thread, stop, open, gaveUp, mine, after>>

UninitUncached ==
  /\ stage = "uninit" /\ ~pid
  /\ stage' = after
  /\ UNCHANGED <<thread, cachearg, stop, command, memory, film, getMESS, waitReload>>

UninitParked ==
  /\ stage = "uninit" /\ pid /\ filler = "parked"
  /\ Discard
  /\ UNCHANGED <<command, getMESS, waitReload>>

\* Otherwise the thread is told to quit, and the player waits for an answer,
\* then for the thread to park.
Quit ==
  /\ stage = "uninit" /\ pid /\ filler # "parked"
  /\ command' = [command EXCEPT ![mine] = "quit"]
  /\ stage' = "quit"
  /\ UNCHANGED <<thread, cachearg, stop, memory, film, getMESS, waitReload>>

\* A wrong variant does not look at getMESS.
QuitEndsDeaf ==
  /\ stage = "quit" /\ command[mine] = "none"
  /\ stop' = TRUE
  /\ stage' = "unpark"
  /\ UNCHANGED <<thread, cachearg, command, memory, film, getMESS, waitReload>>
QuitEnds ==
  /\ stage = "quit" /\ Answered
  /\ stop' = TRUE
  /\ stage' = "unpark"
  /\ UNCHANGED <<thread, cachearg, command, memory, film, getMESS, waitReload>>

ThreadParked ==
  /\ stage = "unpark" /\ filler = "parked"
  /\ Discard
  /\ UNCHANGED <<command, getMESS, waitReload>>

NotParked ==
  /\ stage = "unpark" /\ filler # "parked"
  /\ stage' = "nap"
  /\ UNCHANGED <<thread, cachearg, stop, command, memory, film, getMESS, waitReload>>

\* After a sleep of 50 us.
LookAgain ==
  /\ stage = "nap" /\ ~getMESS
  /\ stage' = "unpark"
  /\ UNCHANGED <<thread, cachearg, stop, command, memory, film, getMESS, waitReload>>

\* The reader has lost its patience: nobody waits for the driver.  The film's
\* variables are left to the thread.
GiveUp ==
  /\ stage = "nap" /\ getMESS
  /\ getMESS' = FALSE /\ waitReload' = TRUE
  /\ gaveUp' = gaveUp \union {mine}
  /\ stage' = after
  /\ UNCHANGED <<thread, cachearg, stop, command, live, open, film>>

\* The rest of free_stream, which also closes the connection of a film that was
\* given up.
Close ==
  /\ stage = "close"
  /\ open' = open \ {mine}
  /\ mine' = NoBlock /\ pid' = FALSE
  /\ stage' = "idle"
  /\ UNCHANGED <<thread, cachearg, stop, command, live, gaveUp, after, getMESS, waitReload>>

\* After 72 seconds the GUI thread loads the file again.
Reload ==
  /\ waitReload
  /\ waitReload' = FALSE /\ getMESS' = FALSE
  /\ UNCHANGED <<thread, cachearg, stop, command, memory, stage, film>>

----------------------------------------------------------------------------
DriverStep == DriverReturns \/ ControlReturns
FillerStep == Wake \/ ExecuteControl \/ CallControl

\* What the player does whatever the film and the user do.
PlayerMust ==
  \/ Enabled \/ ReadEnds \/ AskEnds \/ Paused \/ FreeStream \/ UninitUncached
  \/ UninitParked \/ Quit \/ QuitEnds \/ ThreadParked \/ NotParked \/ LookAgain
  \/ GiveUp \/ Close
PlayerMay ==
  \/ PlayUncached \/ (\E b \in Blocks : Enable(b)) \/ Prefilled \/ PrefillInterrupted
  \/ Read \/ LosesPatience \/ Ask \/ Pause \/ Resume \/ FilmEnds

Next == DriverStep \/ FillerStep \/ PlayerMust \/ PlayerMay \/ Reload

Spec == Init /\ [][Next]_vars

\* The threads go on; a driver may hang.
FairSpec == Spec /\ WF_vars(FillerStep) /\ WF_vars(PlayerMust)

----------------------------------------------------------------------------
\* Each variable has its type.
TypeOK ==
  /\ filler \in {"parked", "woken", "driver", "rest", "control"}
  /\ held \in Blocks \union {NoBlock} /\ cachearg \in Blocks \union {NoBlock}
  /\ mine \in Blocks \union {NoBlock}
  /\ command \in [Blocks -> {"none", "ask", "quit"}]
  /\ live \subseteq Blocks /\ open \subseteq Blocks /\ gaveUp \subseteq Blocks
  /\ stage \in {"idle", "enable", "prefill", "play", "read", "asking", "pausing", "paused",
                "ending", "uninit", "quit", "unpark", "nap", "close"}
  /\ after \in {"ending", "close"}
  /\ {stop, pid, getMESS, waitReload} \subseteq BOOLEAN

\* The thread works on cache variables that are still allocated, and on a
\* connection that is still open unless the film was given up (cache_uninit
\* frees the first, free_stream closes the second).
FillerOwnsItsFilm ==
  filler \in {"driver", "rest", "control"} =>
    held \in live /\ (held \in open \/ held \in gaveUp)

\* A film that plays from the cache has the thread at work, and for it: a
\* reader that waits has somebody to wait for.
FilmIsServed ==
  pid /\ stage \in {"prefill", "play", "read", "asking"} =>
    /\ cachearg = mine
    /\ filler = "woken" \/ (filler # "parked" /\ held = mine)

\* Both: the thread that fills and the film that reads belong together.
Served == FillerOwnsItsFilm /\ FilmIsServed

\* If the drivers answer, no wait of the player for the thread lasts for ever;
\* and the end of a film whose reader has lost its patience does not wait for
\* its driver ("forces 3 loops to exit", cache2.c:144), unless the menus are
\* about to load another one again, which resets getMESS.
Waiting == {"enable", "asking", "pausing", "quit", "unpark", "nap"}
WaitsEnd ==
  /\ []<>(filler \notin {"driver", "control"}) =>
       (stage \in Waiting ~> stage \notin Waiting)
  /\ stage \in {"quit", "unpark", "nap"} /\ getMESS /\ ~waitReload ~> stage \in {"ending", "close"}
=============================================================================
