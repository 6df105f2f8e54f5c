-------------------------- MODULE CacheThreadProofs --------------------------
(***************************************************************************)
(* However many films may be cached, the cache thread never works for one  *)
(* whose memory is freed, and a film that is read from its cache has the   *)
(* thread at work for it (cache2.c).                                       *)
(***************************************************************************)
EXTENDS CacheThread, TLAPS

\* A film the thread may work for.
Usable(b) == b \in live /\ (b \in open \/ b \in gaveUp)

Works   == filler \in {"driver", "rest", "control"}
Playing == {"prefill", "play", "read", "asking"}
Leaving == {"ending", "uninit", "close"}

\* What the thread works for, or would take up, is usable: a film that was
\* given up stays in cachearg, and keeps its memory.
ThreadOK ==
  /\ Works => held # NoBlock /\ Usable(held)
  /\ cachearg # NoBlock => Usable(cachearg)

\* Which film the player has at each of its places.
FilmOK ==
  /\ pid => mine \in Blocks /\ mine \in live /\ cachearg = mine
  /\ stage = "idle" => mine = NoBlock
  /\ stage \in {"idle", "enable"} => ~pid
  /\ stage = "enable" => mine \in Blocks /\ mine \in live /\ mine \in open
  /\ stage \notin {"enable"} \union Leaving /\ ~pid => mine = NoBlock
  /\ stage \in {"read", "asking", "prefill", "quit", "unpark", "nap"} => pid
  /\ stage = "close" /\ pid => mine \in gaveUp

\* A film whose memory is freed leaves no work behind.
FreedOK ==
  stage \in Leaving /\ ~pid /\ mine # NoBlock =>
    mine \notin live /\ cachearg = NoBlock /\ filler = "parked"

\* While a film is read the thread is not told to park or to quit.
PlayOK ==
  /\ pid /\ stage \in Playing =>
       ~stop /\ (filler = "woken" \/ (Works /\ held = mine))
  /\ pid /\ stage = "paused" => filler = "parked"
  /\ (pid /\ stage \in Playing \union {"pausing", "paused"}) \/ stage = "enable" =>
       command[mine] # "quit"

Inv == TypeOK /\ ThreadOK /\ FilmOK /\ FreedOK /\ PlayOK

LEMMA InvServes == Inv => Served
BY DEF Inv, TypeOK, ThreadOK, FilmOK, PlayOK, Served, FillerOwnsItsFilm, FilmIsServed, Usable,
       Works, Playing

LEMMA InitInv ==
  ASSUME NoBlock \notin Blocks, Init
  PROVE  Inv
BY DEF Init, Inv, TypeOK, ThreadOK, FilmOK, FreedOK, PlayOK, Usable, Works, Playing, Leaving

(* The cache thread's own steps.  It parks only when it is told to, which no *)
(* film that is read does, and takes up only what is in cachearg.            *)
LEMMA FillerInv ==
  ASSUME NoBlock \notin Blocks, Inv, DriverStep \/ FillerStep
  PROVE  Inv'
<1> USE DEF Inv, Usable, Works, Playing, Leaving, memory, film
<1>1. CASE Wake
  BY <1>1 DEF Wake, Fill, TypeOK, ThreadOK, FilmOK, FreedOK, PlayOK
<1>2. CASE DriverReturns
  BY <1>2 DEF DriverReturns, TypeOK, ThreadOK, FilmOK, FreedOK, PlayOK
<1>3. CASE ExecuteControl
  BY <1>3 DEF ExecuteControl, LoopEnds, Fill, TypeOK, ThreadOK, FilmOK, FreedOK, PlayOK
<1>4. CASE CallControl
  BY <1>4 DEF CallControl, TypeOK, ThreadOK, FilmOK, FreedOK, PlayOK
<1>5. CASE ControlReturns
  BY <1>5 DEF ControlReturns, LoopEnds, Fill, TypeOK, ThreadOK, FilmOK, FreedOK, PlayOK
<1> QED
  BY <1>1, <1>2, <1>3, <1>4, <1>5 DEF DriverStep, FillerStep

(* The player enables a film and reads it.                                  *)
LEMMA PlayInv ==
  ASSUME NoBlock \notin Blocks, Inv,
         \/ PlayUncached \/ (\E b \in Blocks : Enable(b)) \/ Enabled \/ Prefilled
         \/ Read \/ ReadEnds \/ LosesPatience \/ Ask \/ AskEnds
         \/ Pause \/ Paused \/ Resume
  PROVE  Inv'
<1> USE DEF Inv, Usable, Works, Playing, Leaving, memory, film, thread
<1>1. CASE PlayUncached
  BY <1>1 DEF PlayUncached, TypeOK, ThreadOK, FilmOK, FreedOK, PlayOK
<1>2. CASE \E b \in Blocks : Enable(b)
  BY <1>2 DEF Enable, TypeOK, ThreadOK, FilmOK, FreedOK, PlayOK
<1>3. CASE Enabled
  BY <1>3 DEF Enabled, ResumeCacheThread, TypeOK, ThreadOK, FilmOK, FreedOK, PlayOK
<1>4. CASE Prefilled \/ Read \/ ReadEnds \/ AskEnds
  BY <1>4 DEF Prefilled, Read, ReadEnds, AskEnds, TypeOK, ThreadOK, FilmOK, FreedOK, PlayOK
<1>5. CASE LosesPatience
  <2>1. TypeOK'
    BY <1>5 DEF LosesPatience, TypeOK
  <2> QED
    BY <1>5, <2>1 DEF LosesPatience, ThreadOK, FilmOK, FreedOK, PlayOK
<1>6. CASE Ask
  BY <1>6 DEF Ask, TypeOK, ThreadOK, FilmOK, FreedOK, PlayOK
<1>7. CASE Pause
  <2>1. TypeOK'
    BY <1>7 DEF Pause, TypeOK
  <2> QED
    BY <1>7, <2>1 DEF Pause, ThreadOK, FilmOK, FreedOK, PlayOK
<1>8. CASE Paused
  BY <1>8 DEF Paused, TypeOK, ThreadOK, FilmOK, FreedOK, PlayOK
<1>9. CASE Resume
  BY <1>9 DEF Resume, ResumeCacheThread, TypeOK, ThreadOK, FilmOK, FreedOK, PlayOK
<1> QED
  BY <1>1, <1>2, <1>3, <1>4, <1>5, <1>6, <1>7, <1>8, <1>9

(* It leaves the film: its memory is freed when the thread is parked, and   *)
(* kept when the film is given up.                                          *)
LEMMA LeaveInv ==
  ASSUME NoBlock \notin Blocks, Inv,
         \/ PrefillInterrupted \/ FilmEnds \/ FreeStream \/ UninitUncached \/ UninitParked
         \/ Quit \/ QuitEnds \/ ThreadParked \/ NotParked \/ LookAgain \/ GiveUp \/ Close
  PROVE  Inv'
<1> USE DEF Inv, Usable, Works, Playing, Leaving, memory, film, thread
<1>1. CASE PrefillInterrupted \/ FilmEnds \/ FreeStream \/ UninitUncached
  BY <1>1 DEF PrefillInterrupted, FilmEnds, FreeStream, UninitUncached,
              TypeOK, ThreadOK, FilmOK, FreedOK, PlayOK
<1>2. CASE UninitParked \/ ThreadParked
  BY <1>2 DEF UninitParked, ThreadParked, Discard, TypeOK, ThreadOK, FilmOK, FreedOK, PlayOK
<1>3. CASE Quit
  BY <1>3 DEF Quit, TypeOK, ThreadOK, FilmOK, FreedOK, PlayOK
<1>4. CASE QuitEnds \/ NotParked \/ LookAgain
  BY <1>4 DEF QuitEnds, NotParked, LookAgain, TypeOK, ThreadOK, FilmOK, FreedOK, PlayOK
<1>5. CASE GiveUp
  BY <1>5 DEF GiveUp, TypeOK, ThreadOK, FilmOK, FreedOK, PlayOK
<1>6. CASE Close
  BY <1>6 DEF Close, TypeOK, ThreadOK, FilmOK, FreedOK, PlayOK
<1> QED
  BY <1>1, <1>2, <1>3, <1>4, <1>5, <1>6

LEMMA StepInv ==
  ASSUME NoBlock \notin Blocks, Inv, [Next]_vars
  PROVE  Inv'
<1>1. CASE Reload
  <2>1. TypeOK'
    BY <1>1 DEF Reload, memory, film, thread, Inv, TypeOK
  <2> QED
    BY <1>1, <2>1 DEF Reload, memory, film, thread, Inv, ThreadOK, FilmOK, FreedOK, PlayOK,
                      Usable, Works, Playing, Leaving
<1>2. CASE UNCHANGED vars
  BY <1>2 DEF vars, memory, film, thread, Inv, TypeOK, ThreadOK, FilmOK, FreedOK, PlayOK,
              Usable, Works, Playing, Leaving
<1> QED
  BY <1>1, <1>2, FillerInv, PlayInv, LeaveInv DEF Next, PlayerMust, PlayerMay

\* The cache thread works on films that still exist, and a film that is read from
\* its cache has the thread at work for it (cache_uninit frees the memory only
\* of a parked thread, stream_enable_cache waits for one).
THEOREM ServedTheorem ==
  ASSUME NoBlock \notin Blocks
  PROVE  Spec => []Served
<1>1. Init => Inv
  BY InitInv
<1>2. Inv /\ [Next]_vars => Inv'
  BY StepInv
<1> QED
  BY <1>1, <1>2, InvServes, PTL DEF Spec

\* Each variable has its type (cache2.c).
THEOREM TypeTheorem ==
  ASSUME NoBlock \notin Blocks
  PROVE  Spec => []TypeOK
<1>1. Init => Inv
  BY InitInv
<1>2. Inv /\ [Next]_vars => Inv'
  BY StepInv
<1>3. Inv => TypeOK
  BY DEF Inv
<1> QED
  BY <1>1, <1>2, <1>3, PTL DEF Spec
=============================================================================
