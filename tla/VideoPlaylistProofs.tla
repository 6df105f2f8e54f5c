------------------------- MODULE VideoPlaylistProofs -------------------------
(***************************************************************************)
(* However many files a folder has, FindNextFile finds the next film on    *)
(* the list but in the cases named in NextIsOnList.                        *)
(***************************************************************************)
EXTENDS VideoPlaylist, TLAPS

\* The numbers belong together.
CountsOK ==
  /\ numEntries \in Nat /\ films \in 0..numEntries /\ selIndex \in 0..films
  /\ shuffleIndex \in Int /\ -1 <= shuffleIndex

\* The shuffled orders of n films.
Orders(n) == [1..n -> 0..(n - 1)]

\* An order is one of some list, and of this one if it is not stale.
OrderOK ==
  shuffleIndex # -1 =>
    /\ \E n \in Nat : shuffleList \in Orders(n)
    /\ ~stale => shuffleList \in Orders(numEntries)

Inv == CountsOK /\ OrderOK /\ NextIsOnList

LEMMA InitInv == Init => Inv
BY DEF Init, Inv, CountsOK, OrderOK, NextIsOnList

LEMMA AfterType ==
  ASSUME NEW n \in Nat, NEW k \in 0..n
  PROVE  After(k, n) \in 0..n
BY DEF After

\* The length of an order, as a sequence.
LEMMA OrderLength ==
  ASSUME NEW n \in Nat, NEW p \in Orders(n)
  PROVE  p \in Seq(0..(n - 1)) /\ Len(p) = n
BY DEF Orders

\* A film that an order of this list names is on the list.
LEMMA PickFinds ==
  ASSUME CountsOK, films = numEntries,
         NEW p \in Orders(numEntries),
         NEW k \in Nat, k < numEntries, Pick(p, k)
  PROVE  fault' = fault
<1>1. Len(p) = numEntries
  BY OrderLength DEF CountsOK
<1>2. p[k + 1] \in 0..(numEntries - 1)
  BY DEF CountsOK, Orders
<1>3. k < Len(p) /\ p[k + 1] < films
  BY <1>1, <1>2 DEF CountsOK
<1> QED
  BY <1>3, Zenon DEF Pick

\* What is picked is on the list, if anything is picked.
LEMMA PickType ==
  ASSUME CountsOK, NEW n \in Nat, NEW p \in Orders(n),
         NEW k \in Nat, Pick(p, k)
  PROVE  selIndex' \in 0..films
<1>1. CASE k < Len(p) /\ p[k + 1] < films
  <2>1. Len(p) = n
    BY OrderLength
  <2>2. p[k + 1] \in 0..(n - 1)
    BY <1>1, <2>1 DEF Orders
  <2>3. selIndex' = p[k + 1] + 1
    BY <1>1, Zenon DEF Pick
  <2> QED
    BY <1>1, <2>2, <2>3 DEF CountsOK
<1>2. CASE ~(k < Len(p) /\ p[k + 1] < films)
  <2>1. selIndex' = selIndex
    BY <1>2, Zenon DEF Pick
  <2> QED
    BY <2>1 DEF CountsOK
<1> QED
  BY <1>1, <1>2

\* A list that is left takes its order with it.
LEMMA NewListOrder ==
  ASSUME Inv, NewList
  PROVE  OrderOK' /\ shuffleIndex' = shuffleIndex
<1>1. /\ shuffleList' = shuffleList /\ shuffleIndex' = shuffleIndex
      /\ shuffleIndex # -1 => stale'
  BY Zenon DEF NewList
<1> QED
  BY <1>1, Zenon DEF Inv, OrderOK

\* As long as there was no fault.
LEMMA NoFaultYet ==
  ASSUME ~fault, fault' = fault
  PROVE  NextIsOnList'
BY Zenon DEF NextIsOnList

LEMMA KeptInv ==
  ASSUME Inv, UNCHANGED <<films, numEntries, selIndex>>, UNCHANGED order
  PROVE  CountsOK' /\ OrderOK'
<1>1. /\ films' = films /\ numEntries' = numEntries /\ selIndex' = selIndex
      /\ shuffleList' = shuffleList /\ shuffleIndex' = shuffleIndex
  BY DEF order
<1>2. stale' = stale
  BY DEF order
<1>3. CountsOK'
  BY <1>1 DEF Inv, CountsOK
<1>4. OrderOK'
  BY <1>1, <1>2, Zenon DEF Inv, OrderOK
<1> QED
  BY <1>3, <1>4

LEMMA EmptyInv ==
  ASSUME Inv, ResetVideos, NewList
  PROVE  CountsOK' /\ OrderOK'
<1>1. OrderOK' /\ shuffleIndex' = shuffleIndex
  BY NewListOrder
<1> QED
  BY <1>1 DEF ResetVideos, Inv, CountsOK

LEMMA LoadInv ==
  ASSUME Inv, ~fault, NEW n \in Nat, NEW k \in Nat, NEW m \in 0..n, LoadFilm(k, n, m)
  PROVE  Inv'
<1>1. NewList /\ fault' = fault
  BY Zenon DEF LoadFilm
<1>2. OrderOK' /\ shuffleIndex' = shuffleIndex
  BY <1>1, NewListOrder
<1>3. CASE autoPlayNextVideo = "off"
  <2>1. ResetVideos
    BY <1>3, Zenon DEF LoadFilm
  <2> QED
    BY <1>1, <2>1, EmptyInv, NoFaultYet DEF Inv
<1>4. CASE autoPlayNextVideo # "off"
  <2>1. /\ films' = m /\ numEntries' \in IF m = n THEN {n} ELSE {m, m + 1}
        /\ selIndex' = IF k <= m THEN After(k, m) ELSE 0
    BY <1>4, Zenon DEF LoadFilm
  <2>2. numEntries' \in Nat /\ m <= numEntries'
    BY <2>1
  <2>3. selIndex' \in 0..m
    BY <2>1 DEF After
  <2>4. CountsOK'
    BY <1>2, <2>1, <2>2, <2>3 DEF Inv, CountsOK
  <2> QED
    BY <1>1, <1>2, <2>4, NoFaultYet DEF Inv
<1> QED
  BY <1>3, <1>4

LEMMA FolderInv ==
  ASSUME Inv, ~fault, NextInFolder
  PROVE  Inv'
<1>1. ToLoad \in 0..films
  BY DEF ToLoad, Inv, CountsOK
<1>2. UNCHANGED <<films, numEntries>> /\ UNCHANGED order
  BY Zenon DEF NextInFolder
<1>3. CASE ToLoad = 0
  <2>1. selIndex' = selIndex /\ autoPlayNextVideo' = autoPlayNextVideo
    BY <1>3, Zenon DEF NextInFolder
  <2>2. selIndex = 0 /\ (films = 0 \/ autoPlayNextVideo # "continuous")
    BY <1>3 DEF ToLoad, Inv, CountsOK
  <2>3. films = 0 \/ (autoPlayNextVideo = "loop" /\ selIndex = 0)
    BY <2>2 DEF NextInFolder
  <2>4. films' = 0 \/ (autoPlayNextVideo' = "loop" /\ selIndex' = 0)
    BY <1>2, <2>1, <2>3, Zenon
  <2>5. NextIsOnList'
    BY <2>4, Zenon DEF NextIsOnList
  <2> QED
    BY <1>2, <2>1, <2>5, KeptInv DEF Inv
<1>4. CASE ToLoad # 0
  <2>1. selIndex' = After(ToLoad, films) /\ fault' = fault
    BY <1>4, Zenon DEF NextInFolder
  <2>2. selIndex' \in 0..films
    BY <1>1, <2>1, AfterType DEF Inv, CountsOK
  <2>3. films' = films /\ numEntries' = numEntries /\ shuffleIndex' = shuffleIndex
    BY <1>2 DEF order
  <2>4. CountsOK'
    BY <2>2, <2>3 DEF Inv, CountsOK
  <2>5. shuffleList' = shuffleList /\ stale' = stale
    BY <1>2 DEF order
  <2>6. OrderOK'
    BY <2>3, <2>5, Zenon DEF Inv, OrderOK
  <2> QED
    BY <2>1, <2>4, <2>6, NoFaultYet DEF Inv
<1> QED
  BY <1>3, <1>4

LEMMA ShuffledInv ==
  ASSUME Inv, ~fault, NextShuffled
  PROVE  Inv'
<1>1. films' = films /\ numEntries' = numEntries
  BY DEF NextShuffled
<1>2. CASE OrderUsedUp
  <2>1. /\ shuffleList' \in Shuffles(numEntries)
        /\ shuffleIndex' = 1 /\ stale' = FALSE /\ Pick(shuffleList', 0)
    BY <1>2, Zenon DEF NextShuffled
  <2>2. shuffleList' \in Orders(numEntries)
    BY <2>1 DEF Shuffles, Orders
  <2>3. selIndex' \in 0..films
    BY <2>1, <2>2, PickType DEF Inv, CountsOK
  <2>4. CountsOK'
    BY <1>1, <2>1, <2>3 DEF Inv, CountsOK
  <2>5. OrderOK'
    <3>1. numEntries \in Nat
      BY DEF Inv, CountsOK
    <3> QED
      BY <1>1, <2>2, <3>1, Zenon DEF OrderOK
  <2>6. CASE films = numEntries /\ 0 < numEntries
    BY <2>1, <2>2, <2>4, <2>5, <2>6, PickFinds, NoFaultYet DEF Inv
  <2>7. CASE ~(films = numEntries /\ 0 < numEntries)
    <3>1. films' = 0 \/ films' < numEntries'
      BY <1>1, <2>7 DEF Inv, CountsOK
    <3>2. NextIsOnList'
      BY <3>1, Zenon DEF NextIsOnList
    <3> QED
      BY <2>4, <2>5, <3>2 DEF Inv
  <2> QED
    BY <2>6, <2>7
<1>3. CASE ~OrderUsedUp
  <2>1. shuffleIndex \in Nat /\ shuffleIndex < numEntries /\ shuffleIndex # -1
    BY <1>3 DEF OrderUsedUp, Inv, CountsOK
  <2>2. /\ Pick(shuffleList, shuffleIndex)
        /\ shuffleIndex' = shuffleIndex + 1 /\ UNCHANGED <<shuffleList, stale>>
    BY <1>3, Zenon DEF NextShuffled
  <2>3. shuffleList' = shuffleList /\ stale' = stale
    BY <2>2
  <2>4. PICK n \in Nat : shuffleList \in Orders(n)
    BY <2>1 DEF Inv, OrderOK
  <2>5. selIndex' \in 0..films
    BY <2>1, <2>2, <2>4, PickType DEF Inv
  <2>6. CountsOK'
    BY <1>1, <2>1, <2>2, <2>5 DEF Inv, CountsOK
  <2>7. OrderOK'
    BY <1>1, <2>1, <2>3, Zenon DEF Inv, OrderOK
  <2>8. CASE films = numEntries /\ ~stale
    <3>1. shuffleList \in Orders(numEntries)
      BY <2>1, <2>8, Zenon DEF Inv, OrderOK
    <3> QED
      BY <2>1, <2>2, <2>6, <2>7, <2>8, <3>1, PickFinds, NoFaultYet DEF Inv
  <2>9. CASE ~(films = numEntries /\ ~stale)
    <3>1. films' < numEntries' \/ stale'
      <4>1. films < numEntries \/ stale
        BY <2>9 DEF Inv, CountsOK
      <4> QED
        BY <1>1, <2>3, <4>1, Zenon
    <3>2. NextIsOnList'
      BY <3>1, Zenon DEF NextIsOnList
    <3> QED
      BY <2>6, <2>7, <3>2 DEF Inv
  <2> QED
    BY <2>8, <2>9
<1> QED
  BY <1>2, <1>3

LEMMA StepInv ==
  ASSUME Inv, MaxFilms \in Nat, Step
  PROVE  Inv'
<1>1. ~fault
  BY Zenon DEF Step
<1>2. CASE SetAutoPlay \/ Pause \/ Resume \/ StopFilm
  <2>1. UNCHANGED <<films, numEntries, selIndex>> /\ UNCHANGED order
    BY <1>2 DEF SetAutoPlay, Pause, Resume, StopFilm, videos
  <2>2. fault' = fault
    BY <1>2, Zenon DEF SetAutoPlay, Pause, Resume, StopFilm
  <2> QED
    BY <1>1, <2>1, <2>2, KeptInv, NoFaultYet DEF Inv
<1>3. CASE LoadOther \/ LoadDVD \/ NoNext
  <2>1. ResetVideos /\ NewList /\ fault' = fault
    BY <1>3, Zenon DEF LoadOther, LoadDVD, NoNext
  <2> QED
    BY <1>1, <2>1, EmptyInv, NoFaultYet DEF Inv
<1>4. CASE \E n \in 1..MaxFilms : \E k \in 1..n, m \in 0..n : LoadFilm(k, n, m)
  <2>1. PICK n \in 1..MaxFilms : \E k \in 1..n, m \in 0..n : LoadFilm(k, n, m)
    BY <1>4
  <2>2. PICK k \in 1..n, m \in 0..n : LoadFilm(k, n, m)
    BY <2>1
  <2>3. n \in Nat /\ k \in Nat
    OBVIOUS
  <2> QED
    BY <1>1, <2>2, <2>3, LoadInv
<1>5. CASE NextInFolder \/ NextShuffled
  BY <1>1, <1>5, FolderInv, ShuffledInv
<1> QED
  BY <1>2, <1>3, <1>4, <1>5, Zenon DEF Step

LEMMA StutterInv ==
  ASSUME Inv, UNCHANGED vars
  PROVE  Inv'
<1>1. UNCHANGED <<films, numEntries, selIndex>> /\ UNCHANGED order
  BY DEF vars, videos
<1>2. films' = films /\ numEntries' = numEntries /\ selIndex' = selIndex
  BY <1>1
<1>3. fault' = fault /\ stale' = stale /\ autoPlayNextVideo' = autoPlayNextVideo
  BY DEF vars, order
<1>4. NextIsOnList'
  BY <1>2, <1>3, Zenon DEF Inv, NextIsOnList
<1> QED
  BY <1>1, <1>4, KeptInv DEF Inv

\* FindNextFile reads neither a null pointer nor beyond the end of the shuffle
\* order, unless the list is empty or miscounted, the order that of another list,
\* or the last film of the folder was to be repeated and cannot
\* (VideoPlaylistGetNextShuffle, FindNextFile).
THEOREM NextFilmTheorem ==
  ASSUME MaxFilms \in Nat
  PROVE  Spec => []NextIsOnList
<1>1. Init => Inv
  BY InitInv
<1>2. Inv /\ [Step]_vars => Inv'
  BY StepInv, StutterInv
<1>3. Inv => NextIsOnList
  BY DEF Inv
<1> QED
  BY <1>1, <1>2, <1>3, PTL DEF Spec
----------------------------------------------------------------------------
(* Each variable has its type, as the folders have MaxFilms files at most. *)

BoundsOK ==
  /\ autoPlayNextVideo \in Modes /\ shows \in {"no", "film", "paused"}
  /\ numEntries <= MaxFilms /\ shuffleIndex <= MaxFilms
  /\ shuffleList \in UNION {[1..n -> 0..(n - 1)] : n \in 0..MaxFilms}

Flags == stale \in BOOLEAN /\ fault \in BOOLEAN

LEMMA FlagsStep ==
  ASSUME Flags, Step
  PROVE  Flags'
<1>1. stale' \in BOOLEAN
  BY Zenon DEF Flags, Step, order, SetAutoPlay, LoadOther, LoadDVD, Pause, Resume, StopFilm,
     LoadFilm, NoNext, NextInFolder, NextShuffled, NewList
<1>2. fault' \in BOOLEAN
  BY Zenon DEF Flags, Step, SetAutoPlay, LoadOther, LoadDVD, Pause, Resume, StopFilm,
     LoadFilm, NoNext, NextInFolder, NextShuffled, Pick
<1> QED
  BY <1>1, <1>2 DEF Flags

LEMMA BoundsStep ==
  ASSUME MaxFilms \in Nat \ {0}, Inv, BoundsOK, Step
  PROVE  BoundsOK'
<1> USE DEF Inv, CountsOK, BoundsOK, videos, order
<1>1. CASE SetAutoPlay \/ Pause \/ Resume \/ StopFilm
  BY <1>1 DEF SetAutoPlay, Pause, Resume, StopFilm, Modes
<1>2. CASE LoadOther \/ LoadDVD \/ NoNext
  BY <1>2 DEF LoadOther, LoadDVD, NoNext, ResetVideos, NewList
<1>3. ASSUME NEW n \in 1..MaxFilms, NEW k \in 1..n, NEW m \in 0..n, LoadFilm(k, n, m)
      PROVE  BoundsOK'
  BY <1>3 DEF LoadFilm, ResetVideos, NewList
<1>4. CASE NextInFolder
  BY <1>4 DEF NextInFolder
<1>5. CASE NextShuffled /\ OrderUsedUp
  BY <1>5 DEF NextShuffled, Shuffles
<1>6. CASE NextShuffled /\ ~OrderUsedUp
  BY <1>6 DEF NextShuffled, OrderUsedUp
<1> QED
  BY <1>1, <1>2, <1>3, <1>4, <1>5, <1>6 DEF Step

\* Each variable has its type; neither the list nor a place in the order outgrows
\* the folder (PopulateVideoPlaylist, VideoPlaylistGetNextShuffle).
THEOREM TypeTheorem ==
  ASSUME MaxFilms \in Nat \ {0}
  PROVE  Spec => []TypeOK
<1> DEFINE Typed == Inv /\ BoundsOK /\ Flags
<1>1. Init => Typed
  <2> SUFFICES ASSUME Init PROVE Typed
    OBVIOUS
  <2>1. shuffleList \in [1..0 -> 0..(0 - 1)] /\ 0 \in 0..MaxFilms
    BY DEF Init
  <2>2. shuffleList \in UNION {[1..n -> 0..(n - 1)] : n \in 0..MaxFilms}
    BY <2>1
  <2>3. BoundsOK
    BY <2>2 DEF Init, BoundsOK, Modes
  <2>4. Flags
    BY DEF Init, Flags
  <2> QED
    BY <2>3, <2>4, InitInv
<1>2. Typed /\ [Step]_vars => Typed'
  <2> SUFFICES ASSUME Typed, [Step]_vars PROVE Typed'
    OBVIOUS
  <2>1. CASE Step
    BY <2>1, StepInv, BoundsStep, FlagsStep
  <2>2. CASE UNCHANGED vars
    <3>1. BoundsOK'
      BY <2>2 DEF vars, videos, order, BoundsOK
    <3>2. Flags'
      BY <2>2, Zenon DEF vars, order, Flags
    <3> QED
      BY <2>2, <3>1, <3>2, StutterInv
  <2> QED
    BY <2>1, <2>2
<1>3. Typed => TypeOK
  BY DEF Inv, CountsOK, BoundsOK, Flags, TypeOK
<1> QED
  BY <1>1, <1>2, <1>3, PTL DEF Spec
=============================================================================
