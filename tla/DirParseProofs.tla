--------------------------- MODULE DirParseProofs ---------------------------
(***************************************************************************)
(* The handshake by which the main thread and the parse thread take turns at   *)
(* a directory and its listing holds for all folders, batches and settings,   *)
(* and however the thread that loads pictures interferes; and what it is for:  *)
(* no entry is lost or listed twice, and the list is complete and in order     *)
(* when the threads rest.                                                   *)
(***************************************************************************)
EXTENDS DirParse, FiniteSetTheorems, TLAPS

(* The control part of IInv.                                                *)
Inv == ThreadsOK /\ Handshake

LEMMA InitInv == Init => Inv
BY DEF Init, Inv, ThreadsOK, Handshake, Threads, Labels, Inside

(* The steps of ParseDirEntries: in the main thread ...                      *)
LEMMA MainReads ==
  ASSUME Inv, ParseDirEntries("main") \/ ReadNoMemory("main") \/ InfoPromptClosed("main")
  PROVE  Inv'
<1>1. UNCHANGED thread /\ at["main"] \in Inside
  BY DEF ParseDirEntries, Enter, ReadEntry, ReadEnds, Sort, Close, ReadNoMemory,
         InfoPromptClosed, At, Inside
<1>2. \E l \in Inside \union {"resume"} : at' = [at EXCEPT !["main"] = l]
  <2>1. at["main"] \in Inside \union {"resume"} /\ at = [at EXCEPT !["main"] = at["main"]]
    BY <1>1 DEF Inv, ThreadsOK, Threads
  <2> QED
    BY <2>1 DEF ParseDirEntries, Enter, ReadEntry, ReadEnds, Sort, Close, ReadNoMemory,
                InfoPromptClosed, Return, Goto, Inside
<1> QED
  BY <1>1, <1>2 DEF thread, Inv, ThreadsOK, Handshake, Threads, Labels, Inside

(* ... and in the parse thread, which is then not suspended.                 *)
LEMMA ParseReads ==
  ASSUME Inv, ParseDirEntries("parse") \/ ReadNoMemory("parse") \/ InfoPromptClosed("parse")
  PROVE  Inv'
<1>1. UNCHANGED thread /\ at["parse"] \in Inside
  BY DEF ParseDirEntries, Enter, ReadEntry, ReadEnds, Sort, Close, ReadNoMemory,
         InfoPromptClosed, At, Inside
<1>2. \E l \in Inside \union {"nap", "top"} : at' = [at EXCEPT !["parse"] = l]
  <2>1. at["parse"] \in Inside /\ at = [at EXCEPT !["parse"] = at["parse"]]
    BY <1>1 DEF Inv, ThreadsOK, Threads
  <2> QED
    BY <2>1 DEF ParseDirEntries, Enter, ReadEntry, ReadEnds, Sort, Close, ReadNoMemory,
                InfoPromptClosed, Return, Goto, Inside
<1>3. parsethread = "runs"
  BY <1>1 DEF Inv, ThreadsOK, Handshake, Inside
<1>4. at' \in [Threads -> Labels] /\ at'["main"] = at["main"]
  BY <1>2 DEF Inv, ThreadsOK, Threads, Labels, Inside
<1> QED
  BY <1>1, <1>3, <1>4 DEF thread, Inv, ThreadsOK, Handshake

LEMMA ParseRests ==
  ASSUME Inv, SuspendSelf \/ Woken \/ Slept
  PROVE  Inv'
BY DEF SuspendSelf, Woken, Slept, Goto, At, thread, Inv, ThreadsOK, Handshake, Threads, Labels, Inside

LEMMA ThumbInv ==
  ASSUME Inv, ThumbStep
  PROVE  Inv'
BY DEF ThumbStep, LoadPicture, ReadPicture, PictureLoaded, Suspend, Suspended, Goto, At, thread,
       Inv, ThreadsOK, Handshake, Threads, Labels, Inside

(* The user's steps and the main thread's own.                              *)
LEMMA UserInv ==
  ASSUME Inv, \/ Hover \/ StopParseThread \/ WiiMenu
              \/ \E g \in Goals : Choose(g)
              \/ \E d \in Folder : MenuBrowse(d)
  PROVE  Inv'
<1>1. CASE Hover
  BY <1>1 DEF Hover, thread, Inv, ThreadsOK, Handshake
<1>2. CASE StopParseThread
  BY <1>2 DEF StopParseThread, Goto, At, Inv, ThreadsOK, Handshake, Threads, Labels, Inside
<1>3. CASE WiiMenu
  BY <1>3 DEF WiiMenu, Goto, At, Inv, ThreadsOK, Handshake, Threads, Labels, Inside
<1>4. CASE \E g \in Goals : Choose(g)
  BY <1>4 DEF Choose, Suspend, Goto, At, Inv, ThreadsOK, Handshake, Threads, Labels, Inside
<1>5. CASE \E d \in Folder : MenuBrowse(d)
  BY <1>5 DEF MenuBrowse, At, Inv, ThreadsOK, Handshake, Threads, Labels, Inside
<1> QED
  BY <1>1, <1>2, <1>3, <1>4, <1>5

(* Where the main thread has waited for the parse thread, it is suspended.    *)
LEMMA SuspendedIsParked ==
  ASSUME Inv, Suspended("main")
  PROVE  parsethread = "suspended" /\ at["parse"] = "parked"
BY DEF Inv, Handshake, Suspended, At

LEMMA MainWaits ==
  ASSUME Inv, \/ ShowOther \/ KeepListing \/ ResetFiles \/ LoadHalted \/ LeaveBrowse
  PROVE  Inv'
<1>1. Suspended("main") /\ UNCHANGED thread
  BY DEF ShowOther, KeepListing, ResetFiles, LoadHalted, LeaveBrowse
<1>2. \E l \in {"browse", "open", "load", "join"} : at' = [at EXCEPT !["main"] = l]
  BY DEF ShowOther, KeepListing, ResetFiles, LoadHalted, LeaveBrowse, Goto
<1>3. /\ at["main"] = "halt" /\ parseHalt # 2
      /\ parsethread = "suspended" /\ at["parse"] = "parked"
  BY <1>1, SuspendedIsParked DEF Suspended, At, Inv, Handshake
<1>4. at' \in [Threads -> Labels] /\ at'["parse"] = at["parse"] /\ at'["main"] # "outside"
  BY <1>2 DEF Inv, ThreadsOK, Threads, Labels
<1>5. parsethread' = parsethread /\ parseHalt' = parseHalt
  BY <1>1 DEF thread
<1> QED
  BY <1>3, <1>4, <1>5 DEF Inv, ThreadsOK, Handshake

LEMMA MainGoesOn ==
  ASSUME Inv, \/ OpenFails \/ (\E d \in Folder : Open(d)) \/ Resume
              \/ ParseDone \/ Loaded \/ JoinThumb \/ JoinParse \/ Started
  PROVE  Inv'
<1>1. CASE OpenFails \/ \E d \in Folder : Open(d)
  <2>1. at["main"] = "open" /\ UNCHANGED parsethread /\ (parseHalt' = 0 \/ UNCHANGED parseHalt)
    BY <1>1 DEF OpenFails, Open, At, thread
  <2>2. \E l \in {"browse", "enter"} : at' = [at EXCEPT !["main"] = l]
    BY <1>1 DEF OpenFails, Open, Goto
  <2> QED
    BY <2>1, <2>2 DEF Inv, ThreadsOK, Handshake, Threads, Labels, Inside
<1>2. CASE Resume
  BY <1>2 DEF Resume, Goto, At, Inv, ThreadsOK, Handshake, Threads, Labels, Inside
<1>3. CASE ParseDone \/ Started
  BY <1>3 DEF ParseDone, Started, Goto, At, thread, Inv, ThreadsOK, Handshake, Threads, Labels, Inside
<1>4. CASE Loaded
  BY <1>4 DEF Loaded, Suspend, Goto, At, Inv, ThreadsOK, Handshake, Threads, Labels, Inside
<1>5. CASE JoinThumb
  BY <1>5 DEF JoinThumb, At, thread, Inv, ThreadsOK, Handshake, Threads, Labels, Inside
<1>6. CASE JoinParse
  BY <1>6 DEF JoinParse, Goto, At, Inv, ThreadsOK, Handshake, Threads, Labels, Inside
<1> QED
  BY <1>1, <1>2, <1>3, <1>4, <1>5, <1>6

LEMMA NextInv == Inv /\ [Next]_vars => Inv'
<1> SUFFICES ASSUME Inv, [Next]_vars PROVE Inv'
  OBVIOUS
<1>1. CASE UserStep
  BY <1>1, UserInv, MainReads, ParseReads DEF UserStep
<1>2. CASE MainStep
  BY <1>2, MainReads, MainWaits, MainGoesOn DEF MainStep
<1>3. CASE ParseStep
  BY <1>3, ParseReads, ParseRests DEF ParseStep
<1>4. CASE ThumbStep
  BY <1>4, ThumbInv
<1>5. CASE UNCHANGED vars
  BY <1>5 DEF vars, thread, Inv, ThreadsOK, Handshake
<1> QED
  BY <1>1, <1>2, <1>3, <1>4, <1>5 DEF Next

(* The handshake: in particular the parse thread is suspended from the main    *)
(* thread's wait in SuspendParseThread to its next ResumeParseThread.         *)
THEOREM HandshakeTheorem == Spec => []Handshake
<1>1. Spec => []Inv
  BY InitInv, NextInv, PTL DEF Spec
<1>2. Inv => Handshake
  BY DEF Inv
<1> QED
  BY <1>1, <1>2, PTL

(* The open directory never has two readers.                                *)
THEOREM OneReaderTheorem == Spec => []OneReader
<1>1. Handshake => OneReader
  BY DEF Handshake, OneReader, Inside
<1> QED
  BY <1>1, HandshakeTheorem, PTL

(* The listing is never replaced while the parse thread works on it: only the   *)
(* main thread replaces it, where the parse thread is suspended.             *)
THEOREM ResetTheorem == Spec => ResetSafely
<1> DEFINE Safely == dir' # dir => at["parse"] \in {"top", "parked"}
<1>1. Inv /\ [Next]_vars => [Safely]_vars
  <2> SUFFICES ASSUME Inv, Next, dir' # dir
               PROVE  at["parse"] \in {"top", "parked"}
    BY DEF vars, listing
  <2>1. ~ \E t \in {"main", "parse"} : ParseDirEntries(t) \/ ReadNoMemory(t) \/ InfoPromptClosed(t)
    BY DEF ParseDirEntries, Enter, ReadEntry, ReadEnds, Sort, Close, ReadNoMemory,
           InfoPromptClosed, listing
  <2>2. ~ (SuspendSelf \/ Woken \/ Slept \/ ThumbStep)
    BY DEF SuspendSelf, Woken, Slept, ThumbStep, LoadPicture, ReadPicture, PictureLoaded, listing
  <2>3. CASE UserStep
    <3>1. \E d \in Folder : MenuBrowse(d)
      BY <2>1, <2>3 DEF UserStep, Hover, StopParseThread, WiiMenu, Choose, listing
    <3> QED
      BY <3>1 DEF MenuBrowse, At, Inv, Handshake
  <2>4. CASE MainStep
    <3>1. ShowOther \/ ResetFiles \/ \E d \in Folder : Open(d)
      BY <2>1, <2>4 DEF MainStep, KeepListing, OpenFails, Resume, ParseDone, LoadHalted, Loaded,
                        LeaveBrowse, JoinThumb, JoinParse, Started, listing
    <3>2. Suspended("main") \/ at["main"] = "open"
      BY <3>1 DEF ShowOther, ResetFiles, Open, At
    <3> QED
      BY <3>2, SuspendedIsParked DEF Inv, Handshake
  <2> QED
    BY <2>1, <2>2, <2>3, <2>4 DEF Next, ParseStep
<1>2. Spec => []Inv
  BY InitInv, NextInv, PTL DEF Spec
<1> QED
  BY <1>1, <1>2, PTL DEF Spec, ResetSafely

-----------------------------------------------------------------------------
(* Sequences of entries.                                                    *)

Distinct(s) == \A j, k \in 1..Len(s) : s[j] = s[k] => j = k

LEMMA AppendElements ==
  ASSUME NEW s \in Seq(Names), NEW e \in Names
  PROVE  /\ Append(s, e) \in Seq(Names)
         /\ Elements(Append(s, e)) = Elements(s) \union {e}
         /\ Distinct(s) /\ e \notin Elements(s) => Distinct(Append(s, e))
<1> DEFINE w == Append(s, e)
<1>1. /\ w \in Seq(Names) /\ Len(s) \in Nat /\ Len(w) = Len(s) + 1 /\ w[Len(s) + 1] = e
      /\ \A k \in 1..Len(s) : w[k] = s[k]
  OBVIOUS
<1>2. 1..Len(w) = 1..Len(s) \union {Len(s) + 1}
  BY <1>1
<1> HIDE DEF w
<1>3. Elements(w) = Elements(s) \union {e}
  BY <1>1, <1>2 DEF Elements
<1>4. Distinct(s) /\ e \notin Elements(s) => Distinct(w)
  BY <1>1, <1>2 DEF Elements, Distinct
<1> QED
  BY <1>1, <1>3, <1>4 DEF w

LEMMA TailElements ==
  ASSUME NEW s \in Seq(Names), s # <<>>
  PROVE  /\ Head(s) \in Names /\ Tail(s) \in Seq(Names)
         /\ Elements(s) = Elements(Tail(s)) \union {Head(s)}
         /\ Distinct(s) => Distinct(Tail(s)) /\ Head(s) \notin Elements(Tail(s))
<1> DEFINE h == Head(s)
           w == Tail(s)
<1>1. /\ Len(s) \in Nat /\ Len(s) >= 1 /\ h = s[1] /\ h \in Names
      /\ w \in Seq(Names) /\ Len(w) = Len(s) - 1
      /\ \A k \in 1..Len(w) : w[k] = s[k + 1]
  OBVIOUS
<1> HIDE DEF h, w
<1>2. Elements(s) \subseteq Elements(w) \union {h}
  <2> SUFFICES ASSUME NEW k \in 1..Len(s), k # 1 PROVE s[k] \in Elements(w)
    BY <1>1 DEF Elements
  <2>1. k - 1 \in 1..Len(w) /\ w[k - 1] = s[k]
    BY <1>1
  <2> QED
    BY <2>1 DEF Elements
<1>3. Elements(w) \union {h} \subseteq Elements(s)
  <2>1. \A k \in 1..Len(w) : k + 1 \in 1..Len(s)
    BY <1>1
  <2>2. 1 \in 1..Len(s)
    BY <1>1
  <2> QED
    BY <1>1, <2>1, <2>2 DEF Elements
<1>4. Distinct(s) => Distinct(w) /\ h \notin Elements(w)
  <2> SUFFICES ASSUME Distinct(s) PROVE Distinct(w) /\ h \notin Elements(w)
    OBVIOUS
  <2>1. \A j, k \in 1..Len(w) : w[j] = w[k] => j = k
    <3> SUFFICES ASSUME NEW j \in 1..Len(w), NEW k \in 1..Len(w), w[j] = w[k] PROVE j = k
      OBVIOUS
    <3>1. j + 1 \in 1..Len(s) /\ k + 1 \in 1..Len(s) /\ s[j + 1] = s[k + 1]
      BY <1>1
    <3>2. j + 1 = k + 1
      BY <3>1 DEF Distinct
    <3> QED
      BY <3>2, <1>1
  <2>2. \A k \in 1..Len(w) : w[k] # h
    <3> SUFFICES ASSUME NEW k \in 1..Len(w), w[k] = h PROVE FALSE
      OBVIOUS
    <3>1. k + 1 \in 1..Len(s) /\ 1 \in 1..Len(s) /\ s[k + 1] = s[1]
      BY <1>1
    <3>2. k + 1 = 1
      BY <3>1 DEF Distinct
    <3> QED
      BY <3>2, <1>1
  <2> QED
    BY <2>1, <2>2 DEF Distinct, Elements
<1> QED
  BY <1>1, <1>2, <1>3, <1>4 DEF h, w

(* Sorting keeps the entries, each as often as it was there.                 *)
LEMMA SortedElements ==
  ASSUME NEW s \in Seq(Names), NEW w \in Sorted(s)
  PROVE  /\ w \in Seq(Names) /\ InOrder(w) /\ Elements(w) = Elements(s)
         /\ Distinct(s) => Distinct(w)
<1> DEFINE D == 1..Len(s)
<1>1. Len(s) \in Nat /\ \A k \in D : s[k] \in Names
  OBVIOUS
<1>2. PICK p \in Bijection(D, D) : w = [k \in D |-> s[p[k]]] /\ InOrder(w)
  BY DEF Sorted
<1>3. /\ p \in [D -> D] /\ \A k \in D : \E j \in D : p[j] = k
      /\ \A j, k \in D : p[j] = p[k] => j = k
  BY <1>2 DEF Bijection, Injection, Surjection, IsInjective
<1>4. w \in Seq(Names) /\ Len(w) = Len(s) /\ \A k \in D : w[k] = s[p[k]]
  <2>1. w \in [1..Len(s) -> Names]
    BY <1>1, <1>2, <1>3
  <2> QED
    BY <1>1, <1>2, <2>1
<1>5. D = 1..Len(s) /\ D = 1..Len(w)
  BY <1>4
<1> HIDE DEF D
<1>6. Elements(w) = Elements(s)
  <2>1. \A e : e \in Elements(w) <=> \E k \in D : w[k] = e
    BY <1>5 DEF Elements
  <2>2. \A e : e \in Elements(s) <=> \E k \in D : s[k] = e
    BY <1>5 DEF Elements
  <2>3. ASSUME NEW e \in Elements(w) PROVE e \in Elements(s)
    <3>1. PICK k \in D : w[k] = e
      BY <2>1, <2>3
    <3>2. p[k] \in D /\ s[p[k]] = e
      BY <1>3, <1>4, <3>1
    <3> QED
      BY <2>2, <3>2
  <2>4. ASSUME NEW e \in Elements(s) PROVE e \in Elements(w)
    <3>1. PICK k \in D : s[k] = e
      BY <2>2, <2>4
    <3>2. PICK j \in D : p[j] = k
      BY <1>3, <3>1
    <3> QED
      BY <1>4, <2>1, <3>1, <3>2
  <2> QED
    BY <2>3, <2>4
<1>7. Distinct(s) => Distinct(w)
  <2> SUFFICES ASSUME Distinct(s), NEW j \in D, NEW k \in D, w[j] = w[k] PROVE j = k
    BY <1>5 DEF Distinct
  <2>1. p[j] \in D /\ p[k] \in D /\ s[p[j]] = s[p[k]]
    BY <1>3, <1>4
  <2>2. p[j] = p[k]
    BY <1>5, <2>1 DEF Distinct
  <2> QED
    BY <1>3, <2>2
<1> QED
  BY <1>2, <1>4, <1>6, <1>7

(* A list without repetition has as many entries as places.                  *)
LEMMA DistinctLength ==
  ASSUME NEW s \in Seq(Names), Distinct(s)
  PROVE  Cardinality(Elements(s)) = Len(s)
<1> DEFINE D == 1..Len(s)
<1>1. Len(s) \in Nat /\ s \in [D -> Names]
  OBVIOUS
<1>2. IsFiniteSet(D) /\ Cardinality(D) = Len(s)
  BY <1>1, FS_Interval
<1>3. s \in Bijection(D, Elements(s))
  BY <1>1 DEF Bijection, Injection, Surjection, IsInjective, Distinct, Elements
<1> QED
  BY <1>2, <1>3, FS_Bijection DEF ExistsBijection

-----------------------------------------------------------------------------
(* The types.  The steps are: those of ParseDirEntries, those that empty the  *)
(* list, Open, and the others, which leave the directory and the list alone.   *)

Readers == {"main", "parse"}

Reads(t) ==
  Enter(t) \/ ReadEntry(t) \/ ReadNoMemory(t) \/ InfoPromptClosed(t) \/ ReadEnds(t) \/ Sort(t) \/ Close(t)

Empties == ShowOther \/ ResetFiles \/ \E d \in Folder : MenuBrowse(d)

ParsePasses == SuspendSelf \/ Woken \/ Slept

UserPasses == Hover \/ StopParseThread \/ WiiMenu \/ \E g \in Goals : Choose(g)

MainPasses ==
  \/ KeepListing \/ OpenFails \/ Resume \/ ParseDone \/ LoadHalted \/ Loaded
  \/ LeaveBrowse \/ JoinThumb \/ JoinParse \/ Started

Passes == ParsePasses \/ ThumbStep \/ UserPasses \/ MainPasses

LEMMA NextCases ==
  ASSUME Next
  PROVE  (\E t \in Readers : Reads(t)) \/ Empties \/ (\E d \in Folder : Open(d)) \/ Passes
BY Zenon DEF Next, UserStep, MainStep, ParseStep, ParseDirEntries, Reads, Readers, Empties, Passes,
             ParsePasses, UserPasses, MainPasses

LEMMA PassesKeep ==
  ASSUME Passes
  PROVE  UNCHANGED reading /\ UNCHANGED listing
<1>1. CASE ParsePasses
  BY <1>1 DEF ParsePasses, SuspendSelf, Woken, Slept
<1>2. CASE ThumbStep
  BY <1>2 DEF ThumbStep, LoadPicture, ReadPicture, PictureLoaded
<1>3. CASE UserPasses
  BY <1>3 DEF UserPasses, Hover, StopParseThread, WiiMenu, Choose
<1>4. CASE MainPasses
  BY <1>4 DEF MainPasses, KeepListing, OpenFails, Resume, ParseDone, LoadHalted, Loaded,
              LeaveBrowse, JoinThumb, JoinParse, Started
<1> QED
  BY <1>1, <1>2, <1>3, <1>4 DEF Passes

(* TypeOK without the threads, by parts.                                    *)
Counts == parseHalt \in 0..2 /\ i \in [Readers -> 0..Batch] /\ entry \in [Readers -> BOOLEAN]

Texts == left \in Seq(Names) /\ list \in Seq(Names) /\ subs \in Seq(Names)

Places ==
  dir \in Folder \union {NoFolder} /\ opened \in Folder \union {NoFolder} /\ goal \in Goals

Flags ==
  /\ dirHandle \in BOOLEAN /\ thumbLoad \in BOOLEAN /\ subtitleVisibility \in BOOLEAN
  /\ cut \in BOOLEAN /\ warned \in BOOLEAN /\ lostUp \in BOOLEAN

LEMMA TypeParts == TypeOK <=> ThreadsOK /\ Counts /\ Texts /\ Places /\ Flags
BY DEF TypeOK, Counts, Texts, Places, Flags, Readers

LEMMA InitTypes == Init => Counts /\ Texts /\ Places /\ Flags
<1> SUFFICES ASSUME Init PROVE Counts /\ Texts /\ Places /\ Flags
  OBVIOUS
<1>1. Counts
  <2>1. parseHalt \in 0..2 /\ i \in [Readers -> 0..Batch]
    BY FolderAssumption DEF Init, Readers
  <2>2. entry \in [Readers -> BOOLEAN]
    BY Zenon DEF Init, Readers
  <2> QED
    BY <2>1, <2>2 DEF Counts
<1>2. Texts
  BY DEF Init, Texts
<1>3. Places
  BY DEF Init, Places, Goals
<1>4. Flags
  BY Zenon DEF Init, Flags
<1> QED
  BY <1>1, <1>2, <1>3, <1>4

(* The entries read are names.                                              *)
LEMMA TextsNext ==
  ASSUME Texts, [Next]_vars
  PROVE  Texts'
<1>0. <<>> \in Seq(Names) /\ <<Up>> \in Seq(Names)
  BY DEF Names
<1>1. ASSUME NEW t \in Readers, Reads(t) PROVE Texts'
  <2>1. CASE Enter(t) \/ ReadNoMemory(t) \/ InfoPromptClosed(t) \/ ReadEnds(t) \/ Close(t)
    <3>1. UNCHANGED listing /\ (left' = left \/ left' = <<>> \/ (left # <<>> /\ left' = Tail(left)))
      BY <2>1 DEF Enter, ReadNoMemory, InfoPromptClosed, ReadEnds, Close, reading
    <3>2. left' \in Seq(Names)
      <4>1. CASE left' = left
        BY <4>1 DEF Texts
      <4>2. CASE left' = <<>>
        BY <4>2, <1>0
      <4>3. CASE left # <<>> /\ left' = Tail(left)
        <5>1. Tail(left) \in Seq(Names)
          BY <4>3, TailElements DEF Texts
        <5> QED
          BY <4>3, <5>1
      <4> QED
        BY <3>1, <4>1, <4>2, <4>3
    <3> QED
      BY <3>1, <3>2 DEF Texts, listing
  <2>2. CASE ReadEntry(t)
    <3>1. left # <<>> /\ left' = Tail(left) /\ Head(left) \in Names /\ Tail(left) \in Seq(Names)
      BY <2>2, TailElements DEF ReadEntry, Texts
    <3>2. /\ list' = list \/ list' = Append(list, Head(left))
          /\ subs' = subs \/ subs' = Append(subs, Head(left))
      BY <2>2 DEF ReadEntry, FindSubtitle
    <3>3. Append(list, Head(left)) \in Seq(Names) /\ Append(subs, Head(left)) \in Seq(Names)
      BY <3>1, AppendElements DEF Texts
    <3> QED
      BY Zenon, <3>1, <3>2, <3>3 DEF Texts
  <2>3. CASE Sort(t)
    <3>1. UNCHANGED <<left, subs>> /\ (list' = list \/ list' \in Sorted(list))
      BY <2>3 DEF Sort, reading
    <3> QED
      BY <3>1, SortedElements DEF Texts
  <2> QED
    BY <1>1, <2>1, <2>2, <2>3 DEF Reads
<1>2. ASSUME Empties PROVE Texts'
  <2>1. left' = left /\ list' = <<>> /\ subs' = <<>>
    BY <1>2 DEF Empties, ShowOther, ResetFiles, MenuBrowse, reading
  <2> QED
    BY Zenon, <1>0, <2>1 DEF Texts
<1>3. ASSUME NEW d \in Folder, Open(d) PROVE Texts'
  <2>1. Entries[d] \in Seq(Names)
    BY FolderAssumption
  <2>2. /\ left' = left \/ left' = Entries[d]
        /\ list' = list \/ list' = <<Up>>
        /\ subs' = subs
    BY <1>3 DEF Open
  <2> QED
    BY Zenon, <1>0, <2>1, <2>2 DEF Texts
<1>4. ASSUME Passes \/ UNCHANGED vars PROVE Texts'
  BY <1>4, PassesKeep DEF vars, reading, listing, Texts
<1> QED
  BY <1>1, <1>2, <1>3, <1>4, NextCases

LEMMA CountsNext ==
  ASSUME Counts, [Next]_vars
  PROVE  Counts'
<1> USE FolderAssumption
<1>1. ASSUME NEW t \in Readers, Reads(t) PROVE Counts'
  <2>1. UNCHANGED thread
    BY <1>1 DEF Reads, Enter, ReadEntry, ReadNoMemory, InfoPromptClosed, ReadEnds, Sort, Close
  <2>2. \/ i' = i
        \/ i' = [i EXCEPT ![t] = 0]
        \/ i[t] < Batch /\ i' = [i EXCEPT ![t] = @ + 1]
    BY <1>1 DEF Reads, Enter, ReadEntry, ReadNoMemory, InfoPromptClosed, ReadEnds, Sort, Close, reading
  <2>3. i' \in [Readers -> 0..Batch]
    <3>1. i[t] < Batch => i[t] + 1 \in 0..Batch
      BY DEF Counts
    <3> QED
      BY <2>2, <3>1 DEF Counts
  <2>4. \/ entry' = entry
        \/ entry' = [entry EXCEPT ![t] = TRUE]
        \/ entry' = [entry EXCEPT ![t] = FALSE]
    <3>1. CASE ReadEnds(t)
      <4>1. (entry[t] /\ (i[t] = Batch \/ parseHalt # 0)) \in BOOLEAN
        OBVIOUS
      <4> QED
        BY Zenon, <3>1, <4>1 DEF ReadEnds
    <3>2. CASE ~ReadEnds(t)
      BY <1>1, <3>2 DEF Reads, Enter, ReadEntry, ReadNoMemory, InfoPromptClosed, Sort, Close, reading
    <3> QED
      BY <3>1, <3>2
  <2>5. entry' \in [Readers -> BOOLEAN]
    BY Zenon, <2>4 DEF Counts
  <2> QED
    BY <2>1, <2>3, <2>5 DEF Counts, thread
<1>2. ASSUME Empties PROVE Counts'
  BY <1>2 DEF Empties, ShowOther, ResetFiles, MenuBrowse, reading, thread, Counts
<1>3. ASSUME NEW d \in Folder, Open(d) PROVE Counts'
  BY <1>3 DEF Open, Counts
<1>4. ASSUME Passes PROVE Counts'
  <2>1. parseHalt' = parseHalt \/ parseHalt' \in 0..2
    <3>1. CASE ParsePasses \/ ThumbStep
      BY <3>1 DEF ParsePasses, SuspendSelf, Woken, Slept, ThumbStep, LoadPicture, ReadPicture,
                  PictureLoaded, Suspend, thread
    <3>2. CASE UserPasses
      BY <3>2 DEF UserPasses, Hover, StopParseThread, WiiMenu, Choose, Suspend, thread
    <3>3. CASE MainPasses
      BY <3>3 DEF MainPasses, KeepListing, OpenFails, Resume, ParseDone, LoadHalted, Loaded,
                  LeaveBrowse, JoinThumb, JoinParse, Started, Suspend, thread
    <3> QED
      BY <1>4, <3>1, <3>2, <3>3 DEF Passes
  <2> QED
    BY <1>4, <2>1, PassesKeep DEF reading, Counts
<1>5. ASSUME UNCHANGED vars PROVE Counts'
  BY <1>5 DEF vars, reading, thread, Counts
<1> QED
  BY <1>1, <1>2, <1>3, <1>4, <1>5, NextCases

LEMMA PlacesNext ==
  ASSUME Places, [Next]_vars
  PROVE  Places'
<1> USE DEF Places, Goals
<1>1. ASSUME NEW t \in Readers, Reads(t) PROVE Places'
  BY <1>1 DEF Reads, Enter, ReadEntry, ReadNoMemory, InfoPromptClosed, ReadEnds, Sort, Close, reading,
              listing
<1>2. ASSUME Empties PROVE Places'
  BY <1>2 DEF Empties, ShowOther, ResetFiles, MenuBrowse, reading
<1>3. ASSUME NEW d \in Folder, Open(d) PROVE Places'
  BY <1>3 DEF Open
<1>4. ASSUME Passes PROVE Places'
  <2>1. goal' \in Goals
    <3>1. CASE ParsePasses \/ ThumbStep
      BY <3>1 DEF ParsePasses, SuspendSelf, Woken, Slept, ThumbStep, LoadPicture, ReadPicture,
                  PictureLoaded
    <3>2. CASE UserPasses
      BY <3>2 DEF UserPasses, Hover, StopParseThread, WiiMenu, Choose
    <3>3. CASE MainPasses
      BY <3>3 DEF MainPasses, KeepListing, OpenFails, Resume, ParseDone, LoadHalted, Loaded,
                  LeaveBrowse, JoinThumb, JoinParse, Started
    <3> QED
      BY <1>4, <3>1, <3>2, <3>3 DEF Passes
  <2> QED
    BY <1>4, <2>1, PassesKeep DEF reading, listing
<1>5. ASSUME UNCHANGED vars PROVE Places'
  BY <1>5 DEF vars, reading, listing
<1> QED
  BY <1>1, <1>2, <1>3, <1>4, <1>5, NextCases

LEMMA FlagsNext ==
  ASSUME Flags, [Next]_vars
  PROVE  Flags'
<1> USE DEF Flags
<1>1. ASSUME NEW t \in Readers, Reads(t) PROVE Flags'
  <2>1. UNCHANGED <<thumbLoad, subtitleVisibility, lostUp>>
    BY <1>1 DEF Reads, Enter, ReadEntry, ReadNoMemory, InfoPromptClosed, ReadEnds, Sort, Close, reading
  <2>2. (dirHandle' = dirHandle \/ dirHandle' = FALSE) /\ (warned' = warned \/ warned' = TRUE)
    BY <1>1 DEF Reads, Enter, ReadEntry, ReadNoMemory, InfoPromptClosed, ReadEnds, Sort, Close, reading
  <2>3. cut' \in BOOLEAN
    <3>1. CASE Close(t)
      <4>1. (cut \/ parseHalt # 0) \in BOOLEAN
        OBVIOUS
      <4> QED
        BY Zenon, <3>1, <4>1 DEF Close
    <3>2. CASE ~Close(t)
      BY <1>1, <3>2 DEF Reads, Enter, ReadEntry, ReadNoMemory, InfoPromptClosed, ReadEnds, Sort, reading
    <3> QED
      BY <3>1, <3>2
  <2>4. dirHandle' \in BOOLEAN /\ warned' \in BOOLEAN
    BY Zenon, <2>2
  <2> QED
    BY <2>1, <2>3, <2>4
<1>2. ASSUME Empties PROVE Flags'
  BY <1>2 DEF Empties, ShowOther, ResetFiles, MenuBrowse, reading
<1>3. ASSUME NEW d \in Folder, Open(d) PROVE Flags'
  BY Zenon, <1>3 DEF Open
<1>4. ASSUME Passes PROVE Flags'
  <2>1. thumbLoad' = thumbLoad \/ thumbLoad' = TRUE \/ thumbLoad' = FALSE
    BY Zenon, <1>4 DEF Passes, ParsePasses, SuspendSelf, Woken, Slept, ThumbStep, LoadPicture, ReadPicture,
                PictureLoaded, UserPasses, Hover, StopParseThread, WiiMenu, Choose,
                MainPasses, KeepListing, OpenFails, Resume, ParseDone, LoadHalted, Loaded,
                LeaveBrowse, JoinThumb, JoinParse, Started
  <2>2. subtitleVisibility' = subtitleVisibility
    BY <1>4 DEF Passes, ParsePasses, SuspendSelf, Woken, Slept, ThumbStep, LoadPicture, ReadPicture,
                PictureLoaded, UserPasses, Hover, StopParseThread, WiiMenu, Choose,
                MainPasses, KeepListing, OpenFails, Resume, ParseDone, LoadHalted, Loaded,
                LeaveBrowse, JoinThumb, JoinParse, Started
  <2>3. thumbLoad' \in BOOLEAN
    BY Zenon, <2>1
  <2> QED
    BY <1>4, <2>2, <2>3, PassesKeep DEF reading
<1>5. ASSUME UNCHANGED vars PROVE Flags'
  BY <1>5 DEF vars, reading
<1> QED
  BY <1>1, <1>2, <1>3, <1>4, <1>5, NextCases

LEMMA InvNext == IInv /\ [Next]_vars => IInv'
<1> SUFFICES ASSUME IInv, [Next]_vars PROVE IInv'
  OBVIOUS
<1>1. ThreadsOK' /\ Handshake'
  BY NextInv, TypeParts DEF Inv, IInv
<1>2. Counts' /\ Texts' /\ Places' /\ Flags'
  BY CountsNext, TextsNext, PlacesNext, FlagsNext, TypeParts DEF IInv
<1>3. TypeOK'
  BY <1>1, <1>2 DEF TypeOK, ThreadsOK, Counts, Texts, Places, Flags, Readers
<1> QED
  BY <1>1, <1>3 DEF IInv

(* The types, and what each thread may rely on.                              *)
THEOREM InvariantTheorem == Spec => []IInv
<1>1. Init => IInv
  BY InitInv, InitTypes, TypeParts DEF Inv, IInv
<1> QED
  BY <1>1, InvNext, PTL DEF Spec

-----------------------------------------------------------------------------
(* The directory and what has been read of it.  A directory is read only       *)
(* while it is open; it stays open only with somebody to read on, unless it    *)
(* was left open for want of memory; before it is opened the list is empty.    *)
Held == \A t \in Readers : at[t] \in Inside \ {"enter"} => dirHandle

Owned ==
  dirHandle /\ ~lostUp =>
    \/ at["main"] \in Inside \union {"resume"}
    \/ /\ parsethread = "runs" /\ at["parse"] \in Inside \union {"parked", "nap"}
       /\ at["main"] # "stop"

Opening == at["main"] = "open" => subs = <<>> /\ dir = NoFolder

(* A batch without an entry at its end was the last one.                     *)
Last ==
  \A t \in Readers :
    /\ at[t] = "read" /\ i[t] > 0 => entry[t]
    /\ at[t] \in {"prompt", "sort", "close"} /\ ~entry[t] => left = <<>> \/ parseHalt # 0 \/ warned

(* The list is in order, or a batch that added to it will sort it.            *)
Ordered == InOrder(list) \/ \E t \in Readers : at[t] \in {"read", "prompt", "sort"} /\ i[t] > 0

(* An open directory has been read in part, a closed one in whole.            *)
Halves ==
  dirHandle /\ ~warned /\ ~lostUp =>
    /\ dir \in Folder /\ Distinct(left) /\ Distinct(list)
    /\ Elements(list) \intersect Elements(left) \subseteq {Up}
    /\ Elements(list) \union (Elements(left) \intersect Listed)
         = {Up} \union (Elements(Entries[dir]) \intersect Listed)
    /\ Elements(subs) \union (Elements(left) \intersect Subtitle)
         = Elements(Entries[dir]) \intersect Subtitle

Complete ==
  ~dirHandle /\ dir # NoFolder /\ ~cut /\ ~warned /\ ~lostUp =>
    /\ Elements(list) = {Up} \union (Elements(Entries[dir]) \intersect Listed)
    /\ Elements(subs) = Elements(Entries[dir]) \intersect Subtitle

(* One reader reads, the other is elsewhere and stays there.                  *)
LEMMA ReadsAlone ==
  ASSUME IInv, NEW t \in Readers, Reads(t)
  PROVE  /\ at[t] \in Inside /\ UNCHANGED thread
         /\ \A o \in Readers : o # t => at'[o] = at[o] /\ at[o] \notin Inside
         /\ at["main"] # "open" /\ (t = "parse" => at["main"] # "resume" /\ parsethread = "runs")
<1> USE DEF Readers
<1>1. at[t] \in Inside /\ UNCHANGED thread
  BY DEF Reads, Enter, ReadEntry, ReadNoMemory, InfoPromptClosed, ReadEnds, Sort, Close, At, Inside
<1>2. UNCHANGED at \/ \E l : at' = [at EXCEPT ![t] = l]
  BY DEF Reads, Enter, ReadEntry, ReadNoMemory, InfoPromptClosed, ReadEnds, Sort, Close, Goto, Return
<1>3. \A o \in Readers : o # t => at'[o] = at[o]
  BY <1>2 DEF IInv, TypeOK, ThreadsOK, Threads
<1>4. t = "parse" => parsethread = "runs"
  BY <1>1 DEF IInv, TypeOK, ThreadsOK, Handshake, Inside
<1>5. t = "parse" => at["main"] \notin Inside \union {"open", "resume"}
  BY <1>4 DEF IInv, Handshake
<1>6. t = "main" => at["parse"] = "parked"
  BY <1>1 DEF IInv, Handshake
<1>7. at["main"] # "open"
  BY <1>1, <1>5 DEF Inside
<1> QED
  BY <1>1, <1>3, <1>4, <1>5, <1>6, <1>7 DEF Inside

(* The steps that leave directory and list alone do not lead a reader on       *)
(* within ParseDirEntries, nor make it read on when it is to halt.            *)
LEMMA PassesMove ==
  ASSUME IInv, Passes
  PROVE  /\ \A t \in Readers : \/ at'[t] = at[t]
                               \/ at[t] \notin Inside /\ at'[t] \notin Inside \ {"enter"}
         /\ at'["main"] = "open" => at["main"] = "open"
         /\ (\E t \in Readers : at[t] \in Inside) /\ parseHalt # 0 => parseHalt' # 0
<1> USE DEF Readers, Inside, IInv, TypeOK, ThreadsOK, Handshake, Threads, At, Goto, Suspend, Suspended, thread
<1>1. CASE ParsePasses
  BY <1>1 DEF ParsePasses, SuspendSelf, Woken, Slept
<1>2. CASE ThumbStep
  BY <1>2 DEF ThumbStep, LoadPicture, ReadPicture, PictureLoaded
<1>3. CASE UserPasses
  BY <1>3 DEF UserPasses, Hover, StopParseThread, WiiMenu, Choose
<1>4. CASE MainPasses
  <2>1. CASE KeepListing \/ OpenFails \/ Resume \/ ParseDone \/ LoadHalted
    BY <2>1 DEF KeepListing, OpenFails, Resume, ParseDone, LoadHalted
  <2>2. CASE Loaded \/ LeaveBrowse \/ JoinThumb \/ JoinParse \/ Started
    BY <2>2 DEF Loaded, LeaveBrowse, JoinThumb, JoinParse, Started
  <2> QED
    BY <1>4, <2>1, <2>2 DEF MainPasses
<1> QED
  BY <1>1, <1>2, <1>3, <1>4 DEF Passes

(* The list is emptied, and a directory opened, while the parse thread rests.   *)
LEMMA EmptiesMove ==
  ASSUME IInv, Empties
  PROVE  /\ parsethread = "suspended" /\ at["parse"] = "parked" /\ at'["parse"] = "parked"
         /\ at["main"] \in {"halt", "menus"} /\ at'["main"] \in {"browse", "open", "halt"}
         /\ UNCHANGED reading /\ list' = <<>> /\ subs' = <<>> /\ dir' = NoFolder
         /\ UNCHANGED parsethread
<1> USE DEF IInv, TypeOK, ThreadsOK, Handshake, Threads, Inside, At, Goto, thread
<1>1. CASE ShowOther \/ ResetFiles
  BY <1>1 DEF ShowOther, ResetFiles, Suspended
<1>2. CASE \E d \in Folder : MenuBrowse(d)
  BY <1>2 DEF MenuBrowse
<1> QED
  BY <1>1, <1>2 DEF Empties

LEMMA OpenMoves ==
  ASSUME IInv, NEW d \in Folder, Open(d)
  PROVE  /\ parsethread = "suspended" /\ at["parse"] = "parked" /\ at'["parse"] = "parked"
         /\ at["main"] = "open" /\ at'["main"] \in {"enter", "browse"}
         /\ at'["main"] = "enter" \/ lostUp'
BY DEF Open, IInv, TypeOK, ThreadsOK, Handshake, Threads, Inside, At, Goto

LEMMA HeldNext ==
  ASSUME IInv, Held, [Next]_vars
  PROVE  Held'
<1> USE DEF Held, Readers, Inside
<1>1. ASSUME NEW t \in Readers, Reads(t) PROVE Held'
  <2>1. \A o \in Readers : o # t => at'[o] = at[o] /\ at[o] \notin Inside
    BY <1>1, ReadsAlone
  <2>2. at'[t] \in Inside \ {"enter"} => dirHandle'
    <3> USE DEF At, Goto, Return, IInv, TypeOK, ThreadsOK, Threads, reading
    <3>1. CASE Enter(t) \/ ReadEntry(t) \/ ReadNoMemory(t)
      BY <3>1 DEF Enter, ReadEntry, ReadNoMemory
    <3>2. CASE InfoPromptClosed(t) \/ ReadEnds(t) \/ Sort(t)
      BY <3>2 DEF InfoPromptClosed, ReadEnds, Sort
    <3>3. CASE Close(t)
      BY <3>3 DEF Close
    <3> QED
      BY <1>1, <3>1, <3>2, <3>3 DEF Reads
  <2> QED
    BY <2>1, <2>2
<1>2. ASSUME Empties PROVE Held'
  BY <1>2, EmptiesMove
<1>3. ASSUME NEW d \in Folder, Open(d) PROVE Held'
  BY <1>3, OpenMoves
<1>4. ASSUME Passes PROVE Held'
  BY <1>4, PassesMove, PassesKeep DEF reading
<1>5. ASSUME UNCHANGED vars PROVE Held'
  BY <1>5 DEF vars, reading
<1> QED
  BY <1>1, <1>2, <1>3, <1>4, <1>5, NextCases

LEMMA OwnedNext ==
  ASSUME IInv, Owned, [Next]_vars
  PROVE  Owned'
<1>1. ASSUME NEW t \in Readers, Reads(t) PROVE Owned'
  <2>1. /\ at[t] \in Inside /\ parsethread' = parsethread /\ lostUp' = lostUp
        /\ \A o \in Readers : o # t => at'[o] = at[o] /\ at[o] \notin Inside
        /\ t = "parse" => parsethread = "runs"
    <3>1. lostUp' = lostUp
      BY <1>1 DEF Reads, Enter, ReadEntry, ReadNoMemory, InfoPromptClosed, ReadEnds, Sort, Close, reading
    <3> QED
      BY <1>1, <3>1, ReadsAlone DEF thread
  <2>2. \/ ~dirHandle'
        \/ at'[t] \in Inside \union {IF t = "main" THEN "resume" ELSE "nap"}
    <3> USE DEF At, Goto, Return, IInv, TypeOK, ThreadsOK, Threads, Readers, reading, Inside
    <3>1. CASE Enter(t) \/ ReadEntry(t) \/ ReadNoMemory(t)
      BY <2>1, <3>1 DEF Enter, ReadEntry, ReadNoMemory
    <3>2. CASE InfoPromptClosed(t) \/ ReadEnds(t) \/ Sort(t)
      BY <2>1, <3>2 DEF InfoPromptClosed, ReadEnds, Sort
    <3>3. CASE Close(t)
      BY <2>1, <3>3 DEF Close
    <3> QED
      BY <1>1, <3>1, <3>2, <3>3 DEF Reads
  <2>3. t = "parse" => at["main"] # "stop" \/ ~dirHandle \/ lostUp
    BY <2>1 DEF Owned, Inside
  <2>4. t = "parse" /\ dirHandle' => dirHandle
    BY <1>1 DEF Reads, Enter, ReadEntry, ReadNoMemory, InfoPromptClosed, ReadEnds, Sort, Close, reading
  <2> QED
    BY <2>1, <2>2, <2>3, <2>4 DEF Owned, Readers
<1>2. ASSUME Empties PROVE Owned'
  BY <1>2, EmptiesMove DEF Owned, Inside, reading
<1>3. ASSUME NEW d \in Folder, Open(d) PROVE Owned'
  BY <1>3, OpenMoves DEF Owned, Inside
<1>4. ASSUME Passes PROVE Owned'
  <2> SUFFICES ASSUME dirHandle, ~lostUp
               PROVE  \/ at'["main"] \in Inside \union {"resume"}
                      \/ /\ parsethread' = "runs" /\ at'["parse"] \in Inside \union {"parked", "nap"}
                         /\ at'["main"] # "stop"
    BY <1>4, PassesKeep DEF Owned, reading
  <2> USE DEF Owned, Inside, IInv, TypeOK, ThreadsOK, Handshake, Threads, At, Goto, Suspend, Suspended, thread
  <2>1. CASE ParsePasses
    BY <2>1 DEF ParsePasses, SuspendSelf, Woken, Slept
  <2>2. CASE ThumbStep
    BY <2>2 DEF ThumbStep, LoadPicture, ReadPicture, PictureLoaded
  <2>3. CASE UserPasses
    BY <2>3 DEF UserPasses, Hover, StopParseThread, WiiMenu, Choose
  <2>4. CASE MainPasses
    <3>1. CASE KeepListing \/ OpenFails \/ Resume \/ ParseDone \/ LoadHalted
      BY <3>1 DEF KeepListing, OpenFails, Resume, ParseDone, LoadHalted
    <3>2. CASE Loaded \/ LeaveBrowse \/ JoinThumb \/ JoinParse \/ Started
      BY <3>2 DEF Loaded, LeaveBrowse, JoinThumb, JoinParse, Started
    <3> QED
      BY <2>4, <3>1, <3>2 DEF MainPasses
  <2> QED
    BY <1>4, <2>1, <2>2, <2>3, <2>4 DEF Passes
<1>5. ASSUME UNCHANGED vars PROVE Owned'
  BY <1>5 DEF vars, reading, thread, Owned
<1> QED
  BY <1>1, <1>2, <1>3, <1>4, <1>5, NextCases

LEMMA OpeningNext ==
  ASSUME IInv, Opening, [Next]_vars
  PROVE  Opening'
<1>1. ASSUME NEW t \in Readers, Reads(t) PROVE Opening'
  <2>1. at["main"] # "open" /\ \A o \in Readers : o # t => at'[o] = at[o]
    BY <1>1, ReadsAlone
  <2>2. at'[t] # "open"
    BY <1>1, ReadsAlone DEF Reads, Enter, ReadEntry, ReadNoMemory, InfoPromptClosed, ReadEnds, Sort, Close,
       Return, Goto, IInv, TypeOK, ThreadsOK, Threads, Readers, Inside
  <2> QED
    BY <2>1, <2>2 DEF Opening, Readers
<1>2. ASSUME Empties PROVE Opening'
  BY <1>2, EmptiesMove DEF Opening
<1>3. ASSUME NEW d \in Folder, Open(d) PROVE Opening'
  BY <1>3, OpenMoves DEF Opening
<1>4. ASSUME Passes PROVE Opening'
  BY <1>4, PassesMove, PassesKeep DEF listing, Opening
<1>5. ASSUME UNCHANGED vars PROVE Opening'
  BY <1>5 DEF vars, listing, Opening
<1> QED
  BY <1>1, <1>2, <1>3, <1>4, <1>5, NextCases

LEMMA LastNext ==
  ASSUME IInv, Last, [Next]_vars
  PROVE  Last'
<1>1. ASSUME NEW t \in Readers, Reads(t) PROVE Last'
  <2>1. \A o \in Readers : o # t => at'[o] = at[o] /\ at[o] \notin Inside
    BY <1>1, ReadsAlone
  <2>2. /\ at'[t] = "read" /\ i'[t] > 0 => entry'[t]
        /\ at'[t] \in {"prompt", "sort", "close"} /\ ~entry'[t] =>
             left' = <<>> \/ parseHalt' # 0 \/ warned'
    <3> USE FolderAssumption DEF At, Goto, Return, IInv, TypeOK, ThreadsOK, Threads, Readers, reading, thread, Last
    <3>1. CASE Enter(t)
      BY <3>1 DEF Enter
    <3>2. CASE ReadEntry(t)
      BY <3>2 DEF ReadEntry
    <3>3. CASE ReadNoMemory(t)
      BY <3>3 DEF ReadNoMemory
    <3>4. CASE ReadEnds(t)
      BY <3>4 DEF ReadEnds
    <3>5. CASE InfoPromptClosed(t) \/ Sort(t)
      BY <3>5 DEF InfoPromptClosed, Sort
    <3>6. CASE Close(t)
      BY <3>6 DEF Close
    <3> QED
      BY <1>1, <3>1, <3>2, <3>3, <3>4, <3>5, <3>6 DEF Reads
  <2> QED
    BY <2>1, <2>2 DEF Last, Inside
<1>2. ASSUME Empties PROVE Last'
  BY <1>2, EmptiesMove DEF Last, Readers
<1>3. ASSUME NEW d \in Folder, Open(d) PROVE Last'
  BY <1>3, OpenMoves DEF Last, Readers
<1>4. ASSUME Passes PROVE Last'
  <2>1. UNCHANGED <<i, entry, left, warned>>
    BY <1>4, PassesKeep DEF reading
  <2> QED
    BY <1>4, <2>1, PassesMove DEF Last, Inside
<1>5. ASSUME UNCHANGED vars PROVE Last'
  BY <1>5 DEF vars, reading, thread, Last
<1> QED
  BY <1>1, <1>2, <1>3, <1>4, <1>5, NextCases

LEMMA OrderedNext ==
  ASSUME IInv, Ordered, [Next]_vars
  PROVE  Ordered'
<1>0. ASSUME list' = <<>> \/ list' = <<Up>> PROVE InOrder(list)'
  <2>1. Len(list') \in {0, 1}
    BY <1>0
  <2> QED
    BY <2>1 DEF InOrder
<1>1. ASSUME NEW t \in Readers, Reads(t) PROVE Ordered'
  <2>1. \A o \in Readers : o # t => at'[o] = at[o] /\ at[o] \notin Inside
    BY <1>1, ReadsAlone
  <2>2. InOrder(list) \/ (at[t] \in {"read", "prompt", "sort"} /\ i[t] > 0)
    BY <2>1 DEF Ordered, Inside
  <2>3. InOrder(list)' \/ (at'[t] \in {"read", "prompt", "sort"} /\ i'[t] > 0)
    <3> USE DEF At, Goto, Return, IInv, TypeOK, ThreadsOK, Threads, Readers, reading, listing
    <3>1. CASE Enter(t) \/ Close(t)
      BY <2>2, <3>1 DEF Enter, Close
    <3>2. CASE ReadEntry(t)
      <4>1. i[t] \in 0..Batch /\ Batch \in Nat
        BY FolderAssumption
      <4> QED
        BY <2>2, <3>2, <4>1 DEF ReadEntry
    <3>3. CASE ReadNoMemory(t) \/ ReadEnds(t) \/ InfoPromptClosed(t)
      BY <2>2, <3>3 DEF ReadNoMemory, ReadEnds, InfoPromptClosed
    <3>4. CASE Sort(t)
      <4>1. CASE i[t] > 0
        BY <3>4, <4>1 DEF Sort, Sorted
      <4>2. CASE ~ (i[t] > 0)
        BY <2>2, <3>4, <4>2 DEF Sort
      <4> QED
        BY <4>1, <4>2
    <3> QED
      BY <1>1, <3>1, <3>2, <3>3, <3>4 DEF Reads
  <2> QED
    BY <2>3 DEF Ordered
<1>2. ASSUME Empties PROVE Ordered'
  BY <1>0, <1>2, EmptiesMove DEF Ordered
<1>3. ASSUME NEW d \in Folder, Open(d) PROVE Ordered'
  <2>1. list' = list \/ list' = <<Up>>
    BY <1>3 DEF Open
  <2>2. InOrder(list)
    BY <1>3, OpenMoves DEF Ordered, Readers
  <2> QED
    BY <1>0, <2>1, <2>2 DEF Ordered
<1>4. ASSUME Passes PROVE Ordered'
  <2>1. UNCHANGED <<i, list>>
    BY <1>4, PassesKeep DEF reading, listing
  <2> QED
    BY <1>4, <2>1, PassesMove DEF Ordered, Inside
<1>5. ASSUME UNCHANGED vars PROVE Ordered'
  BY <1>5 DEF vars, reading, listing, Ordered
<1> QED
  BY <1>1, <1>2, <1>3, <1>4, <1>5, NextCases

(* An entry goes from what is left to the list and to the subtitles.          *)
LEMMA HalvesRead ==
  ASSUME IInv, Halves, NEW t \in Readers, ReadEntry(t)
  PROVE  Halves'
<1> DEFINE f == Head(left)
           all == Elements(Entries[dir])
<1> SUFFICES ASSUME dirHandle, ~warned, ~lostUp PROVE Halves'
  BY DEF ReadEntry, Halves
<1>1. /\ left \in Seq(Names) /\ list \in Seq(Names) /\ subs \in Seq(Names)
      /\ left # <<>> /\ left' = Tail(left) /\ UNCHANGED <<dir, dirHandle, warned, lostUp>>
      /\ list' = (IF f \in Listed THEN Append(list, f) ELSE list)
      /\ subs' = (IF f \in Subtitle THEN Append(subs, f) ELSE subs)
  BY DEF IInv, TypeOK, ReadEntry, FindSubtitle
<1>2. /\ dir \in Folder /\ Distinct(left) /\ Distinct(list)
      /\ Elements(list) \intersect Elements(left) \subseteq {Up}
      /\ Elements(list) \union (Elements(left) \intersect Listed) = {Up} \union (all \intersect Listed)
      /\ Elements(subs) \union (Elements(left) \intersect Subtitle) = all \intersect Subtitle
  BY DEF Halves
<1>3. /\ f \in Names /\ Elements(left) = Elements(left') \union {f}
      /\ Distinct(left') /\ f \notin Elements(left')
  BY <1>1, <1>2, TailElements
<1>4. Elements(list') = IF f \in Listed THEN Elements(list) \union {f} ELSE Elements(list)
  BY <1>1, <1>3, AppendElements
<1>5. Elements(subs') = IF f \in Subtitle THEN Elements(subs) \union {f} ELSE Elements(subs)
  BY <1>1, <1>3, AppendElements
<1>6. Distinct(list')
  <2>1. f \in Listed => f \notin Elements(list)
    BY <1>2, <1>3, FolderAssumption
  <2> QED
    BY <1>1, <1>2, <1>3, <2>1, AppendElements
<1> HIDE DEF f, all
<1>7. Elements(list') \intersect Elements(left') \subseteq {Up}
  BY <1>2, <1>3, <1>4
<1>8. Elements(list') \union (Elements(left') \intersect Listed) = {Up} \union (all \intersect Listed)
  BY <1>2, <1>3, <1>4
<1>9. Elements(subs') \union (Elements(left') \intersect Subtitle) = all \intersect Subtitle
  BY <1>2, <1>3, <1>5
<1> QED
  BY <1>1, <1>2, <1>3, <1>6, <1>7, <1>8, <1>9 DEF Halves, all

LEMMA HalvesNext ==
  ASSUME IInv, Owned, Opening, Halves, [Next]_vars
  PROVE  Halves'
<1>1. ASSUME NEW t \in Readers, Reads(t) PROVE Halves'
  <2>1. CASE Enter(t) \/ ReadEnds(t) \/ InfoPromptClosed(t) \/ ReadNoMemory(t) \/ Close(t)
    <3>1. UNCHANGED <<listing, lostUp>> /\ (UNCHANGED <<left, dirHandle, warned>> \/ warned' \/ ~dirHandle')
      BY <2>1 DEF Enter, ReadEnds, InfoPromptClosed, ReadNoMemory, Close, reading
    <3> QED
      BY <3>1 DEF Halves, listing
  <2>2. CASE Sort(t)
    <3>1. UNCHANGED <<reading, subs, dir>> /\ (list' = list \/ list' \in Sorted(list))
      BY <2>2 DEF Sort
    <3>2. Elements(list') = Elements(list) /\ (Distinct(list) => Distinct(list'))
      BY <3>1, SortedElements DEF IInv, TypeOK
    <3> QED
      BY <3>1, <3>2 DEF Halves, reading
  <2> QED
    BY <1>1, <2>1, <2>2, HalvesRead DEF Reads
<1>2. ASSUME Empties PROVE Halves'
  BY <1>2, EmptiesMove DEF Owned, Halves, Inside, reading
<1>3. ASSUME NEW d \in Folder, Open(d) PROVE Halves'
  <2> SUFFICES ASSUME ~lostUp' PROVE Halves'
    BY DEF Halves
  <2>1. ~lostUp /\ ~dirHandle
    <3>1. lostUp' = lostUp \/ lostUp' = TRUE
      BY Zenon, <1>3 DEF Open
    <3>2. dirHandle => lostUp
      BY <1>3, OpenMoves DEF Owned, Inside
    <3> QED
      BY <3>1, <3>2
  <2>2. list' = <<Up>> /\ subs' = <<>> /\ left' = Entries[d] /\ dir' = d
    BY <1>3, <2>1, OpenMoves DEF Open, Opening
  <2>3. Elements(list') = {Up} /\ Elements(subs') = {} /\ Distinct(list')
    BY <2>2 DEF Elements, Distinct
  <2>4. Distinct(left')
    BY <2>2, FolderAssumption DEF Distinct
  <2> QED
    BY <2>2, <2>3, <2>4 DEF Halves
<1>4. ASSUME Passes \/ UNCHANGED vars PROVE Halves'
  BY <1>4, PassesKeep DEF vars, reading, listing, Halves
<1> QED
  BY <1>1, <1>2, <1>3, <1>4, NextCases

LEMMA CompleteNext ==
  ASSUME IInv, Held, Last, Halves, Complete, [Next]_vars
  PROVE  Complete'
<1>1. ASSUME NEW t \in Readers, Reads(t) PROVE Complete'
  <2>1. CASE Enter(t) \/ ReadNoMemory(t)
    <3>1. UNCHANGED listing /\ UNCHANGED <<dirHandle, cut, lostUp>> /\ (UNCHANGED warned \/ warned')
      BY <2>1 DEF Enter, ReadNoMemory
    <3> QED
      BY <3>1 DEF Complete, listing
  <2>2. CASE ReadEntry(t) \/ ReadEnds(t) \/ InfoPromptClosed(t) \/ Sort(t)
    <3>1. dirHandle
      BY <2>2 DEF Held, ReadEntry, ReadEnds, InfoPromptClosed, Sort, At, Inside
    <3>2. dirHandle' = dirHandle
      BY <2>2 DEF ReadEntry, ReadEnds, InfoPromptClosed, Sort, reading
    <3> QED
      BY <3>1, <3>2 DEF Complete
  <2>3. CASE Close(t)
    <3> SUFFICES ASSUME ~dirHandle', ~cut', ~warned', ~lostUp' PROVE Complete'
      BY DEF Complete
    <3>1. dirHandle /\ at[t] = "close"
      BY <2>3 DEF Held, Close, At, Inside
    <3>2. ~entry[t] /\ parseHalt = 0 /\ ~warned /\ ~lostUp /\ UNCHANGED listing
      BY <2>3, <3>1 DEF Close
    <3>3. left = <<>>
      BY <3>1, <3>2 DEF Last
    <3>4. Elements(left) = {}
      BY <3>3 DEF Elements
    <3> QED
      BY <3>1, <3>2, <3>4 DEF Halves, Complete, listing
  <2> QED
    BY <1>1, <2>1, <2>2, <2>3 DEF Reads
<1>2. ASSUME Empties PROVE Complete'
  BY <1>2, EmptiesMove DEF Complete
<1>3. ASSUME NEW d \in Folder, Open(d) PROVE Complete'
  BY <1>3 DEF Open, Complete
<1>4. ASSUME Passes \/ UNCHANGED vars PROVE Complete'
  BY <1>4, PassesKeep DEF vars, reading, listing, Complete
<1> QED
  BY <1>1, <1>2, <1>3, <1>4, NextCases

Indexing == IInv /\ Held /\ Owned /\ Opening /\ Last /\ Ordered /\ Halves /\ Complete

LEMMA IndexingInvariant == Spec => []Indexing
<1>1. Init => Indexing
  <2> SUFFICES ASSUME Init PROVE Indexing
    OBVIOUS
  <2>1. IInv
    BY InitInv, InitTypes, TypeParts DEF Inv, IInv
  <2>2. Held /\ Owned /\ Opening /\ Last
    BY DEF Init, Held, Owned, Opening, Last, Readers, Inside
  <2>3. Ordered /\ Halves /\ Complete
    BY DEF Init, Ordered, InOrder, Halves, Complete
  <2> QED
    BY <2>1, <2>2, <2>3 DEF Indexing
<1>2. Indexing /\ [Next]_vars => Indexing'
  <2> SUFFICES ASSUME Indexing, [Next]_vars, IInv' PROVE Indexing'
    BY InvNext DEF Indexing
  <2> QED
    BY HeldNext, OwnedNext, OpeningNext, LastNext, OrderedNext, HalvesNext, CompleteNext DEF Indexing
<1> QED
  BY <1>1, <1>2, PTL DEF Spec

(* Whoever reads, and wherever a batch ends: while the directory is open every   *)
(* entry to be shown is in the list, once, or still to be read.               *)
THEOREM ConservedTheorem == Spec => []Conserved
<1>1. Indexing => Conserved
  <2> SUFFICES ASSUME Indexing, dirHandle, ~warned, ~lostUp PROVE Conserved
    BY DEF Conserved
  <2>1. Cardinality(Elements(list)) = Len(list)
    BY DistinctLength DEF Indexing, IInv, TypeOK, Halves
  <2> QED
    BY <2>1 DEF Indexing, Halves, Conserved
<1> QED
  BY <1>1, IndexingInvariant, PTL

(* The list is in order whenever no batch is being read, also after a batch    *)
(* that a request to halt has cut short.                                    *)
THEOREM SortedTheorem == Spec => []SortedAtRest
<1>1. Indexing => SortedAtRest
  BY DEF Indexing, Ordered, SortedAtRest, Readers, Inside
<1> QED
  BY <1>1, IndexingInvariant, PTL

(* When the parse thread rests, the folder has been read to its end, unless a   *)
(* request to halt or want of memory ended the reading.                      *)
THEOREM IndexedTheorem == Spec => []IndexedUnlessCut
<1>1. Indexing => IndexedUnlessCut
  <2> SUFFICES ASSUME Indexing, Resting, dir # NoFolder, ~cut, ~warned, ~lostUp
               PROVE  IndexedUnlessCut
    BY DEF IndexedUnlessCut
  <2>1. ~dirHandle
    BY DEF Indexing, Owned, Resting, Inside
  <2> QED
    BY <2>1 DEF Indexing, Complete, IndexedUnlessCut
<1> QED
  BY <1>1, IndexingInvariant, PTL
=============================================================================
