--------------------------- MODULE MusicPlaylist ---------------------------
(***************************************************************************)
(* The music playlist (musicplaylist.cpp, and FindNextFile in wiimc.cpp).   *)
(* The main thread edits it for the user: it enqueues songs, playlist files  *)
(* and folders, dequeues and resets.  The player thread reads it whenever a  *)
(* song has ended, to choose the next one.  It has the higher priority and   *)
(* there is no lock: it may come between any two steps of an edit, and runs   *)
(* to its end.                                                              *)
(*                                                                         *)
(* No song is in the list twice, so an entry is named by its song.  What     *)
(* reading a null pointer or a freed entry does is not defined: fault stops   *)
(* the model there.                                                        *)
(***************************************************************************)
EXTENDS BrowserList, FiniteSets

CONSTANTS Name,      \* the place of a song's display name in the alphabet
          File,      \* the playlist files
          Items,     \* the songs of a playlist file
          Folder,    \* the folders
          Subs,      \* the folders in a folder, in the drive's order
          Files,     \* the songs and playlist files in a folder
          Below,     \* the songs whose path begins with a song's or folder's path
          Edits,     \* what the user does: "enqueue", "dequeue", "reset"
          Shortage,  \* memory may run out
          Preempt,   \* a song may end while the list is being edited
          EntryLimit \* bound: the user adds nothing to a list counted as long

ASSUME MusicAssumption ==
  /\ Name \in [Entry -> Nat]
  /\ Items \in [File -> Seq(Entry)]
  /\ Subs \in [Folder -> Seq(Folder)] /\ Files \in [Folder -> Seq(Entry \union File)]
  /\ Below \in [Entry \union Folder -> SUBSET Entry]
  /\ Shortage \in BOOLEAN /\ Preempt \in BOOLEAN /\ EntryLimit \in Nat

VARIABLES list,         \* browserMusic: its links and numEntries
          mem,          \* an entry is free, new, or has its file's name
          selIndex, shuffleIndex, shuffleList, \* as in the code
          playOrder,    \* WiiSettings.playOrder
          playing,      \* the player has a song
          fault,        \* it has read what is no entry
          heard,        \* the songs chosen since the order was last shuffled
          order,        \* the entries, first to last, as the edits done so far left them
          past,         \* since the list was last reset: "dequeued" something, an
                        \* allocation "failed" (order, heard, kept and past only observe)
          pc,           \* where the main thread is in an edit
          entry,        \* m_entry in EnqueueFile, the entry that Remove works on
          todo,         \* the songs of a playlist file still to add or remove
          calls,        \* the calls of EnqueueFolder under way, the innermost last
          drop,         \* what is being dequeued, as a set of songs
          cursor,       \* the entry the traversal of Dequeue or Reset is at
          sort          \* the local variables of SortBrowser

chosen == <<selIndex, shuffleIndex, shuffleList, playing, fault, heard>>
edit   == <<pc, entry, todo, calls, drop, cursor, sort>>
vars   == <<list, mem, playOrder, order, past, chosen, edit>>

PlayOrders == {"single", "continuous", "shuffle", "loop", "through"}

NoSort == [head |-> Null, tail |-> Null, a |-> Null, b |-> Null, e |-> Null,
           before |-> Null, after |-> Null]

(* A call of EnqueueFolder: what is left of its two loops over the folder,   *)
(* start once the second has begun, and the list at that point.             *)
Call(d) == [subs |-> Subs[d], files |-> Files[d], start |-> -1, kept |-> <<>>]

Calls == [subs: Seq(Folder), files: Seq(Entry \union File), start: Nat \union {-1}, kept: Seq(Entry)]

Sorts == [head: Link, tail: Link, a: Link, b: Link, e: Link, before: Link, after: Link]

Labels == {"idle", "load", "item", "link", "count", "name", "display", "reshuffle", "failed", "folder",
           "pass", "compare", "swap1", "swap2", "swap3",
           "scan", "items", "unlink", "select", "deselect", "unshuffle", "uncount", "free",
           "clear"}

Members == {n \in Entry : mem[n] # "free"}

TypeOK ==
  /\ list \in Lists
  /\ mem \in [Entry -> {"free", "new", "named"}]
  /\ selIndex \in Link /\ entry \in Link /\ cursor \in Link
  /\ shuffleIndex \in Nat \union {-1} /\ shuffleList \in Seq(Nat)
  /\ playOrder \in PlayOrders /\ playing \in BOOLEAN /\ fault \in BOOLEAN
  /\ heard \in SUBSET Entry /\ order \in Seq(Entry)
  /\ past \in SUBSET {"dequeued", "failed"} /\ drop \in SUBSET Entry
  /\ todo \in Seq(Entry)
  /\ calls \in Seq(Calls) /\ sort \in Sorts /\ pc \in Labels

Init ==
  /\ list = EmptyList /\ mem = [n \in Entry |-> "free"] /\ order = <<>> /\ past = {}
  /\ selIndex = Null /\ shuffleIndex = -1 /\ shuffleList = <<>> /\ heard = {}
  /\ playOrder \in PlayOrders /\ playing = FALSE /\ fault = FALSE
  /\ pc = "idle" /\ entry = Null /\ todo = <<>> /\ calls = <<>> /\ drop = {} /\ cursor = Null
  /\ sort = NoSort

-----------------------------------------------------------------------------
(* The player's side.                                                       *)

(* The entry k links behind the first one, or what is found instead.        *)
Walk(k) ==
  LET from[i \in 0..k] ==
        IF i = 0 THEN list.first
        ELSE IF from[i - 1] \in Members THEN list.next[from[i - 1]] ELSE from[i - 1]
  IN  from[k]

(* The shuffled orders of n positions.                                     *)
Shuffles(n) == {p \in [1..n -> 0..(n - 1)] : \A i, j \in 1..n : p[i] = p[j] => i = j}

(* The end of FindNextFile: the file of n becomes loadedFile.  It returns    *)
(* true exactly when selIndex is not null.                                  *)
Fault == fault' = TRUE /\ UNCHANGED selIndex

Load(n) == IF n \in Members /\ mem[n] = "named"
           THEN selIndex' = n /\ UNCHANGED fault
           ELSE Fault

NoNext == selIndex' = Null /\ UNCHANGED fault

Unshuffled == UNCHANGED <<shuffleIndex, shuffleList, heard>>

(* With shuffleIndex -1 the order is not read again, nor is what was heard.  *)
Reshuffle == shuffleIndex' = -1 /\ shuffleList' = <<>> /\ heard' = {}

(* MusicPlaylistGetNextShuffle.                                            *)
GetNextShuffle ==
  LET Pick(order_, index, since) ==
        /\ shuffleList' = order_ /\ shuffleIndex' = index + 1
        /\ IF index < Len(order_)
           THEN /\ Load(Walk(order_[index + 1]))
                /\ heard' = since \union ({selIndex'} \intersect Entry)
           ELSE Fault /\ heard' = since
  IN  IF shuffleIndex = -1 \/ shuffleIndex >= list.numEntries
      THEN \E p \in Shuffles(list.numEntries) : Pick(p, 0, {})
      ELSE Pick(shuffleList, shuffleIndex, heard)

(* FindNextFile for music.                                                 *)
FindNextFile ==
  \/ /\ list.numEntries = 0 \/ (playOrder = "single" /\ selIndex # Null)
     /\ NoNext /\ Unshuffled
  \/ /\ list.numEntries > 0 /\ playOrder = "through"
     /\ IF selIndex = Null THEN NoNext
        ELSE IF selIndex \notin Members THEN Fault
        ELSE IF list.next[selIndex] = Null THEN NoNext
        ELSE Load(list.next[selIndex])
     /\ Unshuffled
  \/ /\ list.numEntries > 0 /\ playOrder # "through" /\ selIndex = Null
     /\ Load(list.first) /\ Unshuffled
  \/ /\ list.numEntries > 0 /\ playOrder = "continuous" /\ selIndex # Null
     /\ IF selIndex \notin Members THEN Fault
        ELSE Load(IF list.next[selIndex] = Null THEN list.first ELSE list.next[selIndex])
     /\ Unshuffled
  \/ /\ list.numEntries > 0 /\ playOrder = "loop" /\ selIndex # Null
     /\ Load(selIndex) /\ Unshuffled
  \/ /\ list.numEntries > 0 /\ playOrder = "shuffle" /\ selIndex # Null
     /\ GetNextShuffle

(* A song has ended, or has been stopped with the forward button.           *)
SongEnds ==
  /\ playing /\ (pc = "idle" \/ Preempt)
  /\ FindNextFile /\ playing' = (selIndex' # Null)
  /\ UNCHANGED <<list, mem, playOrder, order, past, edit>>

-----------------------------------------------------------------------------
(* The main thread.                                                         *)

At(label) == pc = label /\ UNCHANGED playOrder
Goto(label) == pc' = label

(* The pause or forward button while nothing plays: the playlist is started, *)
(* and LoadNewFile loads loadedFile whatever FindNextFile found.            *)
StartPlaylist ==
  /\ At("idle") /\ ~playing /\ list.numEntries > 0
  /\ FindNextFile /\ Goto("load")
  /\ UNCHANGED <<list, mem, order, past, playing, entry, todo, calls, drop, cursor, sort>>

(* A song is chosen in the folder or in the playlist.                       *)
Select(n) ==
  /\ At("idle")
  /\ selIndex' = (IF mem[n] = "named" THEN n ELSE Null) /\ Goto("load")
  /\ UNCHANGED <<list, mem, order, past, entry, todo, calls, drop, cursor, sort,
                 shuffleIndex, shuffleList, playing, fault, heard>>

LoadNewFile ==
  /\ At("load") /\ Goto("idle")
  /\ \/ playing' = TRUE /\ UNCHANGED selIndex
     \/ playing' = FALSE /\ selIndex' = Null
  /\ UNCHANGED <<list, mem, order, past, entry, todo, calls, drop, cursor, sort,
                 shuffleIndex, shuffleList, fault, heard>>

ModeButton ==
  /\ pc = "idle"
  /\ playOrder' = CASE playOrder = "single" -> "continuous" [] playOrder = "continuous" -> "shuffle"
                    [] playOrder = "shuffle" -> "loop" [] playOrder = "loop" -> "through"
                    [] OTHER -> "single"
  /\ UNCHANGED <<list, mem, order, past, chosen, edit>>

-----------------------------------------------------------------------------
(* The sequence s without its element n.                                    *)
Without(s, n) ==
  LET k == CHOOSE i \in 1..Len(s) : s[i] = n
  IN  [i \in 1..(Len(s) - 1) |-> IF i < k THEN s[i] ELSE s[i + 1]]

(* The sequence s with its elements a and b exchanged.                      *)
Exchanged(s, a, b) ==
  [i \in 1..Len(s) |-> CASE s[i] = a -> b [] s[i] = b -> a [] OTHER -> s[i]]

(* A freed entry's fields mean nothing any more.                            *)
Freed(L, n) == [L EXCEPT !.next[n] = Null, !.prior[n] = Null, !.pos[n] = 0]

(* EnqueueFile.                                                             *)

Return == Goto(IF calls = <<>> THEN "idle" ELSE "folder")

(* What is not changed by a step that only works on the list.               *)
ListStep == UNCHANGED <<past, chosen, drop, cursor>>

(* A song that is in the list already is left alone.                        *)
OpenFile(f) ==
  IF f \in File
  THEN todo' = Items[f] /\ Goto("item") /\ UNCHANGED entry
  ELSE /\ todo' = <<>>
       /\ IF mem[f] = "named" THEN Return /\ UNCHANGED entry
                              ELSE entry' = f /\ Goto("link")

(* MusicPlaylistEnqueue.                                                    *)
EnqueueFile(f) ==
  /\ At("idle") /\ "enqueue" \in Edits /\ list.numEntries < EntryLimit
  /\ OpenFile(f)
  /\ ListStep /\ UNCHANGED <<list, mem, order, calls, sort>>

EnqueueFolder(d) ==
  /\ At("idle") /\ "enqueue" \in Edits /\ list.numEntries < EntryLimit
  /\ calls' = <<Call(d)>> /\ Goto("folder")
  /\ ListStep /\ UNCHANGED <<list, mem, order, entry, todo, sort>>

(* The next song of a playlist file, or none: reset shuffle.                *)
NextItem ==
  /\ At("item")
  /\ IF todo = <<>>
     THEN Goto("reshuffle") /\ UNCHANGED <<entry, todo>>
     ELSE /\ todo' = Tail(todo)
          /\ IF mem[Head(todo)] = "named" THEN UNCHANGED <<pc, entry>>
             ELSE entry' = Head(todo) /\ Goto("link")
  /\ ListStep /\ UNCHANGED <<list, mem, order, calls, sort>>

(* AddEntryMusic allocates and links the entry, or fails.                   *)
AddLink ==
  /\ At("link")
  /\ \/ /\ mem' = [mem EXCEPT ![entry] = "new"]
        /\ list' = LinkNew(list, entry) /\ Goto("count")
     \/ Shortage /\ Goto("failed") /\ UNCHANGED <<mem, list>>
  /\ ListStep /\ UNCHANGED <<order, entry, todo, calls, sort>>

AddCount ==
  /\ At("count")
  /\ list' = CountNew(list, entry) /\ order' = Append(order, entry) /\ Goto("name")
  /\ ListStep /\ UNCHANGED <<mem, entry, todo, calls, sort>>

(* DeleteEntryMusic, when a copy of a name does not fit into memory.        *)
Delete ==
  /\ Shortage
  /\ list' = Freed(Unlink(list, entry), entry) /\ mem' = [mem EXCEPT ![entry] = "free"]
  /\ order' = Without(order, entry) /\ Goto("failed")

AddFile ==
  /\ At("name")
  /\ \/ mem' = [mem EXCEPT ![entry] = "named"] /\ Goto("display") /\ UNCHANGED <<list, order>>
     \/ Delete
  /\ ListStep /\ UNCHANGED <<entry, todo, calls, sort>>

AddDisplay ==
  /\ At("display")
  /\ \/ Goto("item") /\ entry' = Null /\ UNCHANGED <<list, mem, order>>
     \/ Delete /\ UNCHANGED entry
  /\ ListStep /\ UNCHANGED <<todo, calls, sort>>

(* Mutant: a file's songs are added without resetting shuffle.              *)
ResetShuffleNot ==
  /\ At("reshuffle") /\ Return
  /\ UNCHANGED <<list, mem, order, past, chosen, entry, todo, calls, drop, cursor, sort>>

ResetShuffle ==
  /\ At("reshuffle")
  /\ Reshuffle /\ Return
  /\ UNCHANGED <<list, mem, order, past, selIndex, playing, fault,
                 entry, todo, calls, drop, cursor, sort>>

(* EnqueueFile returns -1: its caller leaves the loop over the files.        *)
EnqueueFails ==
  /\ At("failed")
  /\ calls' = IF calls = <<>> THEN calls
              ELSE [calls EXCEPT ![Len(calls)].files = <<>>]
  /\ todo' = <<>> /\ entry' = Null /\ Return /\ past' = past \union {"failed"}
  /\ UNCHANGED <<list, mem, order, chosen, drop, cursor, sort>>

-----------------------------------------------------------------------------
(* EnqueueFolder, in the innermost of the calls under way.                  *)

Top == calls[Len(calls)]
SetTop(c) == calls' = [calls EXCEPT ![Len(calls)] = c]

(* The first loop: the folder's folders.  One that cannot be read, for want  *)
(* of memory, ends the loop.                                                *)
SubFolder ==
  /\ At("folder") /\ Top.start = -1 /\ Top.subs # <<>>
  /\ \/ calls' = Append([calls EXCEPT ![Len(calls)].subs = Tail(@)], Call(Head(Top.subs)))
     \/ Shortage /\ SetTop([Top EXCEPT !.subs = <<>>])
  /\ ListStep /\ UNCHANGED <<pc, list, mem, order, entry, todo, sort>>

OpenAgain ==
  /\ At("folder") /\ Top.start = -1 /\ Top.subs = <<>>
  /\ SetTop([Top EXCEPT !.start = list.numEntries, !.kept = order])
  /\ ListStep /\ UNCHANGED <<pc, list, mem, order, entry, todo, sort>>

(* The second loop: its files.                                             *)
FolderFile ==
  /\ At("folder") /\ Top.start # -1 /\ Top.files # <<>>
  /\ SetTop([Top EXCEPT !.files = Tail(@)]) /\ OpenFile(Head(Top.files))
  /\ ListStep /\ UNCHANGED <<list, mem, order, sort>>

CloseFolder ==
  /\ calls' = SubSeq(calls, 1, Len(calls) - 1)
  /\ Goto(IF Len(calls) = 1 THEN "idle" ELSE "folder")

FolderDone ==
  /\ At("folder") /\ Top.start # -1 /\ Top.files = <<>>
  /\ IF list.numEntries - Top.start > 1
     THEN /\ sort' = [NoSort EXCEPT !.head = list.first, !.tail = list.last]
          /\ Goto("pass") /\ UNCHANGED calls
     ELSE CloseFolder /\ UNCHANGED sort
  /\ ListStep /\ UNCHANGED <<list, mem, order, entry, todo>>

-----------------------------------------------------------------------------
(* SortBrowser with MusicSortCallback.                                      *)

(* Mutant: the window ends one entry too early.                               *)
InWindowShort(n) == list.pos[n] \in Top.start..(list.numEntries - 2)

(* MusicSortStart to MusicSortEnd.                                          *)
InWindow(n) == list.pos[n] \in Top.start..(list.numEntries - 1)

Exchanges(a, b) == InWindow(a) /\ InWindow(b) /\ Name[a] > Name[b]

(* while(e != head->next)                                                  *)
SortPass ==
  /\ At("pass")
  /\ IF sort.head = Null \/ sort.e = list.next[sort.head]
     THEN /\ list' = IF sort.head = Null THEN list
                     ELSE [list EXCEPT !.first = sort.head, !.last = sort.tail]
          /\ sort' = NoSort /\ CloseFolder
     ELSE /\ sort' = [sort EXCEPT !.a = sort.head] /\ Goto("compare")
          /\ UNCHANGED <<list, calls>>
  /\ ListStep /\ UNCHANGED <<mem, order, entry, todo>>

(* Mutant: only the first round shortens the next one.                       *)
OnwardKeepE(a, b) == [NoSort EXCEPT !.head = sort.head, !.tail = sort.tail, !.a = a,
                                    !.e = IF sort.e = Null /\ b = Null THEN a ELSE sort.e]

(* while(a != e), with the assignments to b and e at the end of a round.     *)
Onward(a, b) == [NoSort EXCEPT !.head = sort.head, !.tail = sort.tail, !.a = a,
                               !.e = IF b = sort.e THEN a ELSE sort.e]

SortCompare ==
  /\ At("compare")
  /\ IF sort.a = sort.e THEN Goto("pass") /\ UNCHANGED sort
     ELSE LET b == list.next[sort.a]
          IN  IF Exchanges(sort.a, b)
              THEN /\ sort' = [sort EXCEPT !.b = b, !.before = list.prior[sort.a],
                                           !.after = list.next[b]]
                   /\ Goto("swap1")
              ELSE sort' = Onward(b, list.next[b]) /\ UNCHANGED pc
  /\ ListStep /\ UNCHANGED <<list, mem, order, entry, todo, calls>>

SortSwap1 ==
  /\ At("swap1")
  /\ list' = Swap1(list, sort.a, sort.b, sort.before) /\ Goto("swap2")
  /\ ListStep /\ UNCHANGED <<mem, order, entry, todo, calls, sort>>

SortSwap2 ==
  /\ At("swap2")
  /\ list' = Swap2(list, sort.b, sort.before) /\ Goto("swap3")
  /\ ListStep /\ UNCHANGED <<mem, order, entry, todo, calls, sort>>

SortSwap3 ==
  /\ At("swap3")
  /\ list' = Swap3(list, sort.a, sort.b, sort.after)
  /\ sort' = [Onward(sort.a, sort.after) EXCEPT
                !.head = IF sort.before = Null THEN sort.b ELSE @,
                !.tail = IF sort.after = Null THEN sort.a ELSE @]
  /\ order' = Exchanged(order, sort.a, sort.b)
  /\ Goto("compare")
  /\ ListStep /\ UNCHANGED <<mem, entry, todo, calls>>

-----------------------------------------------------------------------------
(* MusicPlaylistDequeue and Remove.                                         *)

(* A song or a folder: every song whose path begins like it.                *)
Dequeue(x) ==
  /\ At("idle") /\ "dequeue" \in Edits
  /\ drop' = Below[x] /\ cursor' = list.first /\ Goto("scan")
  /\ UNCHANGED <<list, mem, order, past, chosen, entry, todo, calls, sort>>

Scan ==
  /\ At("scan")
  /\ IF cursor = Null
     THEN Goto("idle") /\ drop' = {} /\ UNCHANGED <<cursor, entry>>
     ELSE /\ cursor' = list.next[cursor] /\ UNCHANGED drop
          /\ IF cursor \in drop THEN entry' = cursor /\ Goto("unlink")
                               ELSE UNCHANGED <<pc, entry>>
  /\ UNCHANGED <<list, mem, order, past, chosen, todo, calls, sort>>

(* A playlist file: its songs.                                              *)
DequeueItems(f) ==
  /\ At("idle") /\ "dequeue" \in Edits
  /\ todo' = Items[f] /\ Goto("items")
  /\ UNCHANGED <<list, mem, order, past, chosen, entry, calls, drop, cursor, sort>>

ScanItem ==
  /\ At("items")
  /\ IF todo = <<>> THEN Goto("idle") /\ UNCHANGED <<entry, todo>>
     ELSE /\ todo' = Tail(todo)
          /\ IF mem[Head(todo)] = "named" THEN entry' = Head(todo) /\ Goto("unlink")
                                         ELSE UNCHANGED <<pc, entry>>
  /\ UNCHANGED <<list, mem, order, past, chosen, calls, drop, cursor, sort>>

RemoveLinks ==
  /\ At("unlink")
  /\ list' = Unlink(list, entry) /\ Goto("select")
  /\ order' = Without(order, entry)
  /\ ListStep /\ UNCHANGED <<mem, entry, todo, calls, sort>>

(* Mutant: the selected entry is freed as any other.                         *)
RemoveTestNot ==
  /\ At("select") /\ Goto("unshuffle")
  /\ ListStep /\ UNCHANGED <<list, mem, order, entry, todo, calls, sort>>

(* The player may come between the test of selIndex and the assignment.     *)
RemoveTest ==
  /\ At("select")
  /\ Goto(IF selIndex = entry THEN "deselect" ELSE "unshuffle")
  /\ ListStep /\ UNCHANGED <<list, mem, order, entry, todo, calls, sort>>

RemoveDeselect ==
  /\ At("deselect")
  /\ selIndex' = Null /\ Goto("unshuffle")
  /\ UNCHANGED <<list, mem, order, past, shuffleIndex, shuffleList, playing, fault, heard,
                 entry, todo, calls, drop, cursor, sort>>

RemoveShuffle ==
  /\ At("unshuffle")
  /\ Reshuffle /\ Goto("uncount")
  /\ UNCHANGED <<list, mem, order, past, selIndex, playing, fault,
                 entry, todo, calls, drop, cursor, sort>>

(* Mutant: a removed song is still counted.                                  *)
RemoveCountNot ==
  /\ At("uncount") /\ Goto("free") /\ past' = past \union {"dequeued"}
  /\ UNCHANGED <<list, mem, order, chosen, entry, todo, calls, drop, cursor, sort>>

RemoveCount ==
  /\ At("uncount")
  /\ list' = IF list.numEntries > 0 THEN [list EXCEPT !.numEntries = @ - 1] ELSE list
  /\ past' = past \union {"dequeued"} /\ Goto("free")
  /\ UNCHANGED <<mem, order, chosen, entry, todo, calls, drop, cursor, sort>>

RemoveFree ==
  /\ At("free")
  /\ mem' = [mem EXCEPT ![entry] = "free"] /\ list' = Freed(list, entry)
  /\ entry' = Null /\ Goto(IF drop = {} THEN "items" ELSE "scan")
  /\ ListStep /\ UNCHANGED <<order, todo, calls, sort>>

-----------------------------------------------------------------------------
(* ResetMusic: the entries are freed one by one before the list is emptied.  *)

ResetMusic ==
  /\ At("idle") /\ "reset" \in Edits
  /\ cursor' = list.first /\ Goto("clear")
  /\ UNCHANGED <<list, mem, order, past, chosen, entry, todo, calls, drop, sort>>

ResetEntry ==
  /\ At("clear") /\ cursor # Null
  /\ mem' = [mem EXCEPT ![cursor] = "free"] /\ cursor' = list.next[cursor]
  /\ UNCHANGED <<pc, list, order, past, chosen, entry, todo, calls, drop, sort>>

ResetDone ==
  /\ At("clear") /\ cursor = Null
  /\ list' = EmptyList /\ order' = <<>> /\ past' = {} /\ selIndex' = Null /\ Goto("idle")
  /\ UNCHANGED <<mem, shuffleIndex, shuffleList, playing, fault, heard,
                 entry, todo, calls, drop, cursor, sort>>

-----------------------------------------------------------------------------
(* The user begins an edit; the steps after that follow by themselves.      *)
UserStep ==
  \/ \E n \in Entry : Select(n)
  \/ StartPlaylist \/ ModeButton \/ ResetMusic
  \/ \E f \in Entry \union File : EnqueueFile(f)
  \/ \E d \in Folder : EnqueueFolder(d)
  \/ \E x \in Entry \union Folder : Dequeue(x)
  \/ \E f \in File : DequeueItems(f)

AddStep == NextItem \/ AddLink \/ AddCount \/ AddFile \/ AddDisplay \/ ResetShuffle \/ EnqueueFails
FolderStep == SubFolder \/ OpenAgain \/ FolderFile \/ FolderDone
SortStep == SortPass \/ SortCompare \/ SortSwap1 \/ SortSwap2 \/ SortSwap3
RemoveStep == \/ Scan \/ ScanItem \/ RemoveLinks \/ RemoveTest \/ RemoveDeselect
              \/ RemoveShuffle \/ RemoveCount \/ RemoveFree
ResetStep == ResetEntry \/ ResetDone

EditStep == ~fault /\ (LoadNewFile \/ AddStep \/ FolderStep \/ SortStep \/ RemoveStep \/ ResetStep)

Next == EditStep \/ (~fault /\ (UserStep \/ SongEnds))

Spec == Init /\ [][Next]_vars

FairSpec == Spec /\ WF_vars(EditStep)

-----------------------------------------------------------------------------
(* The list once the operation under way on its links is complete.          *)
Settled ==
  CASE pc = "count" -> CountNew(list, entry)
    [] pc = "swap2" -> Swap3(Swap2(list, sort.b, sort.before), sort.a, sort.b, sort.after)
    [] pc = "swap3" -> Swap3(list, sort.a, sort.b, sort.after)
    [] OTHER -> list

(* The ends SortBrowser has not yet stored.                                 *)
Ends(L) == CASE pc \in {"pass", "compare", "swap1"} -> [L EXCEPT !.first = sort.head, !.last = sort.tail]
             [] pc \in {"swap2", "swap3"} ->
                  [L EXCEPT !.first = IF sort.before = Null THEN sort.b ELSE sort.head,
                            !.last = IF sort.after = Null THEN sort.a ELSE sort.tail]
             [] OTHER -> L

SettledOrder ==
  CASE pc = "count" -> Append(order, entry)
    [] pc \in {"swap2", "swap3"} -> Exchanged(order, sort.a, sort.b)
    [] OTHER -> order

(* Whatever edits were made, and wherever in an edit the main thread is, the *)
(* links followed forwards and backwards give the same entries, once each.  *)
ListInvariant == pc # "clear" => Represents(Ends(Settled), SettledOrder)

(* Between edits numEntries is the number of entries, unless an allocation   *)
(* has failed.                                                              *)
CountAgrees == pc = "idle" /\ "failed" \notin past => list.numEntries = Len(order)

(* The player never continues from an entry that has been freed.            *)
SelectionInList == pc = "idle" \/ Preempt => selIndex \in Members \union {Null}

(* FindNextFile never follows a null pointer, off the list's end or from a   *)
(* list that says it is not empty, and never reads beyond shuffleList,      *)
(* unless an allocation has failed.                                         *)
NoFault == "failed" \notin past => ~fault

(* In shuffle order, the songs chosen in a round are all different, and at   *)
(* the end of the round they are all the songs there are.                   *)
RoundHearsAll ==
  pc = "idle" /\ "failed" \notin past /\ list.numEntries > 0 /\ shuffleIndex # -1 =>
    /\ Cardinality(heard) = shuffleIndex
    /\ shuffleIndex >= list.numEntries => heard = Members

(* Sorting is per folder: the songs that were in the list before a folder's  *)
(* own are added stay where they were ...                                   *)
OthersKeepPlace ==
  calls # <<>> /\ Top.start # -1 /\ pc \notin {"swap1", "swap2", "swap3"}
    => SubSeq(order, 1, Len(Top.kept)) = Top.kept

(* ... which is so as long as nothing has been dequeued.  When the folder is  *)
(* done, its own are in alphabetical order.                                 *)
SortedPerFolder ==
  [][Len(calls') < Len(calls) /\ "dequeued" \notin past =>
       /\ SubSeq(order', 1, Len(Top.kept)) = Top.kept
       /\ \A i, j \in (Len(Top.kept) + 1)..Len(order') :
            i < j => Name[order'[i]] <= Name[order'[j]]]_vars

(* Every edit comes to an end, whatever the player does meanwhile.          *)
EditEnds == (pc # "idle") ~> (pc = "idle" \/ fault)

IInv == TypeOK /\ ListInvariant
=============================================================================
