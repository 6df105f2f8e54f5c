# WiiMC: a verification project

WiiMC 3 is a media player for the Nintendo Wii: a file browser and a GUI
written for it (`src/source/*.cpp`, `src/source/libwiigui`,
`src/source/utils`), around a port of MPlayer (`src/source/mplayer`), on top of
libogc.  This directory holds TLA+ models of its own concurrent and
list-handling logic, the TLC runs that check them on small instances and the
theorems about them that TLAPS proves.

## 1. The system

### Threads

The Wii has one core; libogc schedules threads by priority and preempts only
for a thread of higher priority or at the end of a time slice among equals.

| thread | priority | started at | does |
|---|---|---|---|
| main | libogc's default | `wiimc.cpp` `main` | alternates `WiiMenu()` and `MPlayerMenu()` |
| GUI, progress, screensaver, credits | 60 | `menu.cpp:8043` | draws, reads the controllers, draws the progress windows |
| thumbnails | 60 | `menu.cpp:3474` | loads pictures for the browser |
| mplayer | 68 | `wiimc.cpp:674` | MPlayer's `main`: demux, decode, play |
| cache | 70 | `wiimc.cpp:1163` | fills the stream cache |
| device | 40 | `fileop.cpp:237` | polls drives, mounts and unmounts |
| parse | 40 | `fileop.cpp:289` | reads the rest of a long directory |
| network | 40 | `networkop.cpp:128` | brings up the network |
| exit | 40 | `wiimc.cpp:137` | runs `ExitApp` |

There are almost no locks.  Threads are parked with `LWP_SuspendThread(self)`
and woken with `LWP_ResumeThread`; "halt" flags (0 run, 1 suspend, 2 stop) ask
them to; other threads poll `LWP_ThreadIsSuspended`.

### Components

| component | source | state it keeps | operations | interacts with | hard because | correct means |
|---|---|---|---|---|---|---|
| stream cache | `mplayer/stream/cache2.c`, `stream.c` | ring buffer, window pointers, read position, eof, command slot | fill, flush, seek, read, control | demuxers (player thread), drivers (cache thread) | two threads share every pointer without a lock; blocking reads in the middle | bytes delivered are the file's, no read waits for ever |
| cache thread | `cache2.c`, `wiimc.cpp` | `stop_cache_thread`, `cachearg`, suspended or not, the stream's copy | enable, uninit, quit, suspend, resume | stream cache, player | give-up (`getMESS`) leaves half-stopped states | never fills a freed stream, enable never waits for ever |
| player control | `wiimc.cpp`, `mplayer/mplayer.c` | `controlledbygui`, `settings`, file names | load, resume, stop, pause, next file | GUI, device thread, sleep timer | three writers of one flag, two waiting loops | a request is taken up, neither side waits for ever |
| device and parse threads | `fileop.cpp` | halt flags, suspended or not | resume, suspend, stop | GUI, loaders | suspend by flag and polling; nested suspends | no work while suspended, no lost wake-up |
| mounting | `fileop.cpp` | `part[][]`, `devType`, `isInserted`, DVD motor state | mount, unmount, find partitions, change interface | browser, loaders, network | hot plugging while in use | partition tables consistent, no two entries for one partition |
| directory parsing | `fileop.cpp` | open directory, browser list, parse halt | open, parse 20 entries, parse the rest, abort | browser, parse thread | a list appended by one thread and read and sorted by another | entries once each, sorted, in the directory's order of numbering |
| browser list | `filebrowser.cpp` | doubly linked list, selected, numbers | add, delete, sort, find, history | GUI, parser | stale indices and pointers | links, count and numbers agree |
| music playlist | `musicplaylist.cpp` | list, selected, shuffle order | enqueue, remove, clear, shuffle | GUI, player thread (`FindNextFile`) | shuffle order is kept in the list itself | every song once per round, order by folder |
| playing next file | `wiimc.cpp` | `loadedFile`, browsers, play mode | next audio file, next video, shuffle | player, playlist | run by the player thread on the GUI's lists | the right successor, or stop |
| network | `networkop.cpp` | `networkInit`, SMB and FTP shares, halt flag | start, stop, initialise, connect | browser, cache thread | asynchronous initialisation, restarted by the cache thread | one initialisation at a time, and it ends |
| GUI threads | `menu.cpp` | `guiHalt`, `progressThread` flags, action | start, stop, halt, resume, show progress, cancel | everything | handshakes by polled flags | a shown window is cancelled, no update while halted |
| menu navigation | `menu.cpp` | `menuCurrent`, `menuPrevious`, saved folders | change, undo | device thread | undone from another thread | the previous menu is restored |
| GUI toolkit | `libwiigui/*` | windows, focus, scrolled lists | update, focus, paging | GUI thread | index arithmetic at list ends | the selection stays in the list |
| settings | `settings.cpp` | settings record | load, save, validate | everything | versions, defaults | read back what was saved |
| sleep timer, shutdown | `wiimc.cpp` | sleep end, flags | set, check, exit | player | races with loading | switches off once, when due |
| memory pool | `utils/mem2_manager.c` | areas | allocate, free | everything | ownership | blocks disjoint |
| HTTP, FTP | `utils/http.c`, `utils/ftp_devoptab.c` | connection state | request, parse | network | partial reads | |
| rendering, fonts, images, encoders | `video.cpp`, `utils/FreeTypeGX*`, `easybmp`, `pngu`, `vi_encoder`, `gettext`, ... | | | | hardware and pixels | not modelled |
| MPlayer's demuxers, codecs, output; ffmpeg; libs | `source/mplayer/**`, `libs/**` | | | | vendored | not modelled |

### Hard behaviours

- The cache thread and the player share the cache's pointers without a lock.
- Flags that several threads set and several wait for (`controlledbygui`,
  `getMESS`, `waitReload`, `guiHalt`, `showProgress`, `parseHalt`,
  `deviceHalt`), without atomic read-modify-write.
- Suspension by polling, not counted, so nested suspends end early.
- The player thread chooses the next file from lists the GUI edits.
- A directory is parsed by two threads in turn, into a list that is sorted in
  between.
- Drives disappear while a menu or the player uses them.

`PROJECT.json` lists each hazard at its line.

## 2. Plan

Done: `StreamCache` with its abstract specification `FileReader`;
`PlayerControl`; `BrowserList` and `MusicPlaylist`; `DirParse`; the threads'
other hand-shakes, `CacheThread`, `GuiWindows` with `GuiPictures`,
`DeviceThread`, `NetworkThread`; `VideoPlaylist` and `Partitions`; `MCThreads`,
which checks them together with `PlayerControl`.

Proved: every invariant and every action property that a passing run checks,
and the refinement of `FileReader`.  There is a module of proofs for each of
`StreamCache`, `MusicPlaylist` (with `BrowserList`), `DirParse`,
`PlayerControl`, `CacheThread`, `GuiWindows` and `VideoPlaylist`;
`MCThreadsProofs` takes over what they prove to the composition and proves the
rest of it.  A theorem with a hypothesis names a setting, and each section
says why it is needed.  Section 13 says what stays with TLC.

Left, in order:

1. `MusicPlaylist` with preemption: what of `NoFault` and `RoundHearsAll`
   does hold when a song ends during an edit (between edits, or once the edit
   is over).
2. `NetworkThread`: an invariant about who may wake the network thread, under
   which `StopNetworkThread` cannot join a parked one; what is checked of it is
   liveness only.
3. The hazards without a property, as far as a property can be claimed.

Runs are kept to one per question; a run that shows a finding is given up when
the finding is covered by a stronger one.

## 3. The stream cache

`StreamCache` models `cache2.c` as built for the Wii: the cache thread
(`cache_fill`, `cache_execute_control`) and the player thread (`cache_read`,
`cache_stream_fill_buffer`, `cache_stream_seek_long`, `cache_do_control`).

| model | code |
|---|---|
| `min_filepos`, `max_filepos`, `offset`, `read_filepos`, `eof`, `control`, `control_res`, `buffer` | the fields of `cache_vars_t` |
| `spos`, `error` | position and error count of the cache thread's own stream |
| `stream_pos`, `got` | `s->pos` of the player's stream, what `cache_read` has copied so far |
| `fpc`, `plan` | where the cache thread blocks, and the locals it holds meanwhile |
| `rpc`, `todo` | the same for the player thread |
| `getMESS` | the flag a reader sets when it has lost patience |

A byte is its position in the file; `Junk` is the content of a slot that was
never filled or was given up.  The cache thread has the higher priority on a
single core, so it is interrupted only where it blocks: at the seek
(`FillFlush`/`FillSeek`), the read (`FillForward` or `FillSeek`/`FillRead`,
`FillFailed`) and the control call.  The reader is interrupted between any two
accesses to what the cache thread writes, so each is a step of its own:

| step of a turn of `cache_read` | `cache2.c` | accesses |
|---|---|---|
| `ReadMax`, `ReadMin` | 150 | `max_filepos`, then `min_filepos` |
| `ReadEof`, or `ReadWait`, `ReadGiveUp` | 152 | `eof`, when the position is out of the window |
| `ReadNew` | 158 | `max_filepos` again, for `newb` |
| `ReadLocate` | 162 | `offset` |
| `ReadOdd` or `ReadCopy` | 175, 181 | the "very very odd error", or the copy |

The fields are not volatile, so a compiler may keep `max_filepos` from line 150
to 158 (the build is -O3); the constant `Reloads` says that it does not.
`StartBlock` and `Kept` are the arithmetic of `cache_fill` in its order,
including the read position it keeps from its beginning over the blocking
calls.

`FileReader` is what the demuxer sees: a file read sector by sector, with
seeks.  `StreamCache` implements it with `pos <- stream_pos, taken <- got`.

| run | bounds | shows |
|---|---|---|
| `stream_cache_file` | a ring of 8 bytes, file of 11 bytes, read_chunk set as for a local file, `Reloads` | the inductive invariant `IInv`, `BufferHoldsWindow`, `PieceLostOnlyToFlush`, `EndIsReal`, the action property `BackBytesKept`, and that `FileReader` is implemented |
| `stream_cache_net` | the same ring, file of 9 bytes, reads that fail silently, not `Reloads` | `PositionsAgree`, and that every read and command ends |
| `stream_cache_lost_seek` | as the first | finding: `SeekIsNeverLost` |

The geometry keeps the proportions of the code (`fill_limit` a half of the
smallest buffer, back buffer a quarter, seek limit cut at buffer minus fill
limit) and shrinks the numbers: a sector is 2 bytes, the buffer 4 sectors.  The
file is longer than the buffer, so that the ring wraps, the window moves with
and without a flush, and the end is reached at, before and behind a sector's
end.  `error` saturates at `ErrorCap`, above the limit the code compares with.

Fairness: weak fairness of each thread's steps; both threads only sleep
(`usleep`, `LWP_YieldThread`) or block in a device call between their steps,
and libogc schedules a thread again after that.  What the demuxer asks for is
free.

Proved in `StreamCacheProofs`, for every geometry that `cache_init` and
`stream_enable_cache` can set up (`GeometryAssumption`) and every file
(`FileAssumption`): `IInv` is an invariant; from it `BufferHoldsWindow`,
`PieceLostOnlyToFlush`, `PositionsAgree` and `BackBytesKept`; with `Reloads`
also `DeliveredIsFile` and the refinement; and `EndIsReal`, where a read that
fails before the end sets the stream's error (`~SilentFailures`, the setting of
its run: the drivers of drives do so, a network driver may return 0 without
one).  `IInv` needs, besides what is to be shown, where the blocking calls are:
the block being read is free and starts at the window's end (`BlockIsFree`), and
the cache thread's stream stands at the window's end (`WindowOK`).  `ReaderOK`
has what each of the reader's accesses has found and what of it still holds:
once the position has been compared with both ends of the window it stays
between them, and the piece chosen stays in the window until it is copied, since
the cache thread may overwrite only what lies before the reader's position less
its back bytes, or move the window away while the position is out of it.

After a seek back the position is below both ends, so the first comparison
passes; if the cache thread flushes before the second one, that passes too, and
the window is empty.  What follows depends on `Reloads`.  With it, `newb` is 0
and the turn starts again through the "very very odd error", with nothing lost.
Without it, `newb` is what was left of the old window, and bytes of no known
place are delivered: TLC finds `DeliveredIsFile` violated in 14 steps when
`Reloads` is FALSE in `MCStreamCache.cfg`.  `PieceLostOnlyToFlush` says, for both
kinds of code, that there is no other way to an empty or a stale piece.

`EndIsReal` says of a reader that is told of the end of the file only that the
cache has the file to its end.  It does not say that the reader has: between its
test of the window and that of `eof` the cache thread may read the last bytes
and find the end, and the reader returns with these bytes left in the window; or
the reader has sought (the finding).  `EndOK` is what it needs: `eof` without an
error means the window reaches the end, and what the reader read is still so
when it returns, although the cache thread sets `eof` and the reader clears it
with nothing to order them.

Only model-checked, being liveness: `ReadEnds`, `CommandEnds`.

Finding: a seek of the reader clears `eof`; the cache thread, whose read at the
old position returns 0 just then, sets it again (`cache2.c:326`), and the
reader takes the new position for the end of the file.  The file says of
itself that it "doesn't require locking!!" (`cache2.c:22`).

Not modelled: torn 64-bit stores, failing seeks, drivers whose SEEK_TO_TIME
does not move `s->pos`.  Starting, pausing and stopping the thread is
`CacheThread`.

## 4. Player control

`PlayerControl` models `controlledbygui` and everyone who writes it.

| model | code |
|---|---|
| `control` | `controlledbygui`: 0 player, 1 menus, 2 end the film |
| `filename`, `song`, `videos`, `ppc`, `err` | MPlayer's `filename`, where it came from, the place in `main` of `mplayer.c` |
| `loaded`, `chosen`, `mpc`, `back` | `loadedFile`, the choice in `MenuBrowse`, the main thread's place, the button of a paused film |
| `guiShutdown`, `menuMode`, `gui`, `exit`, `due` | the GUI thread's flags, `ExitRequested`, the sleep timer |
| `halt`, `dev`, `plugged`, `mounted` | `deviceHalt`, the device thread, the drive |

The player thread is preempted by none of the others, so one of its actions is
what it does between two sleeps.  The main, GUI and device threads interleave
at each access.  Three timing assumptions are named in the module: the main
thread's loops, which look every 0.1 ms, see a value that the player keeps for
a sleep of 50 ms or for the opening of a file (`MainSees`); the half-second
sleep of `MPlayerMenu` is a place of its own (`Nap`); and the player does not
take a file between two adjacent assignments of `WiiMenu`.

The constants are what the user and the world may do (`AutoNext`,
`SongsWithVideo`, `Reselect`, `Removals`, `MountFails`, `SleepTimer`).

| run | environment | shows |
|---|---|---|
| `threads`, part `writers` | reselection, removals, failing mounts, sleep timer | `ShutdownRequestKept`, `PreviousEndedByChoice`, `MainIsAnswered`, `StopHeardByChoice`, `GuiGivesWayByChoice` |
| `threads`, part `playlist` | a playlist, songs that hold videos, failing mounts | `ShutdownRequestKept`, `OneDrawerAwake`, `MainIsAnswered` |
| `player_reselect` | reselection | finding: `ResumeAnswered` |
| `player_between_songs` | a playlist | finding: `PreviousFileEnded` |

The names in `MCThreads` that differ from those of `PlayerControl` say for
which of the two parts a property is claimed: `PreviousEndedByChoice`, for
instance, is `PreviousFileEnded` where the player follows no play order.
`MainIsAnswered` is `LoadAnswered`, and in `playlist` `ResumeAnswered` as well.

Two files suffice, one on the drive and one not: no step compares more than
the file chosen with the file loaded.  The state space is finite without
bounds.  `CHECK_DEADLOCK FALSE`: the machine is switched off in the end.

Fairness: weak fairness per thread, since every loop of each contains a sleep
and no thread of higher priority runs for ever.  The user, the drive, the end
of a film and the press of the home button are not fair.

Combinations that are not run, and why: with the sleep timer `OneDrawer`
fails and the exit is not reached (a 2 of the timer that meets the end of a
film is discarded, hazard at `menu.cpp:8341`); with removals `ResumeAnswered`
fails; with a playlist `PreviousFileEnded`, `StopHeard` and, with videos in
it, `GuiGivesWay` fail.

`PlayerControlProofs` proves, for any files and whatever the user and the drive
may do:

- `TypeOK`, in every setting;
- `ShutdownRequestKept`, if `Undisturbed`: with a play order (`AutoNext`), no
  removals and no sleep timer;
- `PreviousFileEnded`, without a play order;
- `OneDrawer`, if `Undisturbed` and without sleep timer.

The hypotheses are not the proof's: TLC, run over all 32 settings of the other five
constants (mounts may fail), finds `ShutdownRequestKept` violated in just those with `AutoNext`
and one of `Removals` and `SleepTimer`, and `PreviousFileEnded` in just those
with `AutoNext`.  `OneDrawer` is violated with `SleepTimer`, and with
`AutoNext`, `Removals` and `Reselect` together; the theorem's hypothesis leaves
out `AutoNext` with `Removals` altogether.

The inductive invariant `Inv` says what each of the five threads may rely on:
who may tell the menus to go and that it is done once (`ModeOK`, `ShowOK`),
where the device thread is parked (`ParkedOK`), that without timer or removals
nobody else stops a film (`TimerOK`, `DriveOK`), and that without a play order
only `LoadMPlayerFile` gives the player a file (`LoadOK`).  `EndedOK` and
`FilmOK` are kept on top of it.

Not modelled: the DVD menu, autoplay with an empty list, what `ExitApp` does.
The reload of a lost stream (`waitReload`) is in `CacheThread`, as far as it
touches the cache.

## 5. Lists and the music playlist

`BrowserList` has the operations of `filebrowser.cpp` on a doubly linked list,
cut where another thread can see the list in between: `LinkNew`/`CountNew`
(`AddEntry`), `Unlink` (`DeleteEntry` and the playlist's `Remove`), `Swap1` to
`Swap3` (one exchange of `SortBrowser`).  `Represents(L, s)` says that the
links of `L`, followed both ways, are the sequence `s`.

`MusicPlaylist` models `musicplaylist.cpp` and the choice of the next song in
`FindNextFile`.  The main thread's edits go in small steps (`pc`); nested calls
of `EnqueueFolder` are a stack (`calls`); the player's `FindNextFile` is one
action, since the player has the higher priority and does not sleep in it.  A
read of a null or freed pointer sets `fault` and ends the behaviour.  An entry is
named by its song, since no song is enqueued twice.  `order`, `heard`, `past`
and the field `kept` of a call only observe.

| run | bounds | shows |
|---|---|---|
| `playlist_edit` | 3 songs, a playlist file, a folder in a folder; no preemption; allocations may fail; nothing is added to a list counted as `EntryLimit` = 2 | `IInv` (types and `ListInvariant`), `CountAgrees`, `NoFault`, `RoundHearsAll`, `SortedPerFolder` |
| `playlist_interleaved` | the same, the player between any two steps, enqueue and dequeue | `SelectionInList`, `EditEnds` |
| `playlist_per_folder` | enqueue and dequeue | finding: `OthersKeepPlace` |

Three songs are enough for an entry with two neighbours, for a sort with more
than one pass and for a round of the shuffle order with a song left.  The bound
`EntryLimit` keeps the user from adding to a list that is counted that long (a
folder or a playlist file may still take a shorter one beyond it); it is there
for failed allocations, after which the counter grows beyond the list.

Fairness: weak fairness of the edit's steps; the main thread goes on after
each interruption.  `EditEnds` is the termination of `SortBrowser`'s loops.
The player's songs end when they end.

Finding: `Remove` does not renumber `pos`, so `EnqueueFolder`'s sort, which
takes the folder's own songs to be those from a position on, also moves songs
enqueued before; the README says "Improved music playlist sorting - now it is
per-folder" (`README.md:84`).

`MusicPlaylistProofs` proves, for any songs, folders and playlist files:

- for every list: `AddEntry` appends, `Unlink` takes out exactly the entry, and
  an exchange with the ends stored afterwards exchanges two neighbours, each
  keeping `Represents` (entry by entry through the stores the operation makes);
- `IInv`, with the player between any two steps and allocations that fail;
- `SortedPerFolder` and `CountAgrees`, likewise;
- `SelectionInList`, if `Secure`: with preemption, no reset and no failing
  allocation, since both free an entry the player may have chosen;
- `NoFault` and `RoundHearsAll` without preemption.

`ListInvariant` is not inductive.  `Inv` adds what each edit holds meanwhile:

- `Linked` says at each place of an edit which links the stores still to come
  will make right (after the first store of an exchange, for instance, the list
  represents the exchanged order once the other two are done);
- `MembersOK` which entry is allocated but not in the list;
- `CursorOK` and `CallsOK` where a removal of several entries, and the nested
  calls of `EnqueueFolder`, stand;
- `SortOK` where the sort's pointers are and, where nothing was dequeued, that
  of the folder's songs none before the one being compared comes after it, and
  none before those already sorted in comes after one of them;
- `PosOK` and `KeptOK` that the positions grow along the list and tell the
  folder's own songs from the others; needed for the sort, false after a
  dequeue, which is the finding.

`CountOK` (the counter is ahead of the list by the entry being removed),
`SelectOK` and `ShuffleInv` (where the shuffle order's places are those of the
list) are kept on top of `Inv`.  The sort's walk to the end of the list and the
scan for an entry are loops of the code, one action a step; where a proof needs
the first or last entry with a property, it takes it by the least-number
principle.

Not checked, since it fails: `NoFault` with preemption (the counter is larger
than the list while a song is removed), `SelectionInList` with preemption and
`reset` or failing allocations (`ResetMusic` frees before it clears).
Not modelled: `MusicPlaylistLoad`, a failing allocation of the shuffle order.

## 6. Directory parsing

`DirParse` models `ParseDirectory`, `ParseDirEntries`, the parse thread and
those who suspend it.

| model | code |
|---|---|
| `parseHalt`, `parsethread` | the flag, and whether the thread exists, runs, is suspended or has ended |
| `at` | the places of the main, parse and thumb threads |
| `i`, `entry`, `dirHandle`, `left` | locals of `ParseDirEntries`; the open directory and what is left to read |
| `list`, `subs`, `dir` | names in `browser` and `browserSubs`; the folder opened last |
| `goal` | what the main thread suspends the parse thread for |
| `opened`, `cut`, `warned`, `lostUp` | only observe |

`ParseDirEntries(t)` is the same code for the main and the parse thread:
`Enter`, `ReadEntry`, `ReadEnds`, `Sort`, `Close`.  `Suspend`/`Suspended` is
`SuspendParseThread`: set the flag, wait.  Two calls in a row are one.  The
thumb thread loads pictures by `LoadFile` (`LoadPicture`, `ReadPicture`),
which suspends the parse thread too.

| run | bounds | shows |
|---|---|---|
| `dir_parse` | two folders of 5 and 2 entries, batches of 1, pictures, memory may run out | `IInv`, `OneReader`, `Conserved`, `SortedAtRest`, `IndexedUnlessCut`, `ResetSafely`, `MainReturns`; no deadlock |
| `dir_parse_picture` | the same, memory suffices | finding: `SubtitlesFound` |

A folder of five entries takes four batches: the first by the main thread, the
others by the parse thread, with a hidden file and a subtitle in between, so
every boundary of a batch occurs.  The second folder lets a folder be left for
another and for the one above it while it is being read.

Fairness: weak fairness of each thread's own steps.  The user's steps are not
fair, nor is closing the message that entries are missing: `MainReturns`
excepts it.

One assumption is named by an action: `Started`, the parse thread suspends
itself before the menus begin.  `StopParseThread` (`fileop.cpp:315`) resumes only a
thread that is suspended when it looks, and otherwise joins it for ever.

`DirParseProofs` proves for all folders, batches and settings: `IInv`,
`OneReader`, `ResetSafely`, `Conserved`, `SortedAtRest` and `IndexedUnlessCut`.
There are two invariants.  `Handshake`, with the threads' places, says where the
parse thread is when it is suspended, and that it is suspended from the main
thread's wait to its next resume; only the main thread resumes it, so the thumb
thread's uncounted suspensions do no harm to it.  `OneReader` and `ResetSafely`
follow from it alone.  `Indexing` rests on it and is about the list:

- `Halves` and `Complete`: while the directory is open, what is listed and what
  is left to read make up the folder, and nothing is in both; once it is closed,
  everything is listed (unless the reading was cut);
- `Held` and `Owned`: who reads has the directory open, and an open one has
  somebody who will read on;
- `Last`: a batch that ended without an entry was the last, so closing loses
  nothing;
- `Ordered`: the list is in order, or the batch being read will sort it;
- `Opening`: nothing is listed before the directory is opened.

The sort is any permutation of the list that is in order (`Sort`), so the proof
does not depend on how equal entries fall.  A folder's own `..` is passed over
by the code after `ParseDirectory` has listed one of its own: `Conserved`
excepts that name, and folder "A" of the run has one.

Finding: a picture loaded for the selected entry ends the reading of the folder
(`fileop.cpp:2718`); nobody resumes it, so that the rest is never listed and
`LoadMPlayerFile`, which waits "to find subtitles" (`wiimc.cpp:765`), does not
find them.

Not modelled: the selection (`FindFile`, `FindDirectory`) and its page, the
listing of the drives and of playlists (an empty listing here), retries after
an error, a null pointer read when there is no memory for a subtitle's entry,
and the thumb thread's use of the selected entry.

## 7. The threads' hand-shakes: `MCThreads`

Sections 8 to 12 and the player control of section 4 are protocols over
variables of their own; no model writes what another one reads.  So their
interleavings add nothing, and the run `threads` takes one of them per
behaviour: `which` chooses at the start, and the other parts stay as they began.
Each part is an `INSTANCE` with its own fairness; the properties of a part hold
trivially while another one runs.  Where parts of the system do act on the same
variables they are in one module: the menus, the player, the sleep timer and
the device thread in `PlayerControl`, the GUI's three users in `GuiWindows`.

Bounds of `threads`: two films that may be cached (`Blocks`), so that one can be
given up while the next is enabled; folders of up to three videos (`MaxFilms`);
three drives (`MCDrives`: primary, logical and repeated records, a record
without a signature, a drive without a table) with room for four partitions
(`MaxDevices`, 10 in the code) and two sectors searched for a stray file system
(`Stray`, 64 in the code).  `Retries` is the code's.

`CHECK_DEADLOCK FALSE`: the machine is switched off in the end.

`MCThreadsProofs` proves every invariant of the run for `ThreadsSpec`, for any
values of the constants that `BoundsAssumption` and `DrivesAssumption` allow
(numbers are numbers, a drive's records are records; nothing is said of what
they hold) and of `FilesAssumption`; those of the part `writers` with the
hypotheses named in section 4.  Each step is one of a part's or leaves its
variables alone, so what `PlayerControlProofs`, `CacheThreadProofs`,
`GuiWindowsProofs` and `VideoPlaylistProofs` prove of a part is taken over; of
the device thread, the network thread and the partitions it is proved there.
The part `playlist` is an instance of the player control in a fixed setting, for
which `Undisturbed` holds.

## 8. The cache thread

`CacheThread` models the life of the one thread that fills the caches of all
films: `stream_enable_cache`, `cache_uninit`, `cache_do_control`,
`PauseAndGotoGUI`, `free_stream` and the loop of `mplayercachethread`.

| model | code |
|---|---|
| `filler`, `held` | where the cache thread is (parked, at the driver, resting between two rounds), the film it works for |
| `cachearg`, `stop` | what it takes up when woken, `stop_cache_thread` |
| `command` | the command slot of each film |
| `live`, `open` | the cache variables allocated, the connections open |
| `stage`, `mine`, `pid`, `after` | the player's place, its film, `cache_pid`, where `cache_uninit` returns to |
| `getMESS`, `waitReload` | a reader has lost its patience; the GUI is to load the file again |

Checked: `Served` (the thread works on memory that is still there, and on a
connection that is still open unless the film was given up; a film that is read
from its cache has the thread at work for it) and `CacheWaitsEnd` (if the
drivers answer, every wait of the player for the thread ends; if they do not,
the end of a film whose reader has lost its patience does not wait for them).

`CacheThreadProofs` proves `Served` and the types, for any number of films.

A film that was given up keeps its memory and its place in `cachearg`: that is
a leak, and the reason why `Served` holds.  Its connection is closed under the
thread's call (`free_stream`), which `Served` excepts.

Fairness: weak fairness of the thread and of the steps the player takes whatever
the film does; the drivers may hang, so their answers are a premise of the
property.

## 9. The GUI's threads

`GuiWindows` models who changes what the GUI draws: the main thread (prompts,
the menu disabled while a file is loaded, `ShowAction`, `CancelAction`,
`StopGuiThreads`), the progress thread (`ProgressWindow`) and the player
(`ShowProgress` while it fills its buffer, `ShutdownGui`), around the GUI
thread's frames (`SuspendGui`, `ResumeGui`).  `elements` is the list the GUI
draws, `alive` the windows whose function has not returned, `drawn` what the
frame being drawn found.

Checked: `WindowsAlive` (no frame draws a window whose function has returned),
`MenuIsUsable` (back in the menu, nothing of an action is left and it takes
input), `MenusGo` (told to go, the menus go: nobody joins a thread that has
parked itself).

The main thread preempts the GUI and the progress thread but is preempted by
neither, so one of its actions is what it does between two sleeps; the other
two interleave at each access.  One timing assumption is named: the player,
which polls as often as the main thread, is through with `SuspendGui` before
the main thread, which has slept once more, is at `StopGuiThreads`
(`StopProgress`).

Fairness: weak fairness of each thread; strong fairness of the end of the work
for a file and of its opening, between which the thread may show any number of
windows.

`GuiWindowsProofs` proves `WindowsAlive`, `MenuIsUsable` and the types.  The
invariant: a window is on the screen only between the two changes its function
makes (`ProgressOK`, `PromptOK`); nobody wakes the GUI thread while the progress
thread changes the screen, nor the progress thread while the main thread does
(`ParkedOK`); the player shows its progress only while the main thread waits for
it, or when the machine is to be switched off (`OpenerOK`); and unless the menus
are to go, the screen of the menu, and of a prompt opened from it, is as it was
(`MenuOK`).

`GuiPictures` adds the thumb thread, with a run of its own:

| run | shows |
|---|---|
| `gui_pictures` | finding: `ClearedUndrawn` |

Finding: `MenuBrowse` parks the GUI and then joins the thumb thread
(`menu.cpp:4283`), which wakes the GUI when it has hidden or shown its picture.
The browser and the picture are then removed and deleted while the GUI draws,
what `SuspendGui` is there to exclude according to its comment
(`menu.cpp:448`).

Not modelled: the screensaver and credits threads, the other menus' windows,
which follow the same pattern, and the thumb thread's use of the selected entry.

## 10. The device and the network thread

`DeviceThread` models `devicecallback` and the main thread's jobs around it:
`LoadFile`, `SaveFile`, `MountDVD` (alone or within one of them), `Remount`,
`LoadMPlayerFile`, `ResumeMPlayerFile`, the start of the menus and their end.
Checked: `QuietDuringJobs` (no look at the drives while one of them is used,
unless the job has mounted the DVD, which resumes the thread), which is
inductive as it stands and proved so in `MCThreadsProofs`, and `DeviceAnswers` (every wait of the main thread for it ends).  Fairness: weak
fairness of both threads, and that its first loop, of 0.2 s, is over some time,
however often it is parked in it (strong fairness of `FirstLoopEnds`).

`NetworkThread` models `netcb`, `InitializeNetwork`, `StopNetworkThread` and
`CheckMplayerNetwork`.  The main thread is not preempted by the network thread
but by the cache thread, which calls `CheckMplayerNetwork` when a song on a
share cannot be read.  Checked: `NetworkAnswers`, that `InitializeNetwork` does
not wait for ever, provided the cache thread does not wake the thread without
end.  One case is excepted, since the code does wait for ever in it: when the
cache thread resets `netHalt` after `StopNetworkThread` has set it, the network
thread parks itself again and is joined for ever (hazard at
`networkop.cpp:147`).  Fairness: weak fairness of both threads; what the thread
asks of the network times out (`netcb` counts its waits).

Not modelled: the thumb thread as a second client of the device thread (with
two clients a caller may wait for a thread that the other has woken), the
removal of a DVD, connecting shares after the network is up, two threads
created at once (hazard at `networkop.cpp:147`).

## 11. Videos in a row

`VideoPlaylist` models what `FindNextFile` does at the end of a video:
`PopulateVideoPlaylist` fills `browserVideos` with the files of a folder, the
setting says how they follow each other and may be changed between two videos,
and the shuffle order (`shuffleList_vid`, static in `wiimc.cpp:345`) outlives
the list it was made for.  `films` counts what is linked in the list,
`numEntries` what it says it holds: `DeleteEntry` does not count down.

Checked: `NextIsOnList`.  No null pointer or place beyond the order is read
except in the cases the property names, in which the code does read one: the
list is empty or miscounted, the order was made for another list (`stale`), or
the last video was to be repeated and cannot be.  They are a hazard at
`wiimc.cpp:351`; no document promises otherwise.

`VideoPlaylistProofs` proves it, and the types, for folders of any length.  The inductive
invariant adds that the selected entry is on the list and the list no longer
than it is counted (`CountsOK`), and that an order not made for another list is
one of this list's places (`OrderOK`).  A load keeps the order of an older list;
without `stale`, which observes that, the invariant would not be inductive.

## 12. Partitions

`Partitions` models `FindPartitions`, `AddPartition`, `UnmountPartitions` and
those who call them (the device thread on a new or a missing drive, `Remount`),
sector by sector; the drive may be taken out or exchanged between two reads.
A drive is its partition records, the chain of logical ones and the file systems
by the sector where they begin.

Checked: `TableIsDrive` (what is mounted is what is listed, each once, though
`FindPartitions` empties the list without unmounting; and a drive that was
there all the time has what its tables tell of, as long as there is room) and,
as a part of `DeviceAnswers`, `ScanEnds`: the search ends, with two exceptions.
When the drive is out, the loop over the chain (`fileop.cpp:636-703`) repeats the
same failing read until a drive is back.  And a chain that leads back into itself
(`LeadsBack`) is never left, unless the drive is taken out; one of `MCDrives` has
such a chain.  Fairness: weak fairness of the search;
reads end.

`Told` says what a drive's tables tell of without the code's control flow: the
records of a chain (`Chain`) are the least set that holds the first and, with
each, the one it names next.

`TableTheorem` (`MCThreadsProofs`) proves `TableIsDrive` for any drives, with
chains of any length and with chains that lead back into themselves, and any
room.  The invariant `TableOK` has that what is mounted is what is listed, each
once (`ListedOnce`), and that `FindPartitions` empties only a list that is
empty already (`Unlisted`): it is searched when a drive has come, and the list
was unmounted when the last one went.  `SearchOK` is about a search through
which the drive stays: the primary records passed are dealt with (`AtPrimary`),
and along a chain the records seen are closed but for the one to be read next
(`AtRecord`, `AtLogical`), so that at its end they hold the whole chain.

## Not modelled

Menu navigation (`ChangeMenu`, `UndoChangeMenu`): three numbers and no promise
about them.  The settings, the GUI toolkit, HTTP and
FTP, the connection of shares: sequential code over one record, list or
connection each, without state that outlives a call in a way a property could
be about.  Rendering, input, fonts, pictures: hardware and pixels.  MPlayer's
demuxers, codecs and outputs, ffmpeg and everything below `libs`, which are by
far the most of the repository's lines, are other projects' code; they appear as
the environment of the modules here.

## 13. What is only model-checked

The liveness properties, under the fairness named in the sections: `ReadEnds`,
`CommandEnds` (stream cache), `EditEnds` (music playlist), `MainReturns`
(directory parsing), `MainIsAnswered`, `StopHeardByChoice`,
`GuiGivesWayByChoice`, `CacheWaitsEnd`, `MenusGo`, `DeviceAnswers`,
`NetworkAnswers` (hand-shakes).  A proof of one needs `ENABLED` of the fair
actions, and most an induction on a number of steps still to go (entries left,
bytes to fill, attempts); the proof system as it is used here has neither.  The
theorems about sets and sequences of any size get by without induction over
data: loops of the code are steps of the model, so the invariant takes the
place of it, and where an extreme element is needed the least-number principle
gives it.

The invariants in the settings the theorems exclude: there they fail, as
sections 3 to 5 say.

The findings' runs show violations on small instances; nothing is proved about
them.

## 14. Running

Each run is `tlc -config <cfg> <module>`, each proof `tlapm <module>.tla`;
`PROJECT.json` lists runs, theorems, findings, the hazards with their lines and,
for each definition, the lines of the source it models.  For each property it
names a mutant: a definition altered as a plausible bug would alter the code,
which makes the run find the property violated.
