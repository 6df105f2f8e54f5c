---------------------------- MODULE StreamCache ----------------------------
(***************************************************************************)
(* The stream cache of the player (mplayer/stream/cache2.c as built for    *)
(* the Wii): one thread, the filler, copies the file into a ring buffer    *)
(* that is always a window [min_filepos, max_filepos) of the file; the     *)
(* player thread, the reader, takes sectors out of the window and moves    *)
(* read_filepos.  They share the structure cache_vars_t without a lock.    *)
(*                                                                         *)
(* The cache thread has the higher priority (wiimc.cpp starts it with 70,  *)
(* the player thread with 68) and the machine has one core.  So the filler *)
(* is interrupted by the reader only where it blocks: in                   *)
(* stream_seek_internal, in stream_read_internal, in the stream's control  *)
(* function and in its sleeps.  The reader is interrupted anywhere: each of *)
(* its accesses to a variable the filler writes is a step.                 *)
(*                                                                         *)
(* A byte of the file is represented by its position in the file.          *)
(***************************************************************************)
EXTENDS Integers, Sequences

CONSTANTS
  Sector,        \* sector_size
  CacheSize,     \* the size asked from cache_init
  MinSectors,    \* cache_init: the smallest buffer, 16 sectors
  FillSectors,   \* cache_init: fill_limit in sectors, 8
  ChunkSectors,  \* cache_fill: sectors read at once by default, 4
  StreamChunk,   \* the stream's own read_chunk, 0 when it has none
  SeekRequest,   \* the seek_limit asked from stream_enable_cache
  Streaming,     \* the stream's type is STREAMTYPE_STREAM
  FileEnd,       \* length of the file
  SilentFailures, \* a read may fail without setting the stream's error
  Reloads,       \* cache_read as compiled loads max_filepos again for newb
  LowPercent,    \* fill level under which a read error ends the stream, 5
  MaxErrors,     \* number of retries of a failing read, 500
  ErrorCap,      \* bound of the model: error stops counting here
  Junk           \* contents of a slot that does not belong to the window

Larger(a, b)  == IF a < b THEN b ELSE a
Smaller(a, b) == IF a < b THEN a ELSE b

BufferSize == Sector * Larger(CacheSize \div Sector, MinSectors)
BackSize   == BufferSize \div 4
FillLimit  == FillSectors * Sector
SeekLimit  == Smaller(SeekRequest, BufferSize - FillLimit)
Chunk      == IF StreamChunk = 0 THEN ChunkSectors * Sector ELSE StreamChunk

\* The numbers of the code: 16, 8 and 4 sectors.  Only streams that are not
\* of type STREAMTYPE_STREAM set a read_chunk (stream_file.c, stream_bd.c).
ASSUME GeometryAssumption ==
  /\ Sector \in Nat \ {0}
  /\ CacheSize \in Nat
  /\ ChunkSectors \in Nat \ {0}
  /\ FillSectors \in Nat /\ ChunkSectors <= FillSectors
  /\ MinSectors \in Nat /\ 2 * FillSectors <= MinSectors
  /\ StreamChunk \in Nat /\ (Streaming => StreamChunk = 0)
  /\ SeekRequest \in Nat
  /\ Streaming \in BOOLEAN /\ SilentFailures \in BOOLEAN
  /\ Reloads \in BOOLEAN

ASSUME FileAssumption ==
  /\ FileEnd \in Nat
  /\ LowPercent \in Nat
  /\ MaxErrors \in Nat
  /\ ErrorCap \in Nat /\ ErrorCap > MaxErrors + 1
  /\ Junk \notin Int

VARIABLES
  min_filepos, max_filepos, offset, read_filepos, eof, control, control_res,
  buffer,     \* the ring: slot -> byte, Junk in a slot outside the window
  spos,       \* the filler's stream: position of the next byte it reads
  error,      \* the filler's stream: its count of failed reads
  fpc,        \* what the filler does
  plan,       \* the filler's local variables: read, pos and space, 0 once used
  rpc,        \* what the reader does
  todo,       \* the reader's local variables: pos and newb, 0 once used
  got,        \* the bytes cache_read has copied so far
  stream_pos, \* the reader's stream: position after its buffer
  getMESS     \* the reader gave up on a stalled stream

window     == <<min_filepos, max_filepos, offset>>
source     == <<buffer, spos, error>>
readerVars == <<rpc, todo, got, stream_pos, getMESS>>
fillerVars == <<fpc, plan>>
commands   == <<control, control_res>>

vars == <<window, read_filepos, eof, commands, source, fillerVars, readerVars>>

Slots     == 0 .. BufferSize - 1
Positions == 0 .. FileEnd
Aligned(p) == (p \div Sector) * Sector

\* The slot of the byte at file position p, as the reader and the filler
\* compute it.
Slot(p) ==
  LET pos == p - offset
  IN  IF pos < 0 THEN pos + BufferSize
      ELSE IF pos >= BufferSize THEN pos - BufferSize
      ELSE pos

NoPlan == [read |-> 0, pos |-> 0, space |-> 0]
NoTodo == [pos |-> 0, newb |-> 0]

Init ==
  /\ min_filepos = 0 /\ max_filepos = 0 /\ offset = 0
  /\ read_filepos = 0
  /\ eof = FALSE
  /\ control = "none" /\ control_res = "ok"
  /\ buffer = [i \in Slots |-> Junk]
  /\ spos = 0 /\ error = 0
  /\ fpc = "fill"
  /\ plan = NoPlan
  /\ rpc = "ready"
  /\ todo = NoTodo
  /\ got = <<>>
  /\ stream_pos = 0
  /\ getMESS = FALSE

----------------------------------------------------------------------------
(* The filler: the loop of ThreadProc, cache_fill then                     *)
(* cache_execute_control.                                                  *)

\* The bytes before position r that cache_fill keeps, and the bytes after it
\* that the reader has yet to take.
\* Wrong variants: everything behind the reader is kept; the free space does
\* not count the bytes behind the reader; it does not count those to come.
BackBytesAll(r) == Larger(r - min_filepos, 0)
BackBytes(r) == Smaller(Larger(r - min_filepos, 0), BackSize)
NewBytes(r)  == Larger(max_filepos - r, 0)
FreeSpaceNoBack(r) == BufferSize - NewBytes(r)
FreeSpaceNoNew(r)  == BufferSize - BackBytes(r)
FreeSpace(r) == BufferSize - (NewBytes(r) + BackBytes(r))

\* The slot after the last byte of the window.
EndSlot == Slot(max_filepos)

\* The block cache_fill asks for: it stops at the end of the ring unless less
\* than a sector is left there, and is at most one chunk.
Block(r) ==
  LET room    == BufferSize - EndSlot
      noWrap  == IF FreeSpace(r) <= room THEN FreeSpace(r)
                 ELSE IF room >= Sector THEN room ELSE Sector
  IN  Smaller(noWrap, Chunk)

\* A wrong variant: the bytes not yet read are not counted.
KeptNoNew(r) == r - (BufferSize - Block(r))

\* The lowest position that is kept when a block is read.
Kept(r) == r - (BufferSize - (Block(r) + NewBytes(r)))

MustSeek(r) ==
  /\ r < min_filepos \/ r > max_filepos
  /\ \/ ~Streaming
     \/ r < min_filepos
     \/ r >= max_filepos + SeekLimit

\* cache_fill from the computation of the free space to the call of
\* stream_read_internal, which overwrites the slots of the block: the bytes
\* below the new min_filepos are lost.
StartBlock(r) ==
  /\ plan' = [read |-> 0, pos |-> EndSlot, space |-> Block(r)]
  /\ min_filepos' = Larger(min_filepos, Kept(r))
  /\ buffer' = [i \in Slots |->
                  IF \E p \in min_filepos' .. max_filepos - 1 : i = Slot(p)
                  THEN buffer[i] ELSE Junk]
  /\ fpc' = "read"
  /\ UNCHANGED <<max_filepos, offset, read_filepos, eof, commands, error,
                 readerVars>>

\* Nothing to fill: end of file, or too little room.
FillNothing ==
  /\ fpc = "fill"
  /\ \/ eof
     \/ ~MustSeek(read_filepos) /\ FreeSpace(read_filepos) < FillLimit
  /\ fpc' = "control"
  /\ UNCHANGED <<window, read_filepos, eof, commands, source, plan, readerVars>>

FillForward ==
  /\ fpc = "fill" /\ ~eof /\ ~MustSeek(read_filepos)
  /\ FreeSpace(read_filepos) >= FillLimit
  /\ StartBlock(read_filepos)
  /\ UNCHANGED spos

\* The reader is out of the window: cache_flush, then the stream seeks.
FillFlush ==
  /\ fpc = "fill" /\ ~eof /\ MustSeek(read_filepos)
  /\ min_filepos' = read_filepos
  /\ max_filepos' = read_filepos
  /\ offset' = read_filepos
  /\ buffer' = [i \in Slots |-> Junk]
  /\ plan' = [NoPlan EXCEPT !.read = read_filepos]
  /\ fpc' = "seek"
  /\ UNCHANGED <<read_filepos, eof, commands, spos, error, readerVars>>

\* stream_reset (when the stream is at its end) and stream_seek_internal
\* return; cache_fill goes on with the position it read before.  The window is
\* empty, so there is always room.
FillSeek ==
  /\ fpc = "seek"
  /\ spos' = plan.read
  /\ StartBlock(plan.read)

\* A wrong variant: a block that ends at the last slot does not turn the ring.
FillReadLateWrap(len) ==
  /\ fpc = "read"
  /\ len \in 1 .. plan.space /\ spos + len <= FileEnd
  /\ buffer' = [i \in Slots |->
                  IF plan.pos <= i /\ i < plan.pos + len THEN spos + (i - plan.pos)
                  ELSE IF i + BufferSize < plan.pos + len
                  THEN spos + (i + BufferSize - plan.pos)
                  ELSE buffer[i]]
  /\ spos' = spos + len
  /\ error' = 0
  /\ max_filepos' = max_filepos + len
  /\ offset' = IF plan.pos + len > BufferSize THEN offset + BufferSize ELSE offset
  /\ fpc' = "control" /\ plan' = NoPlan
  /\ UNCHANGED <<min_filepos, read_filepos, eof, commands, readerVars>>

\* stream_read_internal returns len bytes.
FillRead(len) ==
  /\ fpc = "read"
  /\ len \in 1 .. plan.space /\ spos + len <= FileEnd
  /\ buffer' = [i \in Slots |->
                  IF plan.pos <= i /\ i < plan.pos + len THEN spos + (i - plan.pos)
                  ELSE IF i + BufferSize < plan.pos + len
                  THEN spos + (i + BufferSize - plan.pos)
                  ELSE buffer[i]]
  /\ spos' = spos + len
  /\ error' = 0
  /\ max_filepos' = max_filepos + len
  /\ offset' = IF plan.pos + len >= BufferSize THEN offset + BufferSize ELSE offset
  /\ fpc' = "control" /\ plan' = NoPlan
  /\ UNCHANGED <<min_filepos, read_filepos, eof, commands, readerVars>>

\* What is left in the cache is under LowPercent of the buffer.
LowCache == 100 * (max_filepos - read_filepos) < LowPercent * BufferSize

\* stream_read_internal returns 0: at the end of the file, or because the
\* device failed.  An input/output error sets the stream's error, any other
\* failure and an empty answer do not.  While error is set the read is tried
\* again as long as enough is left in the cache.
FillFailed(how) ==
  /\ fpc = "read"
  /\ how = "end" => spos >= FileEnd
  /\ how = "silent" => SilentFailures
  /\ LET err == IF how = "error" THEN Larger(error, 1) ELSE error
     IN  IF err > 0
         THEN /\ error' = Smaller(err + 1, ErrorCap)
              /\ eof' = (error' > MaxErrors \/ LowCache)
         ELSE eof' = TRUE /\ error' = error
  /\ fpc' = "control" /\ plan' = NoPlan
  /\ UNCHANGED <<window, read_filepos, commands, buffer, spos, readerVars>>

\* cache_execute_control without a command, with one that only asks the
\* stream, and with one the stream refuses.
ExecuteNothing ==
  /\ fpc = "control" /\ control = "none"
  /\ fpc' = "fill"
  /\ UNCHANGED <<window, read_filepos, eof, commands, source, plan, readerVars>>

\* A wrong variant: a command that is refused is not taken off.
ExecuteQueryStuck ==
  /\ fpc = "control" /\ control # "none"
  /\ control_res' \in IF control = "get" THEN {"ok", "unsupported"} ELSE {"unsupported"}
  /\ control' = IF control_res' = "ok" THEN "none" ELSE control
  /\ fpc' = "fill"
  /\ UNCHANGED <<window, read_filepos, eof, source, plan, readerVars>>

ExecuteQuery ==
  /\ fpc = "control" /\ control # "none"
  /\ control_res' \in IF control = "get" THEN {"ok", "unsupported"} ELSE {"unsupported"}
  /\ control' = "none"
  /\ fpc' = "fill"
  /\ UNCHANGED <<window, read_filepos, eof, source, plan, readerVars>>

\* A wrong variant: eof is not taken over from the stream.
ExecuteSeekOldEof(p) ==
  /\ fpc = "control" /\ control = "seek"
  /\ spos' = p
  /\ read_filepos' = p
  /\ min_filepos' = p /\ max_filepos' = p /\ offset' = p
  /\ buffer' = [i \in Slots |-> Junk]
  /\ control' = "none" /\ control_res' = "ok"
  /\ fpc' = "fill"
  /\ UNCHANGED <<eof, error, plan, readerVars>>

\* cache_execute_control with a seek to a time or a chapter: the stream moves
\* to p, reading there (stream_dvd.c), and the window is flushed.
ExecuteSeek(p) ==
  /\ fpc = "control" /\ control = "seek"
  /\ spos' = p
  /\ read_filepos' = p
  /\ eof' = (p >= FileEnd)
  /\ min_filepos' = p /\ max_filepos' = p /\ offset' = p
  /\ buffer' = [i \in Slots |-> Junk]
  /\ control' = "none" /\ control_res' = "ok"
  /\ fpc' = "fill"
  /\ UNCHANGED <<error, plan, readerVars>>

----------------------------------------------------------------------------
(* The reader: cache_stream_fill_buffer, cache_stream_seek_long and        *)
(* cache_do_control, called by the demuxers in the player thread.          *)

ReadStart ==
  /\ rpc = "ready"
  /\ rpc' = "check"
  /\ UNCHANGED <<window, read_filepos, eof, commands, source, fillerVars,
                 todo, got, stream_pos, getMESS>>

\* cache_stream_seek_long: move to the sector of position p, then forget the
\* end of the file and read a sector.
Seek(p) ==
  /\ rpc = "ready"
  /\ read_filepos' = Aligned(p) /\ stream_pos' = Aligned(p)
  /\ rpc' = "moved"
  /\ UNCHANGED <<window, eof, commands, source, fillerVars, todo, got, getMESS>>

SeekForgetEof ==
  /\ rpc = "moved"
  /\ eof' = FALSE
  /\ rpc' = "check"
  /\ UNCHANGED <<window, read_filepos, commands, source, fillerVars, todo, got,
                 stream_pos, getMESS>>

\* A turn of the loop gets past the test of getMESS: it is clear, or this turn
\* has just set it.
Turn == (rpc = "check" /\ ~getMESS) \/ rpc = "last"

\* One turn of the loop of cache_read: first the reader's position is compared
\* with the end of the window.  A compiler may keep max_filepos from here for
\* newb: the variable is not volatile.
ReadMax ==
  /\ Turn
  /\ IF read_filepos >= max_filepos
     THEN rpc' = "eof" /\ UNCHANGED todo
     ELSE /\ rpc' = "min"
          /\ todo' = IF Reloads THEN todo
                     ELSE [todo EXCEPT !.newb = max_filepos - read_filepos]
  /\ UNCHANGED <<window, read_filepos, eof, commands, source, fillerVars,
                 got, stream_pos, getMESS>>

\* A wrong variant: the beginning of the window is not looked at.
ReadMinAny ==
  /\ rpc = "min"
  /\ rpc' = "new" /\ UNCHANGED todo
  /\ UNCHANGED <<window, read_filepos, eof, commands, source, fillerVars,
                 got, stream_pos, getMESS>>

\* ... then with its beginning ...
ReadMin ==
  /\ rpc = "min"
  /\ IF read_filepos < min_filepos
     THEN rpc' = "eof" /\ todo' = NoTodo
     ELSE rpc' = "new" /\ UNCHANGED todo
  /\ UNCHANGED <<window, read_filepos, eof, commands, source, fillerVars,
                 got, stream_pos, getMESS>>

\* ... then the new bytes are counted.  By now the window may have been emptied
\* at the reader's position, and there may be none.
ReadNew ==
  /\ rpc = "new"
  /\ todo' = IF Reloads THEN [todo EXCEPT !.newb = max_filepos - read_filepos]
             ELSE todo
  /\ rpc' = "locate"
  /\ UNCHANGED <<window, read_filepos, eof, commands, source, fillerVars,
                 got, stream_pos, getMESS>>

\* The slot is computed and the block shortened to what lies before the end of
\* the ring and to what is wanted.
PieceAt(pos) ==
  [pos  |-> pos,
   newb |-> Smaller(Smaller(todo.newb, BufferSize - pos), Sector - Len(got))]

ReadLocate ==
  /\ rpc = "locate"
  /\ todo' = PieceAt(Slot(read_filepos))
  /\ rpc' = "copy"
  /\ UNCHANGED <<window, read_filepos, eof, commands, source, fillerVars,
                 got, stream_pos, getMESS>>

OddPiece == todo.newb <= 0 \/ todo.pos < 0 \/ todo.pos + todo.newb > BufferSize

\* The "very very odd error": the turn ends with nothing copied.
ReadOdd ==
  /\ rpc = "copy" /\ OddPiece
  /\ rpc' = "check" /\ todo' = NoTodo
  /\ UNCHANGED <<window, read_filepos, eof, commands, source, fillerVars,
                 got, stream_pos, getMESS>>

\* The bytes are copied.  The piece is in the window all that time (ReaderOK;
\* without Reloads its bytes may be others anyway), so the copy is one step.
ReadCopy ==
  /\ rpc = "copy" /\ ~OddPiece
  /\ got' = got \o [i \in 1 .. todo.newb |-> buffer[todo.pos + i - 1]]
  /\ read_filepos' = read_filepos + todo.newb
  /\ rpc' = IF Len(got) + todo.newb = Sector THEN "return" ELSE "check"
  /\ todo' = NoTodo
  /\ UNCHANGED <<window, eof, commands, source, fillerVars, stream_pos, getMESS>>

\* A position out of the window: the loop ends early at the end of the file ...
ReadEof ==
  /\ rpc = "eof" /\ eof
  /\ rpc' = "return"
  /\ UNCHANGED <<window, read_filepos, eof, commands, source, fillerVars,
                 todo, got, stream_pos, getMESS>>

\* ... and otherwise takes another turn after a sleep.
ReadWait ==
  /\ rpc = "eof" /\ ~eof
  /\ rpc' = "check"
  /\ UNCHANGED <<window, read_filepos, eof, commands, source, fillerVars,
                 todo, got, stream_pos, getMESS>>

\* getWeird counts the turns of one call; after 80 of them, which only a wait
\* for the filler can reach, the next turn sets getMESS and is the last.
ReadGiveUp ==
  /\ rpc = "eof" /\ ~eof /\ ~getMESS
  /\ getMESS' = TRUE
  /\ rpc' = "last"
  /\ UNCHANGED <<window, read_filepos, eof, commands, source, fillerVars,
                 todo, got, stream_pos>>

\* Once getMESS is set cache_read returns 0 whatever it has copied.
ReadAbandon ==
  /\ rpc = "check" /\ getMESS
  /\ got' = <<>>
  /\ rpc' = "return"
  /\ UNCHANGED <<window, read_filepos, eof, commands, source, fillerVars,
                 todo, stream_pos, getMESS>>

\* The rest of cache_stream_fill_buffer.
ReadReturn ==
  /\ rpc = "return"
  /\ stream_pos' = stream_pos + Len(got)
  /\ got' = <<>>
  /\ rpc' = "ready"
  /\ UNCHANGED <<window, read_filepos, eof, commands, source, fillerVars,
                 todo, getMESS>>

\* cache_do_control hands a command to the filler and waits.  Only a seek that
\* succeeded moves the reader's stream.
Command(cmd) ==
  /\ rpc = "ready"
  /\ control' = cmd
  /\ rpc' = cmd
  /\ UNCHANGED <<window, read_filepos, eof, control_res, source, fillerVars,
                 todo, got, stream_pos, getMESS>>

\* A wrong variant: the stream is not told where a seek has led.
CommandDoneNoMove ==
  /\ rpc \in {"seek", "get"} /\ control = "none"
  /\ rpc' = "ready"
  /\ UNCHANGED <<window, read_filepos, eof, commands, source, fillerVars,
                 todo, got, stream_pos, getMESS>>

CommandDone ==
  /\ rpc \in {"seek", "get"} /\ control = "none"
  /\ IF rpc = "seek" /\ control_res = "ok"
     THEN stream_pos' = read_filepos
     ELSE UNCHANGED stream_pos
  /\ rpc' = "ready"
  /\ UNCHANGED <<window, read_filepos, eof, commands, source, fillerVars,
                 todo, got, getMESS>>

\* The reader has seen the command waiting, and then getMESS set.
CommandAbandon ==
  /\ rpc \in {"seek", "get"} /\ getMESS
  /\ rpc' = "ready"
  /\ UNCHANGED <<window, read_filepos, eof, commands, source, fillerVars,
                 todo, got, stream_pos, getMESS>>
----------------------------------------------------------------------------

FillStep ==
  \/ FillNothing \/ FillForward \/ FillFlush \/ FillSeek
  \/ \E len \in 1 .. BufferSize : FillRead(len)
  \/ \E how \in {"end", "error", "silent"} : FillFailed(how)
  \/ ExecuteNothing \/ ExecuteQuery
  \/ \E p \in Positions : ExecuteSeek(p)

ReadStep ==
  \/ SeekForgetEof
  \/ ReadMax \/ ReadMin \/ ReadNew \/ ReadLocate \/ ReadOdd \/ ReadCopy
  \/ ReadEof \/ ReadWait \/ ReadAbandon \/ ReadReturn
  \/ CommandDone \/ CommandAbandon

\* What the demuxer asks, and when the reader loses patience, is free.
ReaderChoice ==
  \/ ReadStart
  \/ \E p \in Positions : Seek(p)
  \/ \E cmd \in {"seek", "get"} : Command(cmd)
  \/ ReadGiveUp

Next == FillStep \/ ReadStep \/ ReaderChoice

\* Both threads are scheduled again after each of their sleeps and blocking
\* calls, and a device that does not answer gets an error in the end.
Spec == Init /\ [][Next]_vars /\ WF_vars(FillStep) /\ WF_vars(ReadStep)
----------------------------------------------------------------------------
(* Properties                                                              *)

\* The places of the reader in the loop of cache_read; in all but the first it
\* has passed the test of getMESS.
Reading == {"check", "last", "min", "eof", "new", "locate", "copy"}

\* The values the variables may have.
TypeOK ==
  /\ min_filepos \in Nat /\ max_filepos \in Nat /\ offset \in Nat
  /\ read_filepos \in Nat
  /\ eof \in BOOLEAN
  /\ control \in {"none", "seek", "get"}
  /\ control_res \in {"ok", "unsupported"}
  /\ buffer \in [Slots -> Int \cup {Junk}]
  /\ spos \in Nat /\ error \in Nat
  /\ fpc \in {"fill", "seek", "read", "control"}
  /\ plan \in [read : Nat, pos : Slots, space : Nat]
  /\ rpc \in Reading \cup {"ready", "moved", "return", "seek", "get"}
  /\ todo \in [pos : Slots, newb : Nat]
  /\ got \in Seq(Int \cup {Junk})
  /\ stream_pos \in Nat
  /\ getMESS \in BOOLEAN

\* The window is a part of the file that fits in the ring, its end lies in the
\* ring that starts at offset, and the filler's stream stands at its end: the
\* relations cache_fill keeps between its pointers.
WindowOK ==
  /\ min_filepos <= max_filepos
  /\ max_filepos <= min_filepos + BufferSize
  /\ offset <= max_filepos /\ max_filepos < offset + BufferSize
  /\ max_filepos <= FileEnd /\ read_filepos <= FileEnd
  /\ fpc # "seek" => spos = max_filepos

\* The buffer contains the part of the file from min_filepos to max_filepos,
\* also while the next block is being read over the oldest bytes.
BufferHoldsWindow ==
  \A p \in min_filepos .. max_filepos - 1 : buffer[Slot(p)] = p

\* The bytes the reader copies are those of the file at its position, whatever
\* the filler did between the check of the window and the copy.
DeliveredIsFile == \A i \in 1 .. Len(got) : got[i] = stream_pos + i - 1

\* The block the filler reads is free: it does not reach the bytes of the
\* window, and starts where the window ends.
BlockIsFree ==
  /\ fpc = "read" =>
       /\ plan.pos = EndSlot
       /\ plan.space >= 1
       /\ max_filepos + plan.space <= min_filepos + BufferSize
  /\ fpc = "seek" =>
       /\ min_filepos = max_filepos /\ offset = max_filepos
       /\ plan.read = max_filepos

\* The piece cache_read is about to copy lies in the ring, and it is a part of the
\* window unless the filler has emptied the window just at the reader's position
\* since the first of the comparisons.  In that case alone it can be empty, the
\* "very very odd error" (with Reloads), or stale (without).
PieceLostOnlyToFlush ==
  rpc = "copy" =>
    /\ todo.pos >= 0 /\ todo.pos + todo.newb <= BufferSize
    /\ \/ todo.newb >= 1 /\ read_filepos + todo.newb <= max_filepos
       \/ min_filepos = read_filepos

\* The reader has compared its position with the end of the window, or with both
\* ends: it stays there whatever the filler does meanwhile, and so does the piece
\* of the window it has chosen, at the slot it computed, until it is copied.  Only
\* a flush between the comparisons can make that piece empty or stale, the latter
\* when max_filepos was loaded before the flush.
ReaderOK ==
  /\ rpc \in {"ready", "moved", "seek", "get"} => got = <<>>
  /\ rpc \in Reading => Len(got) < Sector
  /\ Len(got) <= Sector
  /\ rpc \in {"min", "new", "locate", "copy"} => read_filepos <= max_filepos
  /\ rpc \in {"min", "new"} /\ read_filepos = max_filepos =>
       min_filepos = read_filepos
  /\ rpc \in {"new", "locate", "copy"} => min_filepos <= read_filepos
  /\ rpc \in {"locate", "copy"} => todo.newb >= 1 \/ min_filepos = read_filepos
  /\ Reloads /\ rpc \in {"locate", "copy"} =>
       read_filepos + todo.newb <= max_filepos
  /\ ~Reloads /\ rpc \in {"min", "new", "locate", "copy"} =>
       /\ todo.newb >= 1
       /\ read_filepos + todo.newb <= FileEnd
       /\ read_filepos + todo.newb <= max_filepos \/ min_filepos = read_filepos
  /\ rpc = "copy" =>
       /\ todo.pos = Slot(read_filepos)
       /\ todo.pos + todo.newb <= BufferSize
       /\ Len(got) + todo.newb <= Sector
  /\ ~getMESS \/ rpc \in Reading \ {"check"} =>
       /\ control # "none" => rpc = control
       /\ \/ stream_pos + Len(got) = read_filepos
          \/ rpc = "seek" /\ control = "none" /\ control_res = "ok"

\* The inductive invariant.
IInv ==
  TypeOK /\ WindowOK /\ BlockIsFree /\ BufferHoldsWindow /\ ReaderOK
         /\ (Reloads => DeliveredIsFile)

\* The cache implements a file that is read sector by sector.
Reader == INSTANCE FileReader WITH pos <- stream_pos, taken <- got
ImplementsFileReader == Reader!Spec

\* The cache never throws away the BackSize bytes behind the reader, unless
\* it throws away the whole window.
BackBytesKept ==
  [][min_filepos' > min_filepos /\ max_filepos' = max_filepos
       /\ min_filepos' < max_filepos' =>
     min_filepos' <= Larger(min_filepos, read_filepos - BackSize)]_vars

\* The check in cache_stream_fill_buffer, which reports a bug when the stream
\* and the cache disagree on the position, can only fail after a give-up.
PositionsAgree == rpc = "ready" /\ ~getMESS => stream_pos = read_filepos

\* What a read that ends early was told: the reader has not given up.
ToldOfEnd == rpc = "return" /\ Len(got) < Sector /\ ~getMESS

\* When every failing read sets error: a reader that is told of the end of the
\* file without an error is told so of a cache that has the file to its end, and
\* nothing takes eof back meanwhile.  Its own position may be anywhere: it may
\* have sought, and the window may have got its last bytes after its test.
EndIsReal == ToldOfEnd /\ error = 0 => max_filepos >= FileEnd /\ eof

\* What a cache that needs no lock would give a reader that has sought: it is
\* told of the end only there, or where the filler has brought its window.
SeekIsNeverLost ==
  ToldOfEnd /\ error = 0 =>
    read_filepos >= FileEnd \/ read_filepos \in min_filepos .. max_filepos

\* A read that waits for the filler ends.
ReadEnds == rpc = "check" ~> rpc = "ready"

\* A command to the filler ends.
CommandEnds == rpc \in {"seek", "get"} ~> rpc = "ready"
============================================================================
