------------------------- MODULE StreamCacheProofs -------------------------
(***************************************************************************)
(* The stream cache keeps its window of the file, for every size of the    *)
(* buffer, of the sectors and of the file, and never hands out a byte that *)
(* is not the file's, if cache_read loads max_filepos again before it      *)
(* counts the new bytes (Reloads).                                         *)
(***************************************************************************)
EXTENDS StreamCache, SequenceTheorems, TLAPS

(* What cache_init and stream_enable_cache guarantee of the sizes, whatever
   the size of the cache the player asks for: there is always room for a
   block between the bytes kept behind the reader and a full buffer. *)
LEMMA Geometry ==
  /\ Sector \in Nat /\ Sector >= 1
  /\ BufferSize \in Nat
  /\ BackSize \in Nat
  /\ FillLimit \in Nat /\ FillLimit >= Sector
  /\ FillLimit + BackSize <= BufferSize
  /\ Chunk \in Nat /\ Chunk >= 1
  /\ Streaming => Chunk <= FillLimit
  /\ SeekLimit \in Int /\ SeekLimit + FillLimit <= BufferSize
<1> DEFINE sectors == Larger(CacheSize \div Sector, MinSectors)
<1>1. sectors \in Nat /\ 2 * FillSectors <= sectors
  <2>1. CacheSize \div Sector \in Nat
    BY GeometryAssumption
  <2> QED BY <2>1, GeometryAssumption DEF Larger
<1>2. BufferSize = Sector * sectors
  BY DEF BufferSize
<1> HIDE DEF sectors
<1>3. BufferSize \in Nat
  BY <1>1, <1>2, GeometryAssumption
<1>4. FillLimit \in Nat /\ FillLimit >= Sector
  BY GeometryAssumption DEF FillLimit
<1>5. 2 * FillLimit <= BufferSize
  <2>1. Sector * (2 * FillSectors) <= Sector * sectors
    BY <1>1, GeometryAssumption
  <2> QED BY <2>1, <1>2, <1>1, GeometryAssumption DEF FillLimit
<1>6. BackSize \in Nat /\ 4 * BackSize <= BufferSize
  BY <1>3 DEF BackSize
<1>7. Chunk \in Nat /\ Chunk >= 1 /\ (Streaming => Chunk <= FillLimit)
  <2>1. ChunkSectors * Sector \in Nat /\ ChunkSectors * Sector >= 1
    BY GeometryAssumption
  <2>2. ChunkSectors * Sector <= FillSectors * Sector
    BY GeometryAssumption
  <2> QED BY <2>1, <2>2, GeometryAssumption DEF Chunk, FillLimit
<1>8. SeekLimit \in Int /\ SeekLimit + FillLimit <= BufferSize
  BY <1>3, <1>4, GeometryAssumption DEF SeekLimit, Smaller
<1> QED
  BY <1>3, <1>4, <1>5, <1>6, <1>7, <1>8, GeometryAssumption

----------------------------------------------------------------------------
(* Slots.                                                                  *)

(* The end of the window lies in the ring that starts at offset. *)
LEMMA EndOfWindow ==
  ASSUME TypeOK, WindowOK
  PROVE  EndSlot = max_filepos - offset /\ EndSlot \in Slots
BY Geometry DEF TypeOK, WindowOK, EndSlot, Slot, Slots

(* Every position of the window has a slot. *)
LEMMA WindowSlot ==
  ASSUME TypeOK, WindowOK, NEW p \in Int, min_filepos <= p, p <= max_filepos
  PROVE  Slot(p) \in Slots
BY Geometry DEF TypeOK, WindowOK, Slot, Slots

(* Positions that follow each other have slots that follow each other, up to
   the end of the ring. *)
LEMMA NextSlots ==
  ASSUME TypeOK, WindowOK, NEW p \in Int, min_filepos <= p,
         NEW k \in Nat, p + k < max_filepos, Slot(p) + k < BufferSize
  PROVE  Slot(p + k) = Slot(p) + k
BY Geometry DEF TypeOK, WindowOK, Slot, Slots

----------------------------------------------------------------------------
(* The block cache_fill reads.                                             *)

(* The block fits between the end of the window and the bytes that stay, and
   raises min_filepos neither above the end of the window nor, while the
   reader is in the window, above the bytes kept behind the reader. *)
LEMMA BlockBounds ==
  ASSUME TypeOK, WindowOK, NEW r \in Nat,
         FreeSpace(r) >= FillLimit,
         r <= max_filepos \/ (Streaming /\ r < max_filepos + SeekLimit)
  PROVE  /\ Block(r) \in Nat /\ Block(r) >= 1 /\ Block(r) <= BufferSize
         /\ Kept(r) \in Int
         /\ Kept(r) <= max_filepos
         /\ max_filepos + Block(r) - BufferSize <= Kept(r)
         /\ r <= max_filepos => Kept(r) <= r - BackBytes(r)
         /\ BackBytes(r) \in Nat
<1> DEFINE room == BufferSize - EndSlot
           noWrap == IF FreeSpace(r) <= room THEN FreeSpace(r)
                     ELSE IF room >= Sector THEN room ELSE Sector
<1>1. room \in Nat /\ room >= 1
  BY EndOfWindow, Geometry DEF Slots
<1>2. /\ BackBytes(r) \in Nat /\ BackBytes(r) <= BackSize
      /\ NewBytes(r) \in Nat
      /\ FreeSpace(r) \in Int
      /\ FreeSpace(r) = BufferSize - (NewBytes(r) + BackBytes(r))
  BY Geometry DEF BackBytes, NewBytes, FreeSpace, Smaller, Larger, TypeOK
<1>3. noWrap \in Nat /\ noWrap >= 1 /\ noWrap <= FreeSpace(r)
  BY <1>1, <1>2, Geometry
<1>4. Block(r) = Smaller(noWrap, Chunk)
  BY DEF Block
<1> HIDE DEF noWrap, room
<1>5. /\ Block(r) \in Nat /\ Block(r) >= 1
      /\ Block(r) <= FreeSpace(r) /\ Block(r) <= Chunk
  BY <1>2, <1>3, <1>4, Geometry DEF Smaller
<1>6. Kept(r) = r + NewBytes(r) + Block(r) - BufferSize
  BY <1>2, <1>5, Geometry DEF Kept
<1>7. CASE r <= max_filepos
  <2>1. r + NewBytes(r) = max_filepos
    BY <1>7 DEF NewBytes, Larger, TypeOK
  <2>2. Kept(r) = max_filepos + Block(r) - BufferSize
    BY <1>6, <2>1
  <2>3. NewBytes(r) = max_filepos - r
    BY <1>2, <2>1 DEF TypeOK
  <2>4. Block(r) <= BufferSize - (max_filepos - r) - BackBytes(r)
    BY <1>2, <1>5, <2>3, Geometry DEF TypeOK
  <2>5. Block(r) <= BufferSize
    BY <1>2, <1>5, Geometry
  <2>6. Kept(r) \in Int /\ Kept(r) <= max_filepos
    BY <1>5, <2>2, <2>5, Geometry DEF TypeOK
  <2>7. Kept(r) <= r - BackBytes(r)
    <3>1. max_filepos \in Nat /\ BufferSize \in Nat
      BY Geometry DEF TypeOK
    <3>2. BackBytes(r) \in Nat /\ Block(r) \in Nat
      BY <1>2, <1>5
    <3> QED BY <2>2, <2>4, <3>1, <3>2
  <2> QED
    BY <1>2, <1>5, <2>2, <2>5, <2>6, <2>7, Geometry DEF TypeOK
<1>8. CASE ~(r <= max_filepos)
  <2>0. max_filepos \in Nat /\ BufferSize \in Nat
    BY Geometry DEF TypeOK
  <2>1. NewBytes(r) = 0
    BY <1>8, <2>0 DEF NewBytes, Larger
  <2>2. Block(r) <= FillLimit /\ r < max_filepos + SeekLimit
    BY <1>5, <1>8, Geometry
  <2>3. Kept(r) = r + Block(r) - BufferSize
    BY <1>2, <1>5, <1>6, <2>0, <2>1
  <2>4. Kept(r) \in Int /\ Kept(r) <= max_filepos
    BY <1>5, <2>0, <2>2, <2>3, Geometry
  <2>5. max_filepos + Block(r) - BufferSize <= Kept(r)
    BY <1>5, <1>8, <2>0, <2>3
  <2>6. Block(r) <= BufferSize
    BY <1>2, <1>5, <2>0
  <2> QED BY <1>2, <1>5, <1>8, <2>4, <2>5, <2>6
<1> QED BY <1>7, <1>8

----------------------------------------------------------------------------
(* The invariant is kept by the filler.                                    *)

(* Choosing a block keeps the invariant, whether cache_fill goes on behind
   the window or starts a new one after a seek. *)
LEMMA StartBlockKeepsIInv ==
  ASSUME IInv, NEW r \in Nat, StartBlock(r),
         FreeSpace(r) >= FillLimit,
         r <= max_filepos \/ (Streaming /\ r < max_filepos + SeekLimit),
         spos' = max_filepos,
         rpc \in {"min", "new", "locate", "copy"} /\ min_filepos <= read_filepos =>
           r = read_filepos
  PROVE  IInv'
<1> USE DEF IInv
<1>1. /\ Block(r) \in Nat /\ Block(r) >= 1 /\ Block(r) <= BufferSize
      /\ Kept(r) \in Int
      /\ Kept(r) <= max_filepos
      /\ max_filepos + Block(r) - BufferSize <= Kept(r)
      /\ r <= max_filepos => Kept(r) <= r
  <2>1. r <= max_filepos => Kept(r) <= r - BackBytes(r) /\ BackBytes(r) \in Nat
    BY BlockBounds
  <2>2. r <= max_filepos /\ Kept(r) \in Int => Kept(r) <= r
    BY <2>1
  <2> QED BY <2>2, BlockBounds
<1>2. /\ EndSlot = max_filepos - offset
      /\ EndSlot \in Slots
  BY EndOfWindow
<1>3. /\ min_filepos' = IF min_filepos < Kept(r) THEN Kept(r) ELSE min_filepos
      /\ max_filepos' = max_filepos /\ offset' = offset
      /\ read_filepos' = read_filepos
      /\ UNCHANGED readerVars /\ UNCHANGED commands /\ eof' = eof /\ error' = error
      /\ fpc' = "read"
      /\ plan' = [read |-> 0, pos |-> EndSlot, space |-> Block(r)]
      /\ buffer' = [i \in Slots |->
                      IF \E p \in min_filepos' .. max_filepos - 1 : i = Slot(p)
                      THEN buffer[i] ELSE Junk]
  BY DEF StartBlock, Larger
<1>4. /\ min_filepos' \in Nat /\ min_filepos <= min_filepos'
      /\ min_filepos' <= max_filepos
      /\ max_filepos + Block(r) <= min_filepos' + BufferSize
      /\ r <= max_filepos /\ min_filepos <= r => min_filepos' <= r
  <2>1. /\ min_filepos \in Nat /\ max_filepos \in Nat /\ BufferSize \in Nat
        /\ min_filepos <= max_filepos
    BY Geometry DEF TypeOK, WindowOK
  <2>2. CASE min_filepos < Kept(r)
    BY <1>1, <1>3, <2>1, <2>2
  <2>3. CASE ~(min_filepos < Kept(r))
    BY <1>1, <1>3, <2>1, <2>3
  <2> QED BY <2>2, <2>3
<1>5. TypeOK'
  <2>1. buffer' \in [Slots -> Int \cup {Junk}]
    BY <1>3 DEF TypeOK
  <2>2. plan' \in [read : Nat, pos : Slots, space : Nat]
    BY <1>1, <1>2, <1>3
  <2>3. spos' \in Nat
    BY DEF TypeOK
  <2> QED BY <1>3, <1>4, <2>1, <2>2, <2>3 DEF TypeOK, readerVars, commands
<1>6. WindowOK'
  BY <1>1, <1>3, <1>4, Geometry DEF WindowOK, TypeOK
<1>7. BlockIsFree'
  BY <1>1, <1>2, <1>3, <1>4 DEF BlockIsFree, EndSlot, Slot
<1>8. BufferHoldsWindow'
  <2> SUFFICES ASSUME NEW p \in min_filepos' .. max_filepos - 1
               PROVE  buffer'[Slot(p)'] = p
    BY <1>3 DEF BufferHoldsWindow
  <2>1. Slot(p)' = Slot(p)
    BY <1>3 DEF Slot
  <2>2. p \in min_filepos .. max_filepos - 1
    BY <1>4 DEF TypeOK
  <2>3. Slot(p) \in Slots
    BY <2>2, WindowSlot DEF TypeOK
  <2> QED BY <1>3, <2>1, <2>2, <2>3 DEF BufferHoldsWindow
<1>9. ReaderOK'
  <2>1. /\ rpc \in {"new", "locate", "copy"} => min_filepos' <= read_filepos
        /\ rpc \in {"min", "new", "locate", "copy"} /\ min_filepos = read_filepos =>
             min_filepos' = read_filepos
    BY <1>4 DEF ReaderOK, TypeOK
  <2> QED BY <1>3, <2>1 DEF ReaderOK, Reading, readerVars, commands, Slot
<1>10. (Reloads => DeliveredIsFile)'
  BY <1>3 DEF DeliveredIsFile, readerVars
<1> QED BY <1>5, <1>6, <1>7, <1>8, <1>9, <1>10

LEMMA FillForwardKeepsIInv == IInv /\ FillForward => IInv'
<1> SUFFICES ASSUME IInv, FillForward PROVE IInv'
  OBVIOUS
<1>1. read_filepos \in Nat /\ StartBlock(read_filepos)
      /\ FreeSpace(read_filepos) >= FillLimit
  BY DEF FillForward, IInv, TypeOK
<1>2. spos' = max_filepos
  BY DEF FillForward, IInv, WindowOK
<1>3. \/ read_filepos <= max_filepos
      \/ Streaming /\ read_filepos < max_filepos + SeekLimit
  BY Geometry, GeometryAssumption DEF FillForward, MustSeek, IInv, TypeOK
<1> QED BY <1>1, <1>2, <1>3, StartBlockKeepsIInv

LEMMA FillSeekKeepsIInv == IInv /\ FillSeek => IInv'
<1> SUFFICES ASSUME IInv, FillSeek PROVE IInv'
  OBVIOUS
<1>1. /\ min_filepos = max_filepos /\ plan.read = max_filepos
      /\ max_filepos \in Nat /\ min_filepos \in Nat
  BY DEF FillSeek, IInv, BlockIsFree, TypeOK
<1>2. spos' = max_filepos /\ StartBlock(max_filepos)
  BY <1>1 DEF FillSeek
<1>3. FreeSpace(max_filepos) >= FillLimit
  BY <1>1, Geometry DEF FreeSpace, NewBytes, BackBytes, Larger, Smaller
<1>4. rpc \in {"min", "new", "locate", "copy"} /\ min_filepos <= read_filepos =>
        max_filepos = read_filepos
  BY <1>1 DEF IInv, ReaderOK, TypeOK
<1> QED BY <1>1, <1>2, <1>3, <1>4, StartBlockKeepsIInv

(* A flush happens only when the reader is out of the window, so it takes no
   byte from under a reader that has compared its position with both ends; one
   that has compared it with one end then finds an empty window. *)
LEMMA FillFlushKeepsIInv == IInv /\ FillFlush => IInv'
<1> SUFFICES ASSUME IInv, FillFlush PROVE IInv'
  OBVIOUS
<1> USE DEF IInv
<1>1. rpc \notin {"new", "locate", "copy"}
  BY DEF FillFlush, MustSeek, ReaderOK, TypeOK
<1>2. /\ min_filepos' = read_filepos /\ max_filepos' = read_filepos
      /\ offset' = read_filepos /\ read_filepos' = read_filepos
      /\ buffer' = [i \in Slots |-> Junk]
      /\ plan' = [read |-> read_filepos, pos |-> 0, space |-> 0]
      /\ fpc' = "seek"
      /\ UNCHANGED <<eof, control, control_res, spos, error>>
      /\ UNCHANGED <<rpc, todo, got, stream_pos, getMESS>>
  BY DEF FillFlush, NoPlan, commands, readerVars
<1>3. TypeOK'
  <2>1. 0 \in Slots
    BY Geometry DEF Slots
  <2> QED BY <1>2, <2>1 DEF TypeOK
<1>4. WindowOK'
  <2>1. read_filepos \in Nat /\ read_filepos <= FileEnd
    BY DEF TypeOK, WindowOK
  <2> QED BY <1>2, <2>1, Geometry DEF WindowOK
<1>5. BlockIsFree'
  BY <1>2 DEF BlockIsFree
<1>6. BufferHoldsWindow'
  BY <1>2 DEF BufferHoldsWindow, TypeOK
<1>7. ReaderOK'
  BY <1>1, <1>2 DEF ReaderOK, Reading, TypeOK
<1>8. (Reloads => DeliveredIsFile)'
  BY <1>2 DEF DeliveredIsFile
<1> QED BY <1>3, <1>4, <1>5, <1>6, <1>7, <1>8

(* The slots a block is read into are not slots of the window, so the window
   grows by the block and keeps what it had. *)
LEMMA FillReadKeepsIInv ==
  ASSUME IInv, NEW len \in 1 .. BufferSize, FillRead(len)
  PROVE  IInv'
<1> USE DEF IInv
<1>1. /\ plan.pos = max_filepos - offset /\ plan.pos \in Slots
      /\ plan.pos >= 0 /\ plan.pos < BufferSize
  BY EndOfWindow, Geometry DEF FillRead, BlockIsFree, Slots
<1>2. /\ len \in Nat /\ len >= 1
      /\ max_filepos + len <= min_filepos + BufferSize
      /\ max_filepos + len <= FileEnd
      /\ spos = max_filepos
  BY Geometry, FileAssumption DEF FillRead, BlockIsFree, WindowOK, TypeOK
<1>3. /\ min_filepos' = min_filepos /\ max_filepos' = max_filepos + len
      /\ offset' = IF plan.pos + len >= BufferSize THEN offset + BufferSize ELSE offset
      /\ fpc' = "control" /\ read_filepos' = read_filepos
      /\ spos' = max_filepos + len
      /\ UNCHANGED <<eof, commands, readerVars>>
  BY <1>2 DEF FillRead
<1>4. /\ min_filepos \in Nat /\ max_filepos \in Nat /\ offset \in Nat
      /\ BufferSize \in Nat
  BY Geometry DEF TypeOK
<1>5. offset' \in Nat /\ offset' <= max_filepos' /\ max_filepos' < offset' + BufferSize
  BY <1>1, <1>2, <1>3, <1>4 DEF WindowOK
<1>6. TypeOK'
  <2>1. buffer' \in [Slots -> Int \cup {Junk}]
    <3>1. spos \in Int /\ plan.pos \in Int /\ BufferSize \in Int
      BY <1>2, <1>4, <1>1 DEF Slots
    <3>2. ASSUME NEW i \in Slots
          PROVE  /\ spos + (i - plan.pos) \in Int
                 /\ spos + (i + BufferSize - plan.pos) \in Int
      BY <3>1 DEF Slots
    <3>3. ASSUME NEW i \in Slots PROVE buffer[i] \in Int \cup {Junk}
      BY DEF TypeOK
    <3> QED BY <3>2, <3>3 DEF FillRead
  <2>2. plan' \in [read : Nat, pos : Slots, space : Nat]
    BY Geometry DEF FillRead, NoPlan, Slots
  <2> QED BY <2>1, <2>2, <1>2, <1>3, <1>4, <1>5
       DEF TypeOK, FillRead, commands, readerVars
<1>7. WindowOK'
  BY <1>2, <1>3, <1>4, <1>5 DEF WindowOK, TypeOK
<1>8. BlockIsFree'
  BY <1>3 DEF BlockIsFree
<1>9. BufferHoldsWindow'
  <2> SUFFICES ASSUME NEW p \in min_filepos' .. max_filepos' - 1
               PROVE  buffer'[Slot(p)'] = p
    BY DEF BufferHoldsWindow
  <2>0. p \in Int /\ min_filepos <= p /\ p < max_filepos + len
    BY <1>2, <1>3, <1>4
  <2> DEFINE s == Slot(p)'
  <2>1. s = IF p - offset < 0 THEN p - offset + BufferSize
            ELSE IF p - offset >= BufferSize THEN p - offset - BufferSize
            ELSE p - offset
    BY <2>0, <1>1, <1>2, <1>3, <1>4 DEF Slot, WindowOK
  <2>2. s \in Slots
    BY <2>0, <2>1, <1>1, <1>2, <1>4 DEF Slots, WindowOK
  <2> HIDE DEF s
  <2>3. buffer'[s] = IF plan.pos <= s /\ s < plan.pos + len THEN spos + (s - plan.pos)
                     ELSE IF s + BufferSize < plan.pos + len
                     THEN spos + (s + BufferSize - plan.pos)
                     ELSE buffer[s]
    BY <2>2 DEF FillRead
  <2>4. CASE p < max_filepos
    <3>1. ~(plan.pos <= s /\ s < plan.pos + len) /\ ~(s + BufferSize < plan.pos + len)
      BY <2>0, <2>1, <2>4, <1>1, <1>2, <1>4
    <3>2. buffer[Slot(p)] = p
      BY <2>0, <2>4, <1>4 DEF BufferHoldsWindow
    <3>3. Slot(p) = s
      BY <2>1 DEF Slot
    <3> QED BY <2>3, <3>1, <3>2, <3>3 DEF s
  <2>5. CASE p >= max_filepos
    BY <2>0, <2>1, <2>3, <2>5, <1>1, <1>2, <1>4 DEF s, WindowOK
  <2> QED BY <2>0, <2>4, <2>5, <1>4
<1>10. ReaderOK'
  <2>1. rpc = "copy" => Slot(read_filepos)' = Slot(read_filepos)
    BY <1>1, <1>2, <1>3, <1>4, SMTT(30) DEF ReaderOK, Slot, TypeOK, WindowOK
  <2>2. /\ read_filepos <= max_filepos =>
             read_filepos <= max_filepos + len /\ read_filepos # max_filepos + len
        /\ read_filepos + todo.newb <= max_filepos =>
             read_filepos + todo.newb <= max_filepos + len
    BY <1>2, <1>4 DEF TypeOK
  <2> QED BY <1>3, <2>1, <2>2 DEF ReaderOK, Reading, readerVars, commands
<1>11. (Reloads => DeliveredIsFile)'
  BY <1>3 DEF DeliveredIsFile, readerVars
<1> QED BY <1>6, <1>7, <1>8, <1>9, <1>10, <1>11

(* The filler's steps that leave the window alone. *)
LEMMA IdleFillerKeepsIInv ==
  ASSUME IInv,
         FillNothing \/ (\E how \in {"end", "error", "silent"} : FillFailed(how))
           \/ ExecuteNothing \/ ExecuteQuery
  PROVE  IInv'
<1> USE DEF IInv
<1>1. /\ UNCHANGED <<min_filepos, max_filepos, offset, read_filepos, buffer, spos>>
      /\ UNCHANGED <<rpc, todo, got, stream_pos, getMESS>>
      /\ fpc # "seek"
      /\ fpc' \in {"fill", "control"}
      /\ eof' \in BOOLEAN
      /\ error' \in Nat
      /\ plan' \in {plan, NoPlan}
      /\ control' \in {control, "none"}
      /\ control_res' \in {"ok", "unsupported"}
      /\ control' = control => control_res' = control_res
  <2>0. /\ eof \in BOOLEAN /\ error \in Nat
        /\ control_res \in {"ok", "unsupported"}
    BY DEF TypeOK
  <2>1. CASE FillNothing
    <3>1. /\ fpc = "fill" /\ fpc' = "control"
          /\ UNCHANGED <<window, read_filepos, eof, commands, source, plan, readerVars>>
      BY <2>1 DEF FillNothing
    <3> QED BY <2>0, <3>1 DEF window, source, commands, readerVars
  <2>2. CASE \E how \in {"end", "error", "silent"} : FillFailed(how)
    <3>1. PICK how \in {"end", "error", "silent"} : FillFailed(how)
      BY <2>2
    <3> DEFINE err == IF how = "error" THEN Larger(error, 1) ELSE error
    <3>2. err \in Nat
      BY DEF Larger, TypeOK
    <3>3. ASSUME err > 0 PROVE eof' \in BOOLEAN /\ error' \in Nat
      <4>1. error' = Smaller(err + 1, ErrorCap) /\ eof' = (error' > MaxErrors \/ LowCache)
        BY <3>1, <3>3 DEF FillFailed
      <4>2. eof' \in BOOLEAN
        BY <4>1, Zenon
      <4>3. error' \in Nat
        BY <3>2, <4>1, FileAssumption DEF Smaller
      <4> QED BY <4>2, <4>3
    <3>4. ASSUME ~(err > 0) PROVE eof' \in BOOLEAN /\ error' \in Nat
      BY <2>0, <3>1, <3>4 DEF FillFailed
    <3>5. eof' \in BOOLEAN /\ error' \in Nat
      BY <3>3, <3>4
    <3>6. /\ UNCHANGED <<window, read_filepos, commands, buffer, spos, readerVars>>
          /\ fpc = "read" /\ fpc' = "control" /\ plan' = NoPlan
      BY <3>1 DEF FillFailed
    <3>7. /\ UNCHANGED <<min_filepos, max_filepos, offset, read_filepos, buffer, spos>>
          /\ UNCHANGED <<rpc, todo, got, stream_pos, getMESS>>
          /\ control' = control /\ control_res' = control_res
      BY <3>6 DEF window, commands, readerVars
    <3> QED BY <2>0, <3>5, <3>6, <3>7
  <2>3. CASE ExecuteNothing
    <3>1. /\ fpc = "control" /\ fpc' = "fill"
          /\ UNCHANGED <<window, read_filepos, eof, commands, source, plan, readerVars>>
      BY <2>3 DEF ExecuteNothing
    <3> QED BY <2>0, <3>1 DEF window, source, commands, readerVars
  <2>4. CASE ExecuteQuery
    <3>1. /\ fpc = "control" /\ fpc' = "fill"
          /\ control # "none" /\ control' = "none"
          /\ control_res' \in {"ok", "unsupported"}
          /\ UNCHANGED <<window, read_filepos, eof, source, plan, readerVars>>
      BY <2>4 DEF ExecuteQuery
    <3> QED BY <2>0, <3>1 DEF window, source, readerVars
  <2> QED BY <2>1, <2>2, <2>3, <2>4
<1>2. TypeOK'
  <2>1. plan' \in [read : Nat, pos : Slots, space : Nat]
    BY <1>1, Geometry DEF TypeOK, NoPlan, Slots
  <2> QED BY <1>1, <2>1 DEF TypeOK
<1>3. WindowOK'
  BY <1>1 DEF WindowOK
<1>4. BlockIsFree'
  BY <1>1 DEF BlockIsFree
<1>5. BufferHoldsWindow'
  BY <1>1 DEF BufferHoldsWindow, Slot
<1>6. ReaderOK'
  BY <1>1 DEF ReaderOK, Reading, Slot, TypeOK
<1>7. (Reloads => DeliveredIsFile)'
  BY <1>1 DEF DeliveredIsFile
<1> QED BY <1>2, <1>3, <1>4, <1>5, <1>6, <1>7

(* A seek ordered by the reader is carried out while the reader waits, or
   after it has given up; in both cases no copy is under way. *)
LEMMA ExecuteSeekKeepsIInv ==
  ASSUME IInv, NEW p \in Positions, ExecuteSeek(p)
  PROVE  IInv'
<1> USE DEF IInv
<1>1. rpc \notin Reading \ {"check"}
  BY DEF ExecuteSeek, ReaderOK, Reading
<1>2. getMESS \/ rpc = "seek"
  BY DEF ExecuteSeek, ReaderOK
<1>3. /\ min_filepos' = p /\ max_filepos' = p /\ offset' = p
      /\ read_filepos' = p /\ spos' = p
      /\ buffer' = [i \in Slots |-> Junk]
      /\ eof' \in BOOLEAN
      /\ control' = "none" /\ control_res' = "ok"
      /\ fpc' = "fill"
      /\ UNCHANGED <<error, plan, rpc, todo, got, stream_pos, getMESS>>
  BY DEF ExecuteSeek, readerVars
<1>4. p \in Nat /\ p <= FileEnd
  BY FileAssumption DEF Positions
<1>5. TypeOK'
  BY <1>3, <1>4 DEF TypeOK
<1>6. WindowOK'
  BY <1>3, <1>4, Geometry DEF WindowOK
<1>7. BlockIsFree'
  BY <1>3 DEF BlockIsFree
<1>8. BufferHoldsWindow'
  BY <1>3, <1>4 DEF BufferHoldsWindow
<1>9. ReaderOK'
  BY <1>1, <1>2, <1>3 DEF ReaderOK, Reading
<1>10. (Reloads => DeliveredIsFile)'
  BY <1>3 DEF DeliveredIsFile
<1> QED BY <1>5, <1>6, <1>7, <1>8, <1>9, <1>10

LEMMA FillerKeepsIInv == IInv /\ FillStep => IInv'
<1> SUFFICES ASSUME IInv, FillStep PROVE IInv'
  OBVIOUS
<1>1. CASE \E len \in 1 .. BufferSize : FillRead(len)
  BY <1>1, FillReadKeepsIInv
<1>2. CASE \E p \in Positions : ExecuteSeek(p)
  BY <1>2, ExecuteSeekKeepsIInv
<1> QED
  BY <1>1, <1>2, FillForwardKeepsIInv, FillFlushKeepsIInv, FillSeekKeepsIInv,
     IdleFillerKeepsIInv DEF FillStep

----------------------------------------------------------------------------
(* The invariant is kept by the reader.                                    *)

(* The reader owns none of the filler's pointers, so of the conjuncts about
   the window only its own position can be disturbed. *)
LEMMA ReaderFrame ==
  ASSUME IInv, UNCHANGED <<window, source, fillerVars>>,
         read_filepos' \in Nat, read_filepos' <= FileEnd
  PROVE  WindowOK' /\ BlockIsFree' /\ BufferHoldsWindow'
<1>1. UNCHANGED <<min_filepos, max_filepos, offset, buffer, spos, error, fpc, plan>>
  BY DEF window, source, fillerVars
<1> QED
  BY <1>1 DEF IInv, WindowOK, BlockIsFree, BufferHoldsWindow, Slot, EndSlot

Bytes == Int \cup {Junk}

(* Bytes of the file followed by the next bytes of the file. *)
LEMMA FileBytesConcat ==
  ASSUME NEW s \in Seq(Bytes), NEW t \in Seq(Bytes), NEW base \in Int,
         \A i \in 1 .. Len(s) : s[i] = base + i - 1,
         \A i \in 1 .. Len(t) : t[i] = base + Len(s) + i - 1
  PROVE  /\ s \o t \in Seq(Bytes)
         /\ Len(s \o t) = Len(s) + Len(t)
         /\ \A i \in 1 .. Len(s \o t) : (s \o t)[i] = base + i - 1
<1>1. /\ s \o t \in Seq(Bytes)
      /\ Len(s \o t) = Len(s) + Len(t)
      /\ \A i \in 1 .. Len(s) + Len(t) :
           (s \o t)[i] = IF i <= Len(s) THEN s[i] ELSE t[i - Len(s)]
  BY ConcatProperties
<1>2. Len(s) \in Nat /\ Len(t) \in Nat
  OBVIOUS
<1>3. ASSUME NEW i \in 1 .. Len(s) + Len(t)
      PROVE  (s \o t)[i] = base + i - 1
  <2>1. CASE i <= Len(s)
    BY <1>1, <1>2, <2>1
  <2>2. CASE ~(i <= Len(s))
    <3>1. i - Len(s) \in 1 .. Len(t)
      BY <1>2, <2>2
    <3>2. t[i - Len(s)] = base + Len(s) + (i - Len(s)) - 1
      BY <3>1
    <3> QED BY <1>1, <1>2, <2>2, <3>2
  <2> QED BY <2>1, <2>2
<1> QED BY <1>1, <1>3

(* The piece the reader copies lies in the ring and in the file. *)
LEMMA PieceBounds ==
  ASSUME IInv, ReadCopy
  PROVE  /\ todo.newb \in Nat /\ todo.newb >= 1
         /\ read_filepos \in Nat /\ read_filepos + todo.newb <= FileEnd
         /\ Len(got) \in Nat /\ Len(got) + todo.newb <= Sector
         /\ stream_pos + Len(got) = read_filepos
         /\ control = "none"
         /\ \A i \in 1 .. todo.newb : todo.pos + i - 1 \in Slots
<1> DEFINE n == todo.newb
<1>1. /\ n \in Nat /\ todo.pos \in Slots
      /\ read_filepos \in Nat /\ max_filepos \in Nat /\ max_filepos <= FileEnd
      /\ Len(got) \in Nat
  BY DEF IInv, TypeOK, WindowOK
<1>2. /\ todo.pos + n <= BufferSize
      /\ Len(got) + n <= Sector
      /\ stream_pos + Len(got) = read_filepos
      /\ Reloads => read_filepos + n <= max_filepos
      /\ ~Reloads => read_filepos + n <= FileEnd
  BY DEF ReadCopy, IInv, ReaderOK, Reading
<1>3. control = "none"
  BY DEF ReadCopy, IInv, ReaderOK, Reading, TypeOK
<1>4. n >= 1
  BY <1>1 DEF ReadCopy, OddPiece
<1>5. read_filepos + n <= FileEnd
  BY <1>1, <1>2, FileAssumption
<1>6. ASSUME NEW i \in 1 .. n PROVE todo.pos + i - 1 \in Slots
  <2>1. todo.pos \in Nat /\ BufferSize \in Nat
    BY <1>1, Geometry DEF Slots
  <2>2. i \in Nat /\ i >= 1 /\ i <= n
    BY <1>1
  <2>3. todo.pos + n <= BufferSize /\ n \in Nat
    BY <1>1, <1>2
  <2> HIDE DEF n
  <2> QED BY <2>1, <2>2, <2>3 DEF Slots
<1> QED BY <1>1, <1>2, <1>3, <1>4, <1>5, <1>6

(* It is a piece of the file when newb was loaded after the comparisons. *)
LEMMA CopiedBytes ==
  ASSUME IInv, ReadCopy, Reloads
  PROVE  \A i \in 1 .. todo.newb : buffer[todo.pos + i - 1] = read_filepos + i - 1
<1> DEFINE n == todo.newb
<1>1. /\ todo.pos = Slot(read_filepos)
      /\ todo.pos + n <= BufferSize
      /\ min_filepos <= read_filepos /\ read_filepos + n <= max_filepos
  BY DEF ReadCopy, IInv, ReaderOK
<1>3. /\ n \in Nat /\ todo.pos \in Int
      /\ read_filepos \in Nat /\ max_filepos \in Nat /\ min_filepos \in Nat
  BY DEF IInv, TypeOK, Slots
<1>4. ASSUME NEW i \in 1 .. n
      PROVE  buffer[todo.pos + i - 1] = read_filepos + i - 1
  <2>1. /\ i - 1 \in Nat /\ read_filepos + (i - 1) < max_filepos
        /\ Slot(read_filepos) + (i - 1) < BufferSize
    BY <1>1, <1>3, Geometry, SMTT(30)
  <2>2. Slot(read_filepos + (i - 1)) = todo.pos + (i - 1)
    BY <1>1, <1>3, <2>1, NextSlots DEF IInv
  <2>3. buffer[Slot(read_filepos + (i - 1))] = read_filepos + (i - 1)
    BY <1>1, <1>3, <2>1 DEF IInv, BufferHoldsWindow
  <2>4. todo.pos + (i - 1) = todo.pos + i - 1 /\ read_filepos + (i - 1) = read_filepos + i - 1
    BY <1>3
  <2> QED BY <2>2, <2>3, <2>4
<1> QED BY <1>4

LEMMA ReadCopyKeepsIInv == IInv /\ ReadCopy => IInv'
<1> SUFFICES ASSUME IInv, ReadCopy PROVE IInv'
  OBVIOUS
<1> USE DEF IInv
<1> DEFINE n == todo.newb
           piece == [i \in 1 .. n |-> buffer[todo.pos + i - 1]]
<1>1. /\ n \in Nat /\ n >= 1 /\ read_filepos + n <= FileEnd
      /\ Len(got) + n <= Sector
      /\ stream_pos + Len(got) = read_filepos
      /\ control = "none"
  BY PieceBounds
<1>2. /\ got' = got \o piece
      /\ read_filepos' = read_filepos + n
      /\ rpc' = IF Len(got) + n = Sector THEN "return" ELSE "check"
      /\ todo' = NoTodo
      /\ UNCHANGED <<window, eof, commands, source, fillerVars, stream_pos, getMESS>>
  BY DEF ReadCopy
<1>4. piece \in Seq(Int \cup {Junk}) /\ Len(piece) = n
  <2>1. ASSUME NEW i \in 1 .. n PROVE buffer[todo.pos + i - 1] \in Int \cup {Junk}
    BY PieceBounds DEF TypeOK
  <2> QED BY <1>1, <2>1
<1>5. got \in Seq(Int \cup {Junk}) /\ Len(got) \in Nat
  BY DEF TypeOK
<1>6. /\ got' \in Seq(Int \cup {Junk})
      /\ Len(got') = Len(got) + n
  <2> HIDE DEF piece, n
  <2> QED BY <1>2, <1>4, <1>5, ConcatProperties
<1>7. ASSUME Reloads
      PROVE  \A i \in 1 .. Len(got') : got'[i] = stream_pos + i - 1
  <2>1. \A i \in 1 .. Len(got) : got[i] = stream_pos + i - 1
    BY <1>7 DEF DeliveredIsFile
  <2>2. \A i \in 1 .. Len(piece) : piece[i] = stream_pos + Len(got) + i - 1
    <3>1. \A i \in 1 .. n : piece[i] = read_filepos + i - 1
      BY <1>7, CopiedBytes
    <3> QED BY <1>1, <1>4, <3>1
  <2>3. stream_pos \in Int
    BY DEF TypeOK
  <2> HIDE DEF piece, n
  <2>4. \A i \in 1 .. Len(got \o piece) : (got \o piece)[i] = stream_pos + i - 1
    BY <1>4, <1>5, <2>1, <2>2, <2>3, FileBytesConcat DEF Bytes
  <2> QED BY <1>2, <2>4
<1> HIDE DEF piece, n
<1>8. /\ stream_pos' = stream_pos /\ control' = control /\ getMESS' = getMESS
      /\ stream_pos \in Nat /\ read_filepos \in Nat
  BY <1>2 DEF commands, TypeOK
<1>9. read_filepos' \in Nat /\ read_filepos' <= FileEnd
  BY <1>1, <1>2, <1>8
<1>10. TypeOK'
  BY <1>2, <1>6, <1>9, Geometry
     DEF TypeOK, Reading, NoTodo, Slots, window, commands, source, fillerVars
<1>11. WindowOK' /\ BlockIsFree' /\ BufferHoldsWindow'
  BY <1>2, <1>9, ReaderFrame
<1>12. ReaderOK'
  <2>1. /\ rpc' \in {"return", "check"} /\ (rpc' = "check" => Len(got') < Sector)
        /\ Len(got') <= Sector
    BY <1>1, <1>2, <1>5, <1>6, Geometry
  <2>2. control' = "none"
    BY <1>1, <1>8
  <2>3. stream_pos' + Len(got') = read_filepos'
    <3>1. stream_pos + (Len(got) + n) = read_filepos + n
      BY <1>1, <1>5, <1>8
    <3> QED BY <1>2, <1>6, <1>8, <3>1
  <2> QED BY <2>1, <2>2, <2>3 DEF ReaderOK, Reading
<1>13. (Reloads => DeliveredIsFile)'
  BY <1>7, <1>8 DEF DeliveredIsFile
<1> QED BY <1>10, <1>11, <1>12, <1>13

(* What the type invariant says of the reader's side. *)
LEMMA ReaderTypes ==
  ASSUME IInv
  PROVE  /\ control \in {"none", "seek", "get"}
         /\ read_filepos \in Nat /\ stream_pos \in Nat /\ todo.newb \in Nat
         /\ min_filepos \in Nat /\ max_filepos \in Nat
         /\ Len(got) \in Nat /\ Len(<<>>) = 0
         /\ getMESS \in BOOLEAN
BY DEF IInv, TypeOK

(* The reader's steps that copy nothing and leave its position alone. *)
LEMMA WaitingReaderKeepsIInv ==
  ASSUME IInv, UNCHANGED <<window, read_filepos, eof, source, fillerVars>>,
         rpc' \in Reading \cup {"ready", "moved", "return", "seek", "get"},
         control' \in {"none", "seek", "get"}, control_res' = control_res,
         todo' \in [pos : Slots, newb : Nat],
         got' \in {got, <<>>},
         stream_pos' \in Nat, stream_pos' = stream_pos \/ got' = <<>>,
         getMESS' \in BOOLEAN,
         ReaderOK'
  PROVE  IInv'
<1> USE DEF IInv
<1>1. /\ UNCHANGED <<min_filepos, max_filepos, offset, read_filepos, eof>>
      /\ UNCHANGED <<buffer, spos, error, fpc, plan>>
  BY DEF window, source, fillerVars
<1>2. read_filepos' \in Nat /\ read_filepos' <= FileEnd
  BY <1>1 DEF TypeOK, WindowOK
<1>3. WindowOK' /\ BlockIsFree' /\ BufferHoldsWindow'
  BY <1>2, ReaderFrame
<1>4. got' \in Seq(Int \cup {Junk})
  <2>1. got \in Seq(Int \cup {Junk})
    BY DEF TypeOK
  <2>2. <<>> \in Seq(Int \cup {Junk})
    OBVIOUS
  <2> QED BY <2>1, <2>2, Zenon
<1>5. TypeOK'
  BY <1>1, <1>4 DEF TypeOK
<1>6. (Reloads => DeliveredIsFile)'
  <2>1. CASE got' = <<>>
    BY <2>1 DEF DeliveredIsFile
  <2>2. CASE got' = got /\ stream_pos' = stream_pos
    BY <2>2 DEF DeliveredIsFile
  <2> QED BY <2>1, <2>2
<1> QED BY <1>3, <1>5, <1>6

LEMMA ReadStartKeepsIInv == IInv /\ ReadStart => IInv'
<1> SUFFICES ASSUME IInv, ReadStart PROVE IInv'
  OBVIOUS
<1>1. /\ rpc = "ready" /\ rpc' = "check" /\ got = <<>>
      /\ UNCHANGED <<todo, got, stream_pos, getMESS, control, control_res, read_filepos>>
  BY DEF ReadStart, commands, IInv, ReaderOK
<1>2. ReaderOK'
  BY <1>1, Geometry, ReaderTypes DEF IInv, ReaderOK, Reading
<1> QED
  BY <1>1, <1>2, WaitingReaderKeepsIInv DEF ReadStart, IInv, TypeOK, Reading

(* After the comparison with the end of the window the reader's position is not
   behind it; without Reloads what is left of the window is counted already. *)
LEMMA ReadMaxKeepsIInv == IInv /\ ReadMax => IInv'
<1> SUFFICES ASSUME IInv, ReadMax PROVE IInv'
  OBVIOUS
<1>1. /\ rpc \in {"check", "last"} /\ (~getMESS \/ rpc = "last")
      /\ rpc' \in {"eof", "min"}
      /\ UNCHANGED <<got, stream_pos, getMESS, control, control_res>>
      /\ UNCHANGED <<min_filepos, max_filepos, read_filepos>>
  BY DEF ReadMax, Turn, commands, window
<1>2. /\ min_filepos \in Nat /\ max_filepos \in Nat /\ read_filepos \in Nat
      /\ max_filepos <= FileEnd
  BY DEF IInv, TypeOK, WindowOK
<1>3. CASE read_filepos >= max_filepos
  <2>1. rpc' = "eof" /\ todo' = todo
    BY <1>3 DEF ReadMax
  <2>2. ReaderOK'
    BY <1>1, <2>1, ReaderTypes DEF IInv, ReaderOK, Reading
  <2> QED
    BY <1>1, <2>1, <2>2, WaitingReaderKeepsIInv DEF ReadMax, IInv, TypeOK, Reading
<1>4. CASE ~(read_filepos >= max_filepos)
  <2>1. /\ rpc' = "min" /\ read_filepos < max_filepos
        /\ todo' = IF Reloads THEN todo
                   ELSE [todo EXCEPT !.newb = max_filepos - read_filepos]
    BY <1>2, <1>4 DEF ReadMax
  <2>2. todo \in [pos : Slots, newb : Nat]
    BY DEF IInv, TypeOK
  <2>3. max_filepos - read_filepos \in Nat /\ max_filepos - read_filepos >= 1
        /\ read_filepos + (max_filepos - read_filepos) = max_filepos
    BY <1>2, <2>1
  <2>4. /\ todo' \in [pos : Slots, newb : Nat]
        /\ ~Reloads => todo'.newb = max_filepos - read_filepos
    BY <2>1, <2>2, <2>3
  <2>5. ~Reloads => /\ todo'.newb >= 1
                    /\ read_filepos + todo'.newb = max_filepos
                    /\ read_filepos + todo'.newb <= FileEnd
    BY <1>2, <2>3, <2>4
  <2>6. ReaderOK'
    BY <1>1, <1>2, <2>1, <2>5, ReaderTypes DEF IInv, ReaderOK, Reading
  <2> QED
    BY <1>1, <2>1, <2>4, <2>6, WaitingReaderKeepsIInv DEF ReadMax, IInv, TypeOK, Reading
<1> QED BY <1>3, <1>4

(* After the second comparison the reader's position is in the window, or at the
   end of a window that was emptied there. *)
LEMMA ReadMinKeepsIInv == IInv /\ ReadMin => IInv'
<1> SUFFICES ASSUME IInv, ReadMin PROVE IInv'
  OBVIOUS
<1>1. /\ rpc = "min" /\ rpc' \in {"eof", "new"}
      /\ rpc' = "new" => min_filepos <= read_filepos /\ todo' = todo
      /\ todo' \in {todo, NoTodo}
      /\ UNCHANGED <<got, stream_pos, getMESS, control, control_res>>
      /\ UNCHANGED <<min_filepos, max_filepos, read_filepos>>
  BY ReaderTypes DEF ReadMin, commands, window
<1>2. todo' \in [pos : Slots, newb : Nat]
  BY <1>1, Geometry DEF IInv, TypeOK, NoTodo, Slots
<1>3. ReaderOK'
  BY <1>1, ReaderTypes DEF IInv, ReaderOK, Reading
<1> QED
  BY <1>1, <1>2, <1>3, WaitingReaderKeepsIInv DEF ReadMin, IInv, TypeOK, Reading

LEMMA ReadNewKeepsIInv == IInv /\ ReadNew => IInv'
<1> SUFFICES ASSUME IInv, ReadNew PROVE IInv'
  OBVIOUS
<1>1. /\ rpc = "new" /\ rpc' = "locate"
      /\ todo' = IF Reloads THEN [todo EXCEPT !.newb = max_filepos - read_filepos]
                 ELSE todo
      /\ UNCHANGED <<got, stream_pos, getMESS, control, control_res>>
      /\ UNCHANGED <<min_filepos, max_filepos, read_filepos>>
  BY DEF ReadNew, commands, window
<1>2. /\ min_filepos \in Nat /\ max_filepos \in Nat /\ read_filepos \in Nat
      /\ min_filepos <= read_filepos /\ read_filepos <= max_filepos
      /\ read_filepos = max_filepos => min_filepos = read_filepos
      /\ todo \in [pos : Slots, newb : Nat]
  BY <1>1 DEF IInv, TypeOK, ReaderOK
<1>3. /\ max_filepos - read_filepos \in Nat
      /\ read_filepos + (max_filepos - read_filepos) = max_filepos
      /\ max_filepos - read_filepos >= 1 \/ min_filepos = read_filepos
  BY <1>2
<1>4. /\ todo' \in [pos : Slots, newb : Nat]
      /\ Reloads => todo'.newb = max_filepos - read_filepos
      /\ ~Reloads => todo' = todo
  BY <1>1, <1>2, <1>3
<1>5. /\ todo'.newb >= 1 \/ min_filepos = read_filepos
      /\ Reloads => read_filepos + todo'.newb <= max_filepos
  <2>1. ~Reloads => todo.newb >= 1
    BY <1>1 DEF IInv, ReaderOK
  <2> QED BY <1>2, <1>3, <1>4, <2>1
<1>6. ReaderOK'
  BY <1>1, <1>2, <1>4, <1>5, ReaderTypes DEF IInv, ReaderOK, Reading
<1> QED
  BY <1>1, <1>4, <1>6, WaitingReaderKeepsIInv DEF ReadNew, IInv, TypeOK, Reading

(* The piece located is the block the reader counted, cut at the end of the ring
   and at the end of the sector; it is empty only if the block was. *)
LEMMA ReadLocateKeepsIInv == IInv /\ ReadLocate => IInv'
<1> SUFFICES ASSUME IInv, ReadLocate PROVE IInv'
  OBVIOUS
<1> DEFINE pos == Slot(read_filepos)
           n == Smaller(Smaller(todo.newb, BufferSize - pos), Sector - Len(got))
<1>1. /\ rpc = "locate" /\ rpc' = "copy"
      /\ todo' = [pos |-> pos, newb |-> n]
      /\ UNCHANGED <<got, stream_pos, getMESS, control, control_res>>
      /\ UNCHANGED <<min_filepos, max_filepos, offset, read_filepos>>
  BY DEF ReadLocate, PieceAt, commands, window
<1>2. /\ min_filepos <= read_filepos /\ read_filepos <= max_filepos
      /\ Len(got) < Sector
  BY <1>1 DEF IInv, ReaderOK, Reading
<1>3. /\ read_filepos \in Nat /\ todo.newb \in Nat /\ Len(got) \in Nat
      /\ min_filepos \in Nat /\ max_filepos \in Nat
  BY DEF IInv, TypeOK
<1>4. pos \in Slots
  BY <1>2, <1>3, WindowSlot DEF IInv
<1>5. pos \in Nat /\ pos < BufferSize
  BY <1>4, Geometry DEF Slots
<1> HIDE DEF pos
<1>6. /\ n \in Nat /\ n <= todo.newb
      /\ todo.newb >= 1 => n >= 1
      /\ pos + n <= BufferSize /\ Len(got) + n <= Sector
  BY <1>2, <1>3, <1>5, Geometry DEF Smaller
<1> HIDE DEF n
<1>7. todo' \in [pos : Slots, newb : Nat]
  BY <1>1, <1>4, <1>6
<1>8. ReaderOK'
  <2>1. pos' = pos
    BY <1>1 DEF pos, Slot
  <2>2. todo'.pos = pos /\ todo'.newb = n
    BY <1>1
  <2>3. /\ read_filepos + todo.newb <= max_filepos => read_filepos + n <= max_filepos
        /\ read_filepos + todo.newb <= FileEnd => read_filepos + n <= FileEnd
    BY <1>3, <1>6, FileAssumption
  <2> QED
    BY <1>1, <1>2, <1>6, <2>1, <2>2, <2>3, ReaderTypes DEF IInv, ReaderOK, Reading, pos
<1> QED
  BY <1>1, <1>7, <1>8, WaitingReaderKeepsIInv DEF ReadLocate, IInv, TypeOK, Reading

LEMMA ReadOddKeepsIInv == IInv /\ ReadOdd => IInv'
<1> SUFFICES ASSUME IInv, ReadOdd PROVE IInv'
  OBVIOUS
<1>1. /\ rpc = "copy" /\ rpc' = "check" /\ todo' = NoTodo
      /\ UNCHANGED <<got, stream_pos, getMESS, control, control_res, read_filepos>>
  BY DEF ReadOdd, commands
<1>2. todo' \in [pos : Slots, newb : Nat]
  BY <1>1, Geometry DEF NoTodo, Slots
<1>3. ReaderOK'
  BY <1>1, ReaderTypes DEF IInv, ReaderOK, Reading
<1> QED
  BY <1>1, <1>2, <1>3, WaitingReaderKeepsIInv DEF ReadOdd, IInv, TypeOK, Reading

LEMMA ReadEndKeepsIInv ==
  IInv /\ (ReadEof \/ ReadWait \/ ReadGiveUp \/ ReadAbandon) => IInv'
<1> SUFFICES ASSUME IInv, ReadEof \/ ReadWait \/ ReadGiveUp \/ ReadAbandon
             PROVE  IInv'
  OBVIOUS
<1>1. /\ rpc \in {"eof", "check"} /\ rpc' \in {"check", "last", "return"}
      /\ UNCHANGED <<todo, stream_pos, control, control_res, read_filepos>>
      /\ UNCHANGED <<window, eof, source, fillerVars>>
      /\ got' \in {got, <<>>} /\ getMESS' \in BOOLEAN
      /\ rpc' = "last" => got' = got /\ ~getMESS
      /\ ~getMESS' => got' = got /\ ~getMESS
  BY DEF ReadEof, ReadWait, ReadGiveUp, ReadAbandon, commands, IInv, TypeOK
<1>2. Len(got) < Sector /\ Len(got') < Sector /\ Len(got') <= Sector
  BY <1>1, Geometry, ReaderTypes DEF IInv, ReaderOK, Reading
<1>3. ReaderOK'
  BY <1>1, <1>2, ReaderTypes DEF IInv, ReaderOK, Reading
<1> QED
  BY <1>1, <1>3, WaitingReaderKeepsIInv DEF IInv, TypeOK, Reading

LEMMA ReadReturnKeepsIInv == IInv /\ ReadReturn => IInv'
<1> SUFFICES ASSUME IInv, ReadReturn PROVE IInv'
  OBVIOUS
<1>1. /\ rpc = "return" /\ rpc' = "ready" /\ got' = <<>>
      /\ stream_pos' = stream_pos + Len(got)
      /\ UNCHANGED <<todo, control, control_res, read_filepos, getMESS>>
  BY DEF ReadReturn, commands
<1>2. stream_pos' \in Nat /\ Len(got') = 0
  BY <1>1 DEF IInv, TypeOK
<1>3. ReaderOK'
  <2>1. ~getMESS => stream_pos' + Len(got') = read_filepos /\ control = "none"
    BY <1>1, <1>2, ReaderTypes DEF IInv, ReaderOK, Reading
  <2> QED BY <1>1, <1>2, <2>1, ReaderTypes, Geometry DEF ReaderOK, Reading
<1> QED
  BY <1>1, <1>2, <1>3, WaitingReaderKeepsIInv DEF ReadReturn, IInv, TypeOK

(* A command leaves the reader waiting until the filler has taken it, so the
   two positions may differ only meanwhile. *)
LEMMA CommandKeepsIInv ==
  IInv /\ (\/ \E cmd \in {"seek", "get"} : Command(cmd)
           \/ CommandDone \/ CommandAbandon) => IInv'
<1> SUFFICES ASSUME IInv,
                    \/ \E cmd \in {"seek", "get"} : Command(cmd)
                    \/ CommandDone \/ CommandAbandon
             PROVE  IInv'
  OBVIOUS
<1>1. CASE \E cmd \in {"seek", "get"} : Command(cmd)
  <2>1. PICK cmd \in {"seek", "get"} : Command(cmd)
    BY <1>1
  <2>2. /\ rpc = "ready" /\ rpc' = cmd /\ control' = cmd
        /\ UNCHANGED <<todo, got, stream_pos, control_res, read_filepos, getMESS>>
    BY <2>1 DEF Command
  <2>3. ReaderOK'
    BY <2>2, ReaderTypes DEF IInv, ReaderOK, Reading
  <2> QED
    BY <2>1, <2>2, <2>3, WaitingReaderKeepsIInv DEF Command, IInv, TypeOK
<1>2. CASE CommandDone
  <2>1. /\ rpc \in {"seek", "get"} /\ rpc' = "ready" /\ control = "none"
        /\ UNCHANGED <<todo, got, control, control_res, read_filepos, getMESS>>
        /\ stream_pos' = IF rpc = "seek" /\ control_res = "ok" THEN read_filepos
                         ELSE stream_pos
        /\ got = <<>>
    BY <1>2 DEF CommandDone, commands, IInv, ReaderOK
  <2>2. ReaderOK'
    BY <2>1, ReaderTypes DEF IInv, ReaderOK, Reading
  <2> QED
    BY <1>2, <2>1, <2>2, ReaderTypes, WaitingReaderKeepsIInv
       DEF CommandDone, IInv, TypeOK
<1>3. CASE CommandAbandon
  <2>1. /\ rpc \in {"seek", "get"} /\ rpc' = "ready" /\ getMESS
        /\ UNCHANGED <<todo, got, stream_pos, control, control_res, read_filepos, getMESS>>
        /\ got = <<>>
    BY <1>3 DEF CommandAbandon, commands, IInv, ReaderOK
  <2>2. ReaderOK'
    BY <2>1, ReaderTypes DEF IInv, ReaderOK, Reading
  <2> QED
    BY <1>3, <2>1, <2>2, WaitingReaderKeepsIInv DEF CommandAbandon, IInv, TypeOK
<1> QED BY <1>1, <1>2, <1>3

(* A seek abandons the reader's old position when it holds no bytes. *)
LEMMA SeekKeepsIInv ==
  ASSUME IInv, NEW p \in Positions, Seek(p)
  PROVE  IInv'
<1>1. /\ rpc = "ready" /\ rpc' = "moved" /\ got = <<>>
      /\ read_filepos' = Aligned(p) /\ stream_pos' = Aligned(p) /\ eof' = eof
      /\ UNCHANGED <<todo, got, getMESS, control, control_res>>
      /\ UNCHANGED <<window, source, fillerVars>>
  BY DEF Seek, commands, IInv, ReaderOK
<1>2. Aligned(p) \in Nat /\ Aligned(p) <= FileEnd
  <2>1. p \in Nat /\ p <= FileEnd /\ FileEnd \in Nat
    BY FileAssumption DEF Positions
  <2>2. Aligned(p) \in Nat /\ Aligned(p) <= p
    BY <2>1, Geometry DEF Aligned
  <2> QED BY <2>1, <2>2
<1>3. UNCHANGED <<min_filepos, max_filepos, offset, buffer, spos, error, fpc, plan>>
  BY <1>1 DEF window, source, fillerVars
<1>4. WindowOK' /\ BlockIsFree' /\ BufferHoldsWindow'
  BY <1>1, <1>2, ReaderFrame
<1>5. TypeOK'
  BY <1>1, <1>2, <1>3 DEF IInv, TypeOK
<1>6. ReaderOK'
  BY <1>1, <1>2, ReaderTypes, Geometry DEF IInv, ReaderOK, Reading
<1>7. (Reloads => DeliveredIsFile)'
  BY <1>1, ReaderTypes DEF DeliveredIsFile
<1> QED BY <1>4, <1>5, <1>6, <1>7 DEF IInv

LEMMA SeekForgetEofKeepsIInv == IInv /\ SeekForgetEof => IInv'
<1> SUFFICES ASSUME IInv, SeekForgetEof PROVE IInv'
  OBVIOUS
<1>1. /\ rpc = "moved" /\ rpc' = "check" /\ got = <<>> /\ eof' = FALSE
      /\ UNCHANGED <<read_filepos, stream_pos, todo, got, getMESS, control, control_res>>
      /\ UNCHANGED <<window, source, fillerVars>>
  BY DEF SeekForgetEof, commands, IInv, ReaderOK
<1>2. UNCHANGED <<min_filepos, max_filepos, offset, buffer, spos, error, fpc, plan>>
  BY <1>1 DEF window, source, fillerVars
<1>3. read_filepos' \in Nat /\ read_filepos' <= FileEnd
  BY <1>1 DEF IInv, TypeOK, WindowOK
<1>4. WindowOK' /\ BlockIsFree' /\ BufferHoldsWindow'
  BY <1>1, <1>3, ReaderFrame
<1>5. TypeOK'
  BY <1>1, <1>2 DEF IInv, TypeOK, Reading
<1>6. ReaderOK'
  BY <1>1, ReaderTypes, Geometry DEF IInv, ReaderOK, Reading
<1>7. (Reloads => DeliveredIsFile)'
  BY <1>1 DEF IInv, DeliveredIsFile
<1> QED BY <1>4, <1>5, <1>6, <1>7 DEF IInv

LEMMA ReaderKeepsIInv == IInv /\ (ReadStep \/ ReaderChoice) => IInv'
<1> SUFFICES ASSUME IInv, ReadStep \/ ReaderChoice PROVE IInv'
  OBVIOUS
<1>1. CASE \E p \in Positions : Seek(p)
  BY <1>1, SeekKeepsIInv
<1> QED
  BY <1>1, SeekForgetEofKeepsIInv, ReadStartKeepsIInv, ReadMaxKeepsIInv, ReadMinKeepsIInv,
     ReadNewKeepsIInv, ReadLocateKeepsIInv, ReadOddKeepsIInv, ReadCopyKeepsIInv, ReadEndKeepsIInv, ReadReturnKeepsIInv, CommandKeepsIInv
     DEF ReadStep, ReaderChoice

----------------------------------------------------------------------------
(* The theorems.                                                           *)

LEMMA InitIInv == Init => IInv
<1> SUFFICES ASSUME Init PROVE IInv
  OBVIOUS
<1> USE DEF Init
<1>1. 0 \in Slots
  BY Geometry DEF Slots
<1>2. TypeOK
  BY <1>1, SMTT(30) DEF TypeOK, Reading, NoPlan, NoTodo
<1>3. WindowOK
  BY Geometry, FileAssumption DEF WindowOK
<1>4. BlockIsFree /\ BufferHoldsWindow
  BY DEF BlockIsFree, BufferHoldsWindow
<1>5. ReaderOK /\ DeliveredIsFile
  BY <1>2, Geometry DEF ReaderOK, Reading, DeliveredIsFile
<1> QED BY <1>2, <1>3, <1>4, <1>5 DEF IInv

LEMMA NextKeepsIInv == IInv /\ [Next]_vars => IInv'
<1> SUFFICES ASSUME IInv, [Next]_vars PROVE IInv'
  OBVIOUS
<1>1. CASE Next
  BY <1>1, FillerKeepsIInv, ReaderKeepsIInv DEF Next
<1>2. CASE UNCHANGED vars
  <2>1. /\ UNCHANGED <<min_filepos, max_filepos, offset, read_filepos, eof>>
        /\ UNCHANGED <<control, control_res, buffer, spos, error, fpc, plan>>
        /\ UNCHANGED <<rpc, todo, got, stream_pos, getMESS>>
    BY <1>2 DEF vars, window, commands, source, fillerVars, readerVars
  <2> QED
    BY <2>1 DEF IInv, TypeOK, WindowOK, BlockIsFree, BufferHoldsWindow, ReaderOK,
                Reading, DeliveredIsFile, Slot, EndSlot
<1> QED BY <1>1, <1>2

(* The relations between the window, the ring, the block being read and the
   piece the reader has chosen hold in every state of the two threads, for every
   geometry that cache_init and stream_enable_cache can set up and every file,
   although the reader compares its position with the two ends of the window and
   counts the new bytes in three accesses. *)
THEOREM CacheInvariant == Spec => []IInv
BY InitIInv, NextKeepsIInv, PTL DEF Spec

(* The buffer always holds the part of the file its pointers say, even while
   stream_read_internal writes the next block into it. *)
THEOREM WindowTheorem == Spec => []BufferHoldsWindow
<1>1. IInv => BufferHoldsWindow
  BY DEF IInv
<1> QED BY <1>1, CacheInvariant, PTL

(* What cache_read copies without a lock is the file, at the reader's
   position, wherever the copy is interrupted by the cache thread, if the
   compiled cache_read loads max_filepos again after the comparisons. *)
THEOREM DeliveryTheorem ==
  ASSUME Reloads
  PROVE  Spec => []DeliveredIsFile
<1>1. IInv => DeliveredIsFile
  BY DEF IInv
<1> QED BY <1>1, CacheInvariant, PTL

(* However cache_read is compiled, the piece it is about to copy is in the ring,
   and it is an empty or a stale one only when the cache thread has flushed the
   window to the reader's position in the middle of the comparisons: this is the
   only way to its "very very odd error". *)
THEOREM PieceTheorem == Spec => []PieceLostOnlyToFlush
<1>1. IInv => PieceLostOnlyToFlush
  <2> SUFFICES ASSUME IInv, rpc = "copy"
               PROVE  /\ todo.pos >= 0 /\ todo.pos + todo.newb <= BufferSize
                      /\ \/ todo.newb >= 1 /\ read_filepos + todo.newb <= max_filepos
                         \/ min_filepos = read_filepos
    BY DEF PieceLostOnlyToFlush
  <2>1. todo.pos \in Slots /\ Reloads \in BOOLEAN
    BY GeometryAssumption DEF IInv, TypeOK
  <2>2. /\ todo.pos + todo.newb <= BufferSize
        /\ todo.newb >= 1 \/ min_filepos = read_filepos
        /\ read_filepos + todo.newb <= max_filepos \/ min_filepos = read_filepos
    BY <2>1 DEF IInv, ReaderOK
  <2> QED BY <2>1, <2>2, Geometry DEF Slots
<1> QED BY <1>1, CacheInvariant, PTL

(* The check in cache_stream_fill_buffer that reports a bug when the stream and
   the cache disagree on the position never fails before a give-up. *)
THEOREM PositionTheorem == Spec => []PositionsAgree
<1>1. IInv => PositionsAgree
  <2> SUFFICES ASSUME IInv, rpc = "ready", ~getMESS PROVE stream_pos = read_filepos
    BY DEF PositionsAgree
  <2>1. got = <<>> /\ stream_pos + Len(got) = read_filepos
    BY DEF IInv, ReaderOK, Reading
  <2> QED BY <2>1, ReaderTypes
<1> QED BY <1>1, CacheInvariant, PTL

----------------------------------------------------------------------------
(* Refinement.                                                             *)

(* A copy delivers the next bytes of the file. *)
LEMMA ReadCopyTakes ==
  ASSUME IInv, ReadCopy, Reloads
  PROVE  \E n \in 1 .. Sector : Reader!Take(n)
<1> DEFINE n == todo.newb
           piece == [i \in 1 .. n |-> buffer[todo.pos + i - 1]]
           next  == [i \in 1 .. n |-> stream_pos + Len(got) + i - 1]
<1>1. /\ n \in Nat /\ n >= 1 /\ read_filepos + n <= FileEnd
      /\ Len(got) \in Nat /\ Len(got) + n <= Sector
      /\ stream_pos + Len(got) = read_filepos
  BY PieceBounds
<1>2. got' = got \o piece /\ stream_pos' = stream_pos
  BY DEF ReadCopy
<1>3. ASSUME NEW i \in 1 .. n PROVE piece[i] = next[i]
  BY <1>1, CopiedBytes
<1>4. piece = next
  BY <1>3
<1>5. n \in 1 .. Sector
  BY <1>1, Geometry
<1>6. stream_pos + Len(got) + n <= FileEnd
  BY <1>1
<1> HIDE DEF piece
<1>7. got' = got \o next
  BY <1>2, <1>4
<1>8. Reader!Take(n)
  BY <1>1, <1>2, <1>6, <1>7 DEF Reader!Take
<1> QED BY <1>5, <1>8

(* Whatever the filler does, the demuxers see steps of a file reader. *)
LEMMA StepRefines ==
  ASSUME Reloads, IInv, [Next]_vars
  PROVE  [Reader!Next]_<<stream_pos, got>>
<1>1. CASE FillStep
  <2>1. UNCHANGED <<stream_pos, got>>
    BY <1>1 DEF FillStep, FillNothing, FillForward, FillFlush, FillSeek, FillRead,
       FillFailed, ExecuteNothing, ExecuteQuery, ExecuteSeek, StartBlock, readerVars
  <2> QED BY <2>1
<1>2. CASE ReadCopy
  BY <1>2, ReadCopyTakes DEF Reader!Next
<1>3. CASE ReadReturn
  BY <1>3 DEF ReadReturn, Reader!Next, Reader!Return
<1>4. CASE ReadAbandon
  BY <1>4 DEF ReadAbandon, Reader!Next, Reader!Abandon
<1>5. CASE \E p \in Positions : Seek(p)
  <2>1. PICK p \in Positions : Seek(p)
    BY <1>5
  <2>2. got = <<>> /\ got' = got /\ stream_pos' = Aligned(p)
    BY <2>1 DEF Seek, IInv, ReaderOK
  <2>3. Aligned(p) \in 0 .. FileEnd
    <3>1. p \in Nat /\ p <= FileEnd /\ FileEnd \in Nat
      BY FileAssumption DEF Positions
    <3>2. Aligned(p) \in Nat /\ Aligned(p) <= p
      BY <3>1, Geometry DEF Aligned
    <3> QED BY <3>1, <3>2
  <2> QED BY <2>2, <2>3 DEF Reader!Next, Reader!MoveTo
<1>6. CASE CommandDone
  <2>1. /\ got = <<>> /\ got' = got
        /\ stream_pos' = read_filepos \/ stream_pos' = stream_pos
    BY <1>6 DEF CommandDone, IInv, ReaderOK
  <2>2. read_filepos \in 0 .. FileEnd
    BY FileAssumption DEF IInv, TypeOK, WindowOK
  <2> QED BY <2>1, <2>2 DEF Reader!Next, Reader!MoveTo
<1>7. CASE \/ ReadStart \/ SeekForgetEof \/ ReadMax \/ ReadMin \/ ReadNew \/ ReadLocate
           \/ ReadOdd \/ ReadEof \/ ReadWait \/ ReadGiveUp \/ CommandAbandon
           \/ \E cmd \in {"seek", "get"} : Command(cmd)
  BY <1>7 DEF ReadStart, SeekForgetEof, ReadMax, ReadMin, ReadNew, ReadLocate, ReadOdd, ReadEof,
              ReadWait, ReadGiveUp, CommandAbandon, Command
<1>8. CASE UNCHANGED vars
  BY <1>8 DEF vars, readerVars
<1> QED
  BY <1>1, <1>2, <1>3, <1>4, <1>5, <1>6, <1>7, <1>8
     DEF Next, ReadStep, ReaderChoice

(* The two threads and their ring buffer implement a file that is read sector
   by sector: cache_stream_fill_buffer never delivers a byte out of place, if the
   compiled cache_read loads max_filepos again after the comparisons. *)
THEOREM RefinementTheorem ==
  ASSUME Reloads
  PROVE  Spec => ImplementsFileReader
<1>1. Init => Reader!Init
  BY DEF Init, Reader!Init
<1>2. IInv /\ [Next]_vars => [Reader!Next]_<<stream_pos, got>>
  BY StepRefines
<1> QED
  BY <1>1, <1>2, CacheInvariant, PTL DEF Spec, Reader!Spec, ImplementsFileReader

----------------------------------------------------------------------------
(* Seeking back.                                                           *)

(* The bytes behind the reader that a block may overwrite are older than
   BackSize bytes, also when the reader of a network stream has run ahead of
   the window. *)
LEMMA StartBlockKeepsBack ==
  ASSUME IInv, FillForward, min_filepos' > min_filepos
  PROVE  min_filepos' <= read_filepos - BackSize
<1> DEFINE r == read_filepos
<1>1. /\ r \in Nat /\ min_filepos \in Nat /\ max_filepos \in Nat
      /\ FreeSpace(r) >= FillLimit
      /\ r <= max_filepos \/ (Streaming /\ r < max_filepos + SeekLimit)
  BY Geometry, GeometryAssumption DEF FillForward, MustSeek, IInv, TypeOK
<1>2. /\ Block(r) \in Nat /\ Block(r) >= 1
      /\ Kept(r) \in Int
      /\ r <= max_filepos => Kept(r) <= r - BackBytes(r)
      /\ BackBytes(r) \in Nat
  BY <1>1, BlockBounds DEF IInv
<1>3. min_filepos' = Kept(r) /\ Kept(r) > min_filepos
  BY <1>1, <1>2 DEF FillForward, StartBlock, Larger
<1>4. CASE r <= max_filepos
  <2>1. BackBytes(r) = BackSize \/ BackBytes(r) >= r - min_filepos
    BY <1>1, Geometry DEF BackBytes, Smaller, Larger
  <2> QED BY <1>1, <1>2, <1>3, <1>4, <2>1, Geometry
<1>5. CASE ~(r <= max_filepos)
  <2>1. NewBytes(r) = 0
    BY <1>1, <1>5 DEF NewBytes, Larger
  <2>2. Block(r) <= FillLimit
    <3>1. Block(r) <= Chunk
      BY <1>2, Geometry DEF Block, Smaller
    <3> QED BY <1>1, <1>2, <1>5, <3>1, Geometry
  <2>3. Kept(r) = r + Block(r) - BufferSize
    BY <1>1, <1>2, <2>1, Geometry DEF Kept
  <2> QED BY <1>1, <1>2, <1>3, <2>2, <2>3, Geometry
<1> QED BY <1>4, <1>5

(* A block takes bytes away only from BackSize bytes behind the reader on, so
   short seeks back stay in the cache. *)
THEOREM BackTheorem == Spec => BackBytesKept
<1> DEFINE Back ==
      min_filepos' > min_filepos /\ max_filepos' = max_filepos
        /\ min_filepos' < max_filepos' =>
      min_filepos' <= Larger(min_filepos, read_filepos - BackSize)
<1>1. IInv /\ [Next]_vars => [Back]_vars
  <2> SUFFICES ASSUME IInv, [Next]_vars, min_filepos' > min_filepos,
                      max_filepos' = max_filepos, min_filepos' < max_filepos'
               PROVE  min_filepos' <= Larger(min_filepos, read_filepos - BackSize)
    OBVIOUS
  <2>1. min_filepos \in Nat /\ max_filepos \in Nat /\ read_filepos \in Nat
    BY DEF IInv, TypeOK
  <2>2. CASE FillForward
    <3>1. min_filepos' <= read_filepos - BackSize
      BY <2>2, StartBlockKeepsBack
    <3>2. min_filepos' \in Nat
      BY <2>2, FillForwardKeepsIInv DEF IInv, TypeOK
    <3> QED BY <2>1, <3>1, <3>2, Geometry DEF Larger
  <2>3. CASE FillFlush \/ \E p \in Positions : ExecuteSeek(p)
    <3>1. min_filepos' = max_filepos'
      BY <2>3 DEF FillFlush, ExecuteSeek
    <3>2. min_filepos' \in Int
      BY <2>3, FileAssumption, <2>1 DEF FillFlush, ExecuteSeek, Positions
    <3> QED BY <3>1, <3>2
  <2>4. CASE FillSeek
    <3>1. max_filepos' = max_filepos /\ min_filepos = max_filepos
      BY <2>4 DEF FillSeek, StartBlock, IInv, BlockIsFree
    <3>2. min_filepos' \in Nat
      BY <2>4, FillSeekKeepsIInv DEF IInv, TypeOK
    <3> QED BY <2>1, <3>1, <3>2
  <2>5. CASE min_filepos' = min_filepos
    BY <2>1, <2>5
  <2>6. ASSUME ~FillForward, ~FillFlush, ~FillSeek,
               ~\E p \in Positions : ExecuteSeek(p)
        PROVE  min_filepos' = min_filepos
    BY <2>6 DEF Next, FillStep, ReadStep, ReaderChoice, FillNothing, FillRead,
       FillFailed, ExecuteNothing, ExecuteQuery, ReadStart, Seek, SeekForgetEof, ReadMax,
       ReadMin, ReadNew, ReadLocate, ReadOdd, ReadCopy, ReadEof, ReadWait, ReadGiveUp,
       ReadAbandon, ReadReturn, Command, CommandDone, CommandAbandon, window, vars
  <2> QED BY <2>2, <2>3, <2>4, <2>5, <2>6
<1> QED BY <1>1, CacheInvariant, PTL DEF Spec, BackBytesKept

----------------------------------------------------------------------------
(* The end of the file.                                                    *)

\* eof is set by the filler alone, when it has nothing to do but commands; without
\* an error it means that the window reaches the end of the file.  A reader that
\* was told of the end finds eof as it was: nobody takes it back meanwhile.
EndOK ==
  /\ fpc \in {"seek", "read"} => ~eof
  /\ eof /\ error = 0 => max_filepos >= FileEnd
  /\ ToldOfEnd => eof

(* The filler. *)
LEMMA FillerKeepsEnd ==
  ASSUME ~SilentFailures, IInv, EndOK, FillStep
  PROVE  EndOK'
<1> USE DEF IInv, TypeOK, EndOK, ToldOfEnd, window, commands, source, readerVars, fillerVars
<1>1. CASE FillNothing \/ ExecuteNothing \/ ExecuteQuery
  BY <1>1 DEF FillNothing, ExecuteNothing, ExecuteQuery
<1>2. CASE FillForward \/ FillFlush \/ FillSeek
  <2>1. ~eof /\ ~eof' /\ UNCHANGED readerVars
    BY <1>2 DEF FillForward, FillFlush, FillSeek, StartBlock
  <2> QED
    BY <2>1
<1>3. CASE \E len \in 1 .. BufferSize : FillRead(len)
  <2>1. ~eof /\ ~eof' /\ UNCHANGED readerVars
    BY <1>3 DEF FillRead
  <2> QED
    BY <2>1
<1>4. CASE \E how \in {"end", "error", "silent"} : FillFailed(how)
  <2> PICK how \in {"end", "error", "silent"} : FillFailed(how)
    BY <1>4
  <2>1. fpc = "read" /\ fpc' = "control" /\ UNCHANGED <<window, read_filepos, spos, readerVars>>
    BY DEF FillFailed
  <2>2. ~eof /\ spos = max_filepos
    BY <2>1 DEF WindowOK
  <2>3. eof' /\ error' = 0 => spos >= FileEnd
    <3> DEFINE err == IF how = "error" THEN Larger(error, 1) ELSE error
    <3>1. err \in Nat /\ (how = "error" => err > 0)
      BY DEF Larger
    <3>2. CASE err > 0
      <4>1. error' = Smaller(err + 1, ErrorCap)
        BY <3>2 DEF FillFailed
      <4> HIDE DEF err
      <4> QED
        BY <3>1, <3>2, <4>1, FileAssumption DEF Smaller
    <3>3. CASE ~(err > 0)
      <4>1. how = "end"
        BY <3>1, <3>3 DEF FillFailed
      <4> QED
        BY <4>1 DEF FillFailed
    <3> QED
      BY <3>2, <3>3
  <2> QED
    BY <2>1, <2>2, <2>3
<1>5. CASE \E p \in Positions : ExecuteSeek(p)
  <2> PICK p \in Positions : ExecuteSeek(p)
    BY <1>5
  <2>1. fpc' = "fill" /\ eof' = (p >= FileEnd) /\ max_filepos' = p /\ UNCHANGED readerVars
    BY DEF ExecuteSeek
  <2>2. rpc = "return" => getMESS
    BY DEF ExecuteSeek, ReaderOK
  <2> QED
    BY <2>1, <2>2
<1> QED
  BY <1>1, <1>2, <1>3, <1>4, <1>5 DEF FillStep

(* The reader. *)
LEMMA ReaderKeepsEnd ==
  ASSUME IInv, EndOK, ReadStep \/ ReaderChoice
  PROVE  EndOK'
<1> USE DEF IInv, TypeOK, EndOK, ToldOfEnd, window, commands, source, fillerVars
<1>1. CASE ReadCopy
  <2> DEFINE piece == [i \in 1 .. todo.newb |-> buffer[todo.pos + i - 1]]
  <2>1. UNCHANGED <<window, eof, source, fillerVars>>
    BY <1>1 DEF ReadCopy
  <2>2. /\ got' = got \o piece
        /\ rpc' = IF Len(got) + todo.newb = Sector THEN "return" ELSE "check"
    BY <1>1 DEF ReadCopy
  <2>3. got \in Seq(Bytes) /\ todo.newb \in Nat
    BY DEF Bytes
  <2>4. piece \in Seq(Bytes) /\ Len(piece) = todo.newb
    <3>1. ASSUME NEW i \in 1 .. todo.newb PROVE buffer[todo.pos + i - 1] \in Bytes
      BY <1>1, PieceBounds DEF Bytes
    <3> QED BY <2>3, <3>1
  <2> HIDE DEF piece, IInv, TypeOK
  <2>5. Len(got') = Len(got) + todo.newb
    BY <2>2, <2>3, <2>4, ConcatProperties
  <2>6. rpc' = "return" => Len(got') = Sector
    BY <2>2, <2>5
  <2> QED
    BY <2>1, <2>6, Geometry
<1>2. CASE ReadEof
  BY <1>2 DEF ReadEof
<1>3. CASE ReadAbandon
  BY <1>3 DEF ReadAbandon
<1>4. CASE \/ SeekForgetEof \/ ReadMax \/ ReadMin \/ ReadNew \/ ReadLocate \/ ReadOdd
           \/ ReadWait \/ ReadReturn \/ CommandDone \/ CommandAbandon
  BY <1>4 DEF SeekForgetEof, ReadMax, ReadMin, ReadNew, ReadLocate, ReadOdd, ReadWait,
    ReadReturn, CommandDone, CommandAbandon
<1>5. CASE ReaderChoice
  BY <1>5 DEF ReaderChoice, ReadStart, Seek, Command, ReadGiveUp
<1> QED
  BY <1>1, <1>2, <1>3, <1>4, <1>5 DEF ReadStep

\* When every failing read sets the stream's error (as the drives' reads do, and
\* not all of the network's), a reader that is told of the end of the file without
\* an error is told so of a cache that holds the file to its end - whatever the
\* sizes, and however the window and eof, which is set and cleared without a lock,
\* change between its three accesses to them (cache2.c).
THEOREM EndTheorem ==
  ASSUME ~SilentFailures
  PROVE  Spec => []EndIsReal
<1>1. Init => IInv /\ EndOK
  BY InitIInv DEF Init, EndOK, ToldOfEnd
<1>2. ASSUME IInv, EndOK, [Next]_vars
      PROVE  (IInv /\ EndOK)'
  <2>1. CASE UNCHANGED vars
    <3>1. UNCHANGED <<max_filepos, eof, error, fpc, rpc, got, getMESS>>
      BY <2>1 DEF vars, window, source, readerVars, fillerVars
    <3> QED
      BY <1>2, <3>1, NextKeepsIInv DEF EndOK, ToldOfEnd
  <2> QED
    BY <1>2, <2>1, NextKeepsIInv, FillerKeepsEnd, ReaderKeepsEnd DEF Next
<1>3. IInv /\ EndOK => EndIsReal
  BY DEF IInv, TypeOK, EndOK, EndIsReal
<1> QED
  BY <1>1, <1>2, <1>3, PTL DEF Spec
=============================================================================
