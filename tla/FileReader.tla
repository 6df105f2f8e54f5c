----------------------------- MODULE FileReader -----------------------------
(***************************************************************************)
(* What the stream cache promises to the demuxers: a file that is read     *)
(* sector by sector.  A call delivers, in pieces, the bytes of the file    *)
(* from the reader's position on; the position moves by what a call has    *)
(* delivered, or to where a seek asks.  A call may deliver less than a     *)
(* sector: at the end of the file, after an error, or when the reader has  *)
(* lost patience, and then it may drop what it had.                        *)
(***************************************************************************)
EXTENDS Integers, Sequences

CONSTANTS Sector, FileEnd

VARIABLES
  pos,   \* position in the file
  taken  \* bytes of the file delivered by the call under way

Init == pos = 0 /\ taken = <<>>

\* n more bytes of the file, at most a sector in all.
Take(n) ==
  /\ Len(taken) + n <= Sector
  /\ pos + Len(taken) + n <= FileEnd
  /\ taken' = taken \o [i \in 1 .. n |-> pos + Len(taken) + i - 1]
  /\ UNCHANGED pos

Return == pos' = pos + Len(taken) /\ taken' = <<>>

Abandon == taken' = <<>> /\ UNCHANGED pos

MoveTo(p) == taken = <<>> /\ pos' = p /\ UNCHANGED taken

Next ==
  \/ \E n \in 1 .. Sector : Take(n)
  \/ Return
  \/ Abandon
  \/ \E p \in 0 .. FileEnd : MoveTo(p)

Spec == Init /\ [][Next]_<<pos, taken>>
=============================================================================
