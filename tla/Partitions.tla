----------------------------- MODULE Partitions -----------------------------
(***************************************************************************)
(* The partitions of one drive (fileop.cpp, FindPartitions, AddPartition,  *)
(* UnmountPartitions and those who call them).  The device thread, or the  *)
(* main thread while that one is parked, looks for a drive and reads its   *)
(* partition tables, sector by sector; the drive may be taken out or       *)
(* exchanged between two reads, after which reads and mounts fail or tell  *)
(* of another drive.                                                       *)
(*                                                                         *)
(* A drive is a record: primary (the records of its first sector, none     *)
(* when that is no partition table), ebr (the records of the chain of     *)
(* logical partitions, by sector) and fs (the file systems, by the sector  *)
(* where each begins).                                                     *)
(***************************************************************************)
EXTENDS Integers, Sequences

CONSTANTS
  Drives,      \* the drives there are
  NoDrive,
  MaxDevices,  \* MAX_DEVICES
  Stray        \* the number of sectors searched when no partition is found

VARIABLES
  drive,       \* the drive in the slot
  isInserted,
  part,        \* the partitions listed: devnum is its length
  mounted,     \* the file systems mounted, by the number in their names
  scan,        \* where FindPartitions is
  i, ebr_lba, next_ebr_lba, part_lba, linux, \* its locals
  mbr,         \* the four records copied from the first sector
  whole        \* one drive was there since the search began (observes only)

locals == <<mbr, i, ebr_lba, next_ebr_lba, part_lba, linux>>
table  == <<part, mounted>>
vars   == <<drive, isInserted, table, scan, locals, whole>>

Init ==
  /\ drive = NoDrive /\ isInserted = FALSE
  /\ part = <<>> /\ mounted = [n \in {} |-> 0]
  /\ scan = "rest" /\ whole = FALSE /\ mbr = <<>>
  /\ i = 1 /\ ebr_lba = 0 /\ next_ebr_lba = 0 /\ part_lba = 0 /\ linux = FALSE

----------------------------------------------------------------------------
\* readSectors; a mount reads as well.
Read == drive # NoDrive
Holds(s, fs) == Read /\ s \in DOMAIN drive.fs /\ drive.fs[s] \in fs

\* A wrong variant: the sector is not looked for among the partitions listed.
AddPartitionTwice(s, fs) ==
  IF Len(part) < MaxDevices /\ Holds(s, fs)
  THEN part' = Append(part, s) /\ mounted' = [n \in 1..Len(part') |-> part'[n]]
  ELSE UNCHANGED table

\* AddPartition: what is listed already, or cannot be mounted, is not added.
AddPartition(s, fs) ==
  IF Len(part) < MaxDevices /\ (\A n \in 1..Len(part) : part[n] # s) /\ Holds(s, fs)
  THEN /\ part' = Append(part, s)
       /\ mounted' = [n \in DOMAIN mounted \union {Len(part')} |->
                        IF n = Len(part') THEN s ELSE mounted[n]]
  ELSE UNCHANGED table

\* FindPartitions clears the list, and unmounts nothing.
FindPartitions ==
  /\ part' = <<>> /\ scan' = "mbr" /\ whole' = TRUE
  /\ part_lba' = 0
  /\ UNCHANGED <<mounted, mbr, i, ebr_lba, next_ebr_lba, linux>>

ReadMBR ==
  /\ scan = "mbr"
  /\ IF ~Read THEN scan' = "done" /\ UNCHANGED <<i, mbr>>
     ELSE IF drive.primary # <<>>
          THEN scan' = "primary" /\ i' = 1 /\ mbr' = drive.primary
          ELSE scan' = "stray" /\ i' = 0 /\ UNCHANGED mbr
  /\ UNCHANGED <<drive, isInserted, table, ebr_lba, next_ebr_lba, part_lba, linux, whole>>

NextPrimary ==
  IF i < Len(mbr) THEN i' = i + 1 /\ scan' = "primary"
  ELSE IF part' = <<>> THEN i' = 0 /\ scan' = "stray"
  ELSE scan' = "done" /\ UNCHANGED i

\* The file systems that are tried where a primary record points to.
Fits(type) == IF type \in {"ntfs", "ext"} THEN {type} ELSE {"ntfs", "fat", "ext"}

Primary ==
  /\ scan = "primary" /\ mbr[i].type # "extended"
  /\ part_lba' = mbr[i].at
  /\ AddPartition(mbr[i].at, Fits(mbr[i].type))
  /\ NextPrimary
  /\ UNCHANGED <<drive, isInserted, mbr, ebr_lba, next_ebr_lba, linux, whole>>

Extended ==
  /\ scan = "primary" /\ mbr[i].type = "extended"
  /\ part_lba' = mbr[i].at /\ ebr_lba' = mbr[i].at /\ next_ebr_lba' = 0
  /\ scan' = "ebr"
  /\ UNCHANGED <<drive, isInserted, table, mbr, i, linux, whole>>

\* The loop over the chain ends when there is no next record.
ChainGoesOn(next) ==
  IF next # 0 THEN scan' = "ebr" /\ UNCHANGED i ELSE NextPrimary

\* The record cannot be read: the loop's condition is as it was.
EBRUnread ==
  /\ scan = "ebr" /\ ~Read
  /\ UNCHANGED table /\ ChainGoesOn(next_ebr_lba)
  /\ UNCHANGED <<drive, isInserted, mbr, ebr_lba, next_ebr_lba, part_lba, linux, whole>>

Record == ebr_lba + next_ebr_lba

\* A wrong variant: a record without a signature leaves the loop's condition.
BadEBRGoesOn ==
  /\ scan = "ebr" /\ Read /\ Record \notin DOMAIN drive.ebr
  /\ UNCHANGED <<table, next_ebr_lba>> /\ ChainGoesOn(next_ebr_lba)
  /\ UNCHANGED <<drive, isInserted, mbr, ebr_lba, part_lba, linux, whole>>

BadEBR ==
  /\ scan = "ebr" /\ Read /\ Record \notin DOMAIN drive.ebr
  /\ next_ebr_lba' = 0
  /\ UNCHANGED table /\ ChainGoesOn(0)
  /\ UNCHANGED <<drive, isInserted, mbr, ebr_lba, part_lba, linux, whole>>

EBR ==
  /\ scan = "ebr" /\ Read /\ Record \in DOMAIN drive.ebr
  /\ part_lba' = Record + drive.ebr[Record].at
  /\ next_ebr_lba' = drive.ebr[Record].next
  /\ linux' = (drive.ebr[Record].type = "ext")
  /\ scan' = "logical"
  /\ UNCHANGED <<drive, isInserted, table, mbr, i, ebr_lba, whole>>

FitsLogical(ext) == IF ext THEN {"ext"} ELSE {"ntfs", "fat"}

\* What a record of the chain points to is read, or mounted, a call later.
Logical ==
  /\ scan = "logical"
  /\ AddPartition(part_lba, FitsLogical(linux))
  /\ ChainGoesOn(next_ebr_lba)
  /\ UNCHANGED <<drive, isInserted, mbr, ebr_lba, next_ebr_lba, part_lba, linux, whole>>

\* The first NTFS or FAT file system among the first sectors; an ext file system
\* is tried where the last record pointed to, not where this sector is.
StraySector ==
  /\ scan = "stray"
  /\ IF Holds(i, {"ntfs", "fat"})
     THEN AddPartition(i, {"ntfs", "fat"}) /\ scan' = "done" /\ UNCHANGED i
     ELSE /\ AddPartition(part_lba, {"ext"})
          /\ IF i + 1 < Stray THEN i' = i + 1 /\ UNCHANGED scan
                              ELSE scan' = "done" /\ UNCHANGED i
  /\ UNCHANGED <<drive, isInserted, mbr, ebr_lba, next_ebr_lba, part_lba, linux, whole>>

\* Its callers note that there is a drive, however many partitions it has.
ScanDone ==
  /\ scan = "done"
  /\ isInserted' = TRUE /\ scan' = "rest"
  /\ UNCHANGED <<drive, table, locals, whole>>

----------------------------------------------------------------------------
\* The device thread finds a drive.
DriveInserted ==
  /\ scan = "rest" /\ ~isInserted /\ drive # NoDrive
  /\ FindPartitions
  /\ UNCHANGED <<drive, isInserted>>

UnmountPartitions == part' = <<>> /\ mounted' = [n \in {} |-> 0]

\* The device thread finds that the drive is gone.
DriveRemoved ==
  /\ scan = "rest" /\ isInserted /\ drive = NoDrive
  /\ UnmountPartitions
  /\ isInserted' = FALSE
  /\ UNCHANGED <<drive, scan, locals, whole>>

\* Remount, when a folder or a file cannot be opened: unmount, a quarter of a second.
Remount ==
  /\ scan = "rest"
  /\ IF isInserted THEN UnmountPartitions ELSE UNCHANGED table
  /\ scan' = "remount"
  /\ UNCHANGED <<drive, isInserted, locals, whole>>

Remounted ==
  /\ scan = "remount"
  /\ IF drive # NoDrive
     THEN FindPartitions /\ UNCHANGED isInserted
     ELSE isInserted' = FALSE /\ scan' = "rest" /\ UNCHANGED <<table, locals, whole>>
  /\ UNCHANGED drive

\* Environment: the drive is taken out, another or the same put in.
TakeOut ==
  /\ drive # NoDrive
  /\ drive' = NoDrive /\ whole' = FALSE
  /\ UNCHANGED <<isInserted, table, scan, locals>>

PutIn ==
  /\ drive = NoDrive
  /\ drive' \in Drives
  /\ UNCHANGED <<isInserted, table, scan, locals, whole>>

ScanStep ==
  \/ ReadMBR \/ Primary \/ Extended \/ EBRUnread \/ BadEBR \/ EBR \/ Logical \/ StraySector
  \/ ScanDone \/ Remounted
Next == ScanStep \/ DriveInserted \/ DriveRemoved \/ Remount \/ TakeOut \/ PutIn

Spec == Init /\ [][Next]_vars

\* Reads end.
FairSpec == Spec /\ WF_vars(ScanStep)

----------------------------------------------------------------------------
\* The sectors ss hold what is reached from them along the chain that begins at s.
Closed(d, s, ss) ==
  \A r \in DOMAIN d.ebr : (r = s \/ \E q \in ss : r = s + d.ebr[q].next) => r \in ss

\* The records of the chain that begins at s.
Chain(d, s) ==
  {r \in DOMAIN d.ebr : \A ss \in SUBSET DOMAIN d.ebr : Closed(d, s, ss) => r \in ss}

\* A record of the chain tells of the file system at p, a primary record does.
ChainTells(d, q, p) ==
  p = q + d.ebr[q].at /\ d.fs[p] \in FitsLogical(d.ebr[q].type = "ext")
Tells(d, r, p) ==
  IF r.type = "extended" THEN \E q \in Chain(d, r.at) : ChainTells(d, q, p)
                         ELSE p = r.at /\ d.fs[p] \in Fits(r.type)

\* The file systems a drive's tables tell of.
Told(d) == {p \in DOMAIN d.fs : \E n \in DOMAIN d.primary : Tells(d, d.primary[n], p)}

TypeOK ==
  /\ drive \in Drives \union {NoDrive} /\ isInserted \in BOOLEAN
  /\ part \in Seq(Nat) /\ Len(part) <= MaxDevices
  /\ DOMAIN mounted \subseteq 1..MaxDevices
  /\ scan \in {"rest", "mbr", "primary", "ebr", "logical", "stray", "done", "remount"}
  /\ {i, ebr_lba, next_ebr_lba, part_lba} \subseteq Nat
  /\ linux \in BOOLEAN /\ whole \in BOOLEAN

\* What is mounted is what is listed, each once, so that UnmountPartitions, which
\* goes through the list, leaves nothing mounted - though FindPartitions empties
\* the list without unmounting.  And when one drive was there all the time, the
\* list is what its tables tell of, as long as there is room (AddPartition).
TableIsDrive ==
  /\ DOMAIN mounted = 1..Len(part)
  /\ \A n, m \in 1..Len(part) : mounted[n] = part[n] /\ (part[n] = part[m] => n = m)
  /\ scan = "rest" /\ whole /\ isInserted =>
       LET Listed == {part[n] : n \in 1..Len(part)}
       IN /\ Listed \subseteq DOMAIN drive.fs
          /\ Told(drive) # {} => Listed \subseteq Told(drive)
          /\ Len(part) < MaxDevices => Told(drive) \subseteq Listed

\* From record r the chain that begins at s never comes to an end: it goes round
\* among records ss, each of which names a next one in ss.
LeadsBack(d, s, r) ==
  \E ss \in SUBSET DOMAIN d.ebr :
    r \in ss /\ \A q \in ss : d.ebr[q].next # 0 /\ s + d.ebr[q].next \in ss

\* A search ends, unless the drive is taken out (then the loop over a chain tries
\* the same record until a drive is back) or it has come upon a chain that leads
\* back into itself, which FindPartitions never leaves.
ScanEnds ==
  scan # "rest" ~>
    \/ scan = "rest" \/ drive = NoDrive
    \/ scan = "ebr" /\ LeadsBack(drive, ebr_lba, Record)
=============================================================================
