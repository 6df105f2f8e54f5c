SPECIFICATION Spec
CONSTANTS
  Entry <- MCEntry
  Null = "null"
  Name <- MCName
  File = {"P"}
  Items <- MCItems
  Folder = {"A", "B"}
  Subs <- MCSubs
  Files <- MCFiles
  Below <- MCBelow
  Edits = {"enqueue", "dequeue", "reset"}
  Shortage = TRUE
  EntryLimit = 2
  Preempt = FALSE
INVARIANTS IInv CountAgrees NoFault RoundHearsAll
PROPERTY SortedPerFolder
\* What follows a read of no entry is not modelled.
CHECK_DEADLOCK FALSE
