SPECIFICATION Spec
CONSTANTS
  Entry <- MCEntry
  Null = "null"
  Name <- MCName
  File = {"P"}
  Items <- MCItems
  Folder = {"A", "B"}
  Subs <- MCSubs
  Files <- MCFiles
  Below <- MCBelow
  Edits = {"enqueue", "dequeue"}
  Shortage = FALSE
  EntryLimit = 10
  Preempt = FALSE
INVARIANT OthersKeepPlace
