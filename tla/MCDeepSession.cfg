SPECIFICATION Spec
CONSTANTS
  Groups <- MCGroups
  Keys <- MCKeys
  Unowned = {"stray"}
  Foreign = {"script"}
  Found <- MCFound
  Absent = "none"
  Bytes <- MCBytes
  Versions = {1, 2}
  Batch = 2
  Capacity = 1
  MaxMessage = 2
  MaxEdits = 1
  MaxRuns = 2
  MaxOthers = 1
CHECK_DEADLOCK FALSE
INVARIANTS
  EvidenceIsSound
  OnlyAnswersAreKept
  GapsAreReported
  NoWorkerOutlivesItsSession
PROPERTIES
  CollectionsEnd
