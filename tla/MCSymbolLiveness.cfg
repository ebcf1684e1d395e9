SPECIFICATION Spec
CONSTANTS
  File <- MCFile
  Symbol <- MCSymbol
  Region <- MCRegion
  ExportName <- MCExportName
  Node <- MCNode
  ListOf <- MCListOf
  Programs <- MCPrograms
INVARIANTS
  ImportedExportIsNeverReported
  DeadHasNoLiveUse
  UsedIsNeverReported
  DeadIsReported
