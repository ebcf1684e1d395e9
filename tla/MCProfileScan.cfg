SPECIFICATION Spec
CONSTANTS
  FileCount = 3
  MaxDiagnostics = 2
  Node <- MCNode
  ParseCodes <- MCParseCodes
  Programs <- MCPrograms
  EntryLists <- MCEntryLists
  PluginEdgeSets <- MCPluginEdgeSets
  ListOf <- MCListOf
INVARIANTS
  CompleteIsExact
  LiveGapWithholdsVerdicts
PROPERTIES
  Terminates
