SPECIFICATION Spec
CONSTANTS
  Root = "."
  MaxDiagnostics = 2
  Workspace <- MCWorkspace
  File <- MCFile
  Manifest <- MCManifest
  WorkspaceOf <- MCWorkspaceOf
  ProfileList <- MCProfileList
  Analyses <- MCAnalyses
  Settings <- MCSettings
  TestFiles <- MCTestFiles
INVARIANTS
  EligibleIsDeadEverywhere
  GapsWithholdFindings
  VerdictsAreWitnessed
  VerdictsAreAccountedFor
  UnusedWorkspaceIsUnreached
  CompleteMeansCovered
