SPECIFICATION Spec
CONSTANTS
  MaxEdits = 2
  Entries = {1}
  File <- MCFile
  TestFiles <- MCTestFiles
  Manifest <- MCManifest
  FileContents <- MCFileContents
  ManifestContents <- MCManifestContents
  InitialFiles <- MCInitialFiles
  InitialManifests <- MCInitialManifests
  Requests <- MCRequests
  RetainRules <- MCRetainRules
  IgnoreRules <- MCIgnoreRules
INVARIANTS
  RemovesOnlyWhatWasAnalyzed
  PassedMeansWhole
  PartialOnlyWhenDisturbed
  
