SPECIFICATION Spec
CONSTANTS
  Projects <- MCProjects
  Profiles <- MCProfiles
  Library = "library"
CHECK_DEADLOCK FALSE
INVARIANTS
  UsedMembersAreKept
  FasterFindingsStand
  UnusedMembersAreFound
