SPECIFICATION LinkSpec
CONSTANTS
  Projects <- MCProjects
  PathOf <- MCPathOf
  VariantsOf <- MCVariantsOf
  NameRoles <- MCNameRoles
  Captures <- MCCaptures
  OutputName <- MCOutputName
  LooksLikeFile = {"setup.js"}
CHECK_DEADLOCK FALSE
INVARIANTS
  LayersDecide
  NamedFilesAreEntries
  OnlyNamedFilesAreEntries
  LinksAreWhole
