SPECIFICATION DependencySpec
CONSTANTS
  Projects <- MCProjects
  Profiles <- MCProfiles
  Root = "root"
  Builtins = {"fs"}
  TypesOf <- MCTypesOf
  Runner = "npm-run-all"
  LooksLikeFile = {"setup.js"}
CHECK_DEADLOCK FALSE
INVARIANTS
  UsedDependenciesAreKept
  FixesRestOnWholeEvidence
  MissingDeclarationsAreReported
