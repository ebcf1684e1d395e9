SPECIFICATION HostSpec
CONSTANTS
  Detect <- MCDetect
  Capability <- MCCapability
  Referable <- MCReferable
  Located = {"Entries"}
  MaxItems = 1
  MaxPluginDiags = 2
  MaxHostFacts = 4
  Builtin = {"vite"}
  Plugin <- MCPlugin
  Plans <- MCPlans
  Packages <- MCPackages
  ProfileLists <- MCProfileLists
  Answers <- MCAnswers
  Capacity = 1
  MaxMessage = 3
  MaxResponse = 2
CHECK_DEADLOCK FALSE
INVARIANTS
  FactsAreVouchedFor
  SilentMeansAnswered
  NoProgramOutlivesItsCall
PROPERTIES
  CallsEnd
