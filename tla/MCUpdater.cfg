SPECIFICATION FairSpec
CONSTANTS
  Gui = "gui"
  Members <- MCMembers
  Contents = {1, 2}
  RootGui = 1
  Build <- MCBuild
  Packages <- MCPackages
  Legacy <- MCLegacy
  Engine = 3
  RepairBanks = 1
  MaxSeq = 3
  MaxCuts = 1
  MaxEnv = 1
INVARIANTS
  TypeOK
  BankSound
  OneVersionRuns
  InstancesEarned
PROPERTIES
  ReferencedKept
  PublishesReviewed
  BootSettles
CHECK_DEADLOCK FALSE
