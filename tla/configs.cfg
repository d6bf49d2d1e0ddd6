SPECIFICATION FairSpec
CONSTANTS
  Targets <- TwoTargets
  AppTargets <- TwoApps
  SharedNames = {"common"}
  Contents <- TwoContents
  Scalars <- OneAndTwo
  EnvName <- Variable
  HostKey <- HostVariable
  References <- WebRefersToOther
  OwnEnv <- OwnPort
  FirstConfigs <- WebConfig
  FirstUses <- UsesCommon
  EditedLabels <- ConfigsOfOneName
  EditCost = 2
  MaxSteps = 4
  MaxFaults = 1
INVARIANTS TypeOK ImportRestores ImportMakesOneRelease
PROPERTIES EditsKeepToTheirTarget ConfigsReach
CHECK_DEADLOCK FALSE
