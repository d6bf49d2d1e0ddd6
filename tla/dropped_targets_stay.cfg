SPECIFICATION FairSpec
CONSTANTS
  AppNames <- TwoApps
  FirstApps <- OneApp
  Targets <- TwoTargets
  Tags <- ThreeTags
  Values = {"low", "high"}
  Named <- Names
  FirstTargets <- OneOrBoth
  FirstSpecs <- Manifests
  Specs <- Manifests
  Commands = {"removeTarget"}
  MaxEdits = 1
  MaxFaults = 0
  SameSecond = FALSE
PROPERTY DroppedTargetsGo
CHECK_DEADLOCK FALSE
