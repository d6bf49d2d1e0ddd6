SPECIFICATION FairSpec
CONSTANTS
  AppNames <- TwoApps
  FirstApps <- OneApp
  Targets <- TwoTargets
  Tags <- ThreeTags
  Values = {"low", "high"}
  Named <- Names
  FirstTargets <- OneTarget
  FirstSpecs <- Wide
  Specs <- Manifests
  Commands = {"load", "deploy", "halt", "edit", "delete", "addTarget", "removeTarget"}
  MaxEdits = 2
  MaxFaults = 1
  SameSecond = FALSE
INVARIANTS TypeOK NewestIsLatest
PROPERTIES EditsSeeEachOther HaltKeepsReleases OneBuildIsLatest AppTargetsFollow DeletedAppsGo
CHECK_DEADLOCK FALSE
