SPECIFICATION FairSpec
CONSTANTS
  r1 = r1
  r2 = r2
  r3 = r3
  Names <- TwoReleases
  Old = Old
  NoRelease = NoRelease
  Ramp = 25
  Keep = 1
  Scales <- One
  FirstScales <- One
  Autoscaled = FALSE
  Events = {"deploy", "fail", "age", "lose"}
  MaxEdits = 1
  MaxFaults = 1

PROPERTIES TargetIsKept RolloutCompletes
