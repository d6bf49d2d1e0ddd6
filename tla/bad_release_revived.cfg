SPECIFICATION Spec
CONSTANTS
  r1 = r1
  r2 = r2
  r3 = r3
  Names <- TwoReleases
  Old = Old
  NoRelease = NoRelease
  Ramp = 25
  Keep = 10
  Scales <- One
  FirstScales <- One
  Autoscaled = FALSE
  Events = {"deploy", "rollback"}
  MaxEdits = 2
  MaxFaults = 0
PROPERTIES BadStaysBad
