SPECIFICATION Spec
CONSTANTS
  r1 = r1
  r2 = r2
  r3 = r3
  Names <- ThreeReleases
  Old = Old
  NoRelease = NoRelease
  Ramp = 25
  Keep = 10
  Scales <- One
  FirstScales <- One
  Autoscaled = FALSE
  Events = {"deploy"}
  MaxEdits = 2
  MaxFaults = 0
INVARIANTS ActiveCoversItsWeight
