SPECIFICATION Spec
CONSTANTS
  r1 = r1
  r2 = r2
  r3 = r3
  Names <- TwoReleases
  Old = Old
  NoRelease = NoRelease
  Ramp = 25
  Keep = 10
  Scales <- FourOrUpToTwo
  FirstScales <- FourOrUpToTwo
  Autoscaled = TRUE
  Events = {"deploy", "stick"}
  MaxEdits = 1
  MaxFaults = 0
SYMMETRY Symmetry
INVARIANTS ActiveCoversItsWeight ScalerRunsWhenRouted
PROPERTIES TargetCarriesItsWeight SwitchesToPods ScaledDownWhenUnrouted
