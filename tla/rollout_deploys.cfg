SPECIFICATION Spec
CONSTANTS
  r1 = r1
  r2 = r2
  r3 = r3
  Names <- ThreeReleases
  Old = Old
  NoRelease = NoRelease
  Ramp = 25
  Keep = 10
  Scales <- OneOrTwo
  FirstScales <- One
  Autoscaled = FALSE
  Events = {"deploy", "scale"}
  MaxEdits = 2
  MaxFaults = 0
SYMMETRY Symmetry
INVARIANTS RoutesAreWhole RolesAreUnique
PROPERTIES RampIsBounded PromotedWhenRouted ActiveIsKept SplitsTraffic
