SPECIFICATION FairSpec
CONSTANTS
  AppTargets <- ThreeAppTargets
  Options <- OptionsOfEach
  FirstSpecs <- WebIsPublic
  Certs <- OldAndNew
  FirstCerts <- OnlyOld
  Provided <- Renewals
  MaxSteps = 2
INVARIANTS TypeOK
PROPERTIES IngressesCome UnusedIngressesGo RenewalsArePickedUp ObjectsFollow
CHECK_DEADLOCK FALSE
