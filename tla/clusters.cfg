SPECIFICATION FairSpec
CONSTANTS
  Cluster = {"east", "west"}
  Target = {"production", "staging"}
  Account = {"s3"}
  Policy = {"read"}
  MaxPools = 2
  ActiveAtFirst <- NoneOrEast
  FirstInside <- OneAccount
  MaxCommands = 3
  MaxFaults = 1
INVARIANTS TypeOK CreationsCanBeResumed ActiveIsWhole TargetsAreLinked
PROPERTIES KubectlFollows CreationsComplete DestroyLeavesNothing
CHECK_DEADLOCK FALSE
