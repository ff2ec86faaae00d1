SPECIFICATION FairSpec
CONSTANTS
  Configs <- mUsual
  MaxCalls = 2 MaxFaults = 2 MaxTls = 0
CHECK_DEADLOCK FALSE
INVARIANTS KnowsItsServer
PROPERTIES KeepsThePromise Settles
