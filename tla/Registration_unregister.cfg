SPECIFICATION FairSpec
CONSTANTS
  Configs <- mPlain
  MaxCalls = 2 MaxFaults = 1 MaxTls = 0
CHECK_DEADLOCK FALSE
PROPERTY UnregistrationContinues
