SPECIFICATION FairSpec
CONSTANTS
    Items <- mItems
    MaxGen = 7
    MaxFaults = 1
    MaxCuts = 2
    MaxRefusals = 1
    MaxResets = 1
    MaxRestarts = 1
    AppResets = TRUE
CHECK_DEADLOCK FALSE
INVARIANTS CredentialsMatch
PROPERTIES CallsCarefully KeepsThePromise 
