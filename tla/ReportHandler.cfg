SPECIFICATION FairSpec
CONSTANTS
    Numbers <- mNumbers
    Instances = {"i1", "i2"}
    Queries <- mQueries
    MaxNumber = 3
    MaxSent = 3
    MaxWrites = 2
    LongAgo = 5
    Exempt = {"first", "failed_write", "revert", "sibling"}
CHECK_DEADLOCK FALSE
INVARIANTS IntervalsKept
PROPERTIES ToldInTheEnd
