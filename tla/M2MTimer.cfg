SPECIFICATION FairSpec
CONSTANTS
    MaxSignals = 1
    Careless = {}
    Timers = {1, 2}
    MaxPiece = 5
    Period = 2
    IdMod = 8
    MaxCreated = 2
    Modes <- mModes
CHECK_DEADLOCK FALSE
INVARIANTS NoLostSignal UsedWhileAlive 
PROPERTIES DueIsTold
