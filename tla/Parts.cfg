SPECIFICATION PartsSpec
CONSTANTS
    Byte = {0, 1}
    Size = 4
    MaxLen = 4
INVARIANTS
    PosOK
    CopiesInBounds
    PartsTypeOK
    
    PipeSafe
    
    BotSafe
    
    
    LifeSafe
    DescSafe
    
    
    PeriodicSafe
    MediaSafe
PROPERTIES
    FittingPutExact
    
    
CHECK_DEADLOCK FALSE
