\* One sharing and one recovering device, two transfers, one trouble.
SPECIFICATION Spec
CONSTANTS
    None = None
    Half = Half
    Devices = {d1, d2}
    Keepers = {d1}
    ChunksOf = 1
    MaxTries = 2
    MaxLate = 1
    MaxTroubles = 1
INVARIANTS
    TypeOK
    
    
    RetryIsExact
CHECK_DEADLOCK FALSE
