\* A window of three messages, two of which are persisted.
SPECIFICATION Spec
CONSTANTS
    None = None
    Active = 3
    Persisted = 2
    First = 2
    Limit = 2
    MaxMessages = 4
INVARIANT EvictedAreRecoverable
CHECK_DEADLOCK FALSE
