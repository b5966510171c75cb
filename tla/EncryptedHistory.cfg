\* Three events.
SPECIFICATION Spec
CONSTANTS
    None = None
    a1 = a1
    a2 = a2
    o1 = o1
    alice = alice
    olga = olga
    Devices <- MCDevices
    UserOf <- MCUserOf
    Owner = olga
    Founder = o1
    Recovering = {a2}
    Kinds <- MCKinds
    Capacity <- MCCapacity
    MaxEvents = 3
    MaxOffers = 1
    MaxWriting = 1
    MaxMishaps = 1
INVARIANTS
    Reopens
    OnlyAuthorsChange
    ReceivedInFull
    StopsOnlyWhere
PROPERTY DeletedStaysDeleted
CHECK_DEADLOCK FALSE
