\* A founder without failures, and a second device of the owner that adds and writes too.
SPECIFICATION Spec
CONSTANTS
    owner = owner
    member = member
    None = None
    Devices = {1, 2, 3}
    OwnerDevices = {1, 2}
    Users = {owner, member}
    UserOf <- MCUserOf
    Owner = owner
    Founder = 2
    BatchLimit = 2
    Online = {1, 2}
    Senders = {1}
    Removable = {1, 3}
    Faulty = {1}
    MaxSequence = 6
    FounderTries = 2
    OtherTries = 1
    MaxTries <- MCMaxTries
    MaxLate = 2
INVARIANTS
    
    WelcomesNotLost
    TypeOK
    CursorOnLog
    AckedIsDurable
    StoredAsDelivered
CHECK_DEADLOCK FALSE
