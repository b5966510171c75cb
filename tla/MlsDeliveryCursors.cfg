\* Handshakes, messages and the cursors of the readers; no attachments.
SPECIFICATION Spec
CONSTANTS
    owner = owner
    member = member
    d1 = d1
    d2 = d2
    d3 = d3
    None = None
    Devices = {d1, d2}
    Users = {owner, member}
    UserOf <- MCUserOf
    Owner = owner
    Enrolled = {d1}
    Readers = {d2}
    Operations = {o1, o2}
    EventIds = {e1}
    Kinds = {"message"}
    Attachments = {}
    Limits = {1, 2}
    MaxEpoch = 2
    MaxSequence = 3
SYMMETRY Symmetry
INVARIANTS
    CursorsWithinDelivery
PROPERTIES
    CursorsMonotone
    RefusalsAreFinal
    ImplementsCommitLog
CHECK_DEADLOCK FALSE
