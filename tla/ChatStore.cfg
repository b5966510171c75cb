\* Two channels, two uploads, two messages; everything may be deleted.
SPECIFICATION Spec
CONSTANTS
    None = None
    NaN = NaN
    u1 = u1
    Channels = {c1, c2}
    Users = {u1, u2}
    Owner = u1
    Uploads = {f1, f2}
    Ids = {i1}
    Contents = {x1, x2}
    MaxMessages = 2
    MaxStored = 2
SYMMETRY Symmetry
INVARIANTS
    KeptIsServed
    AttachmentsFollowMessages
CHECK_DEADLOCK FALSE
