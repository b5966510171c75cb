\* Two devices and three connections: one may be half-open while its device reconnects.
SPECIFICATION Spec
CONSTANTS
    None = None
    Nowhere = Nowhere
    u1 = u1
    u2 = u2
    Owner = u1
    Users = {u1, u2}
    UserOf <- MCUserOf
    Devices = {1, 2}
    Sockets = {1, 2, 3}
    Rooms = {r1}
    Keys = {k1, k2, k3}
    MaxEpoch = 2
    MaxSequence = 3
    MaxEnvelopes = 1
    MaxInbox = 2
SYMMETRY Symmetry
VIEW View
INVARIANTS
    TypeOK
    KeysStayInRoom
    HoldersAgree
CHECK_DEADLOCK FALSE
