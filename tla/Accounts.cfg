\* The old account and a new one, or two new ones; two logins may overlap.
SPECIFICATION Spec
CONSTANTS
    None = None
    Absent = Absent
    Null = Null
    Legacy = u1
    Names = {u1, u2}
    Yuids = {y1, y2}
    Devices = {d1, d2}
    Sessions = {s1, s2}
    Nonces = {c1, c2}
SYMMETRY Symmetry
INVARIANTS
    SocketsHaveSessions
    BannedAreOffline
    SessionsOnLiveDevices
    OneAccountPerIdentity
CHECK_DEADLOCK FALSE
