\* Three devices may send to each other; two transfers of a channel.
SPECIFICATION Spec
CONSTANTS
    None = None
    small = small
    large = large
    Devices = {d1, d2, d3}
    Channels = {c1}
    Transfers = {t1, t2}
    Manifests = {m1}
    ChunkCount <- MCChunkCount
    TotalBytes <- MCTotalBytes
    Ciphertexts = {small, large}
    Size <- MCSize
    Indices = {0, 1, 2}
    MaxArriving = 1
SYMMETRY Symmetry
INVARIANTS
    NothingLeftBehind
    ReadyIsWhole
    OneInProgress
    NothingForTheRemoved
PROPERTIES
    ClosedStaysClosed
CHECK_DEADLOCK FALSE
