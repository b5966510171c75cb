\* Two overlapping runs of two devices; packages expire, run out and meet every limit.
SPECIFICATION InventorySpec
CONSTANTS
    None = None
    Never = Never
    Devices = {d1, d2}
    Packages = {p1, p2, p3, p4}
    Runs = {r1, r2}
    Life = 1
    Target = 3
    PerRun = 3
    MaxAvailable = 3
    MaxHistory = 4
    MaxCredentials = 1
    MaxTime = 2
    MaxResets = 1
SYMMETRY Symmetry
INVARIANTS
    HandedCanBeOpened
    HandedOnce
CHECK_DEADLOCK FALSE
