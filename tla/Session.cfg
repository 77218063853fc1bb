CONSTANTS
    Devices = {d1}
    Conns = {c1, c2}
    Requests = {r1, r2}
    Callers = {p1, p2}
    Outcomes = {"success"}
    None = None
    MaxQueue = 1
    MaxWire = 1
    MaxBoots = 1
SYMMETRY Symmetry
SPECIFICATION Spec
INVARIANTS
    TypeOK
    AttachedHandlerRuns
    AttachedIsOnline
    ServedDeviceHasNoBacklog
    BacklogIsSentInOrder
    NothingForgotten
