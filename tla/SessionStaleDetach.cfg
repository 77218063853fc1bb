CONSTANTS
    Devices = {d1}
    Conns = {c1, c2}
    Requests = {r1}
    Callers = {p1}
    Outcomes = {"success"}
    None = None
    MaxQueue = 1
    MaxWire = 1
    MaxBoots = 0
SPECIFICATION Spec
INVARIANTS
    OfflineDeviceHasNoConnection
