CONSTANTS
    heartbeat = heartbeat
    periodic = periodic
    Others = {heartbeat, periodic}
    initial_delay = 1
    max_delay = 4
    multiplier = 2
CHECK_DEADLOCK FALSE
SPECIFICATION FairSpec
INVARIANTS
    TypeOK
    NotifiedOnce
    ConnectedIsUp
PROPERTIES
    StopEnds
    Reconnects
