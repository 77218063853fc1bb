CONSTANTS
    None = None
    Devices = {d1, d2}
    AgentIds = {i1}
    PackageIds = {i1, None}
    Given = {None, 0}
    Pushers = {p1}
    MaxRev = 2
    MaxSent = 2
    MaxDeletes = 1
SPECIFICATION Spec
SYMMETRY Symmetry
INVARIANTS
    TypeOK
    RevsAreContiguous
    DeployedWasInstalled
    RevIsTheSameEverywhere
PROPERTIES
    PublicationSpec
