CONSTANTS
    None = None
    System = System
    Users = {u1, u2}
    Plain = {u2}
    Servers = {shipped, other}
    Shipped = shipped
    Given = {other}
    Keys = {k1, k2}
SPECIFICATION Spec
SYMMETRY Symmetry
INVARIANTS
    TypeOK
    BoundKeyIsFound
    OneUserKey
    ChosenAddressIsKept
