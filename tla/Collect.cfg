CONSTANTS
    Requests = {q1}
    Oddities = {"raises", "row"}
    RowCount = 2
    MaxTotal = 1
    MaxWire = 1
SPECIFICATION FairSpec
INVARIANTS
    TypeOK
    WholeReports
PROPERTIES
    StoreSpec
    UsageArrives
