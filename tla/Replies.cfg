CONSTANTS
    None = None
    q1 = q1
    q2 = q2
    d1 = d1
    d2 = d2
    Questions = {q1, q2}
    Devices = {d1, d2}
SPECIFICATION FairSpec
INVARIANTS
    TypeOK
    TableFits
PROPERTIES
    InquirySpec
    EveryQuestionEnds
