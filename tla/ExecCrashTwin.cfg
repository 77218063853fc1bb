CONSTANTS
    r1 = r1
    r2 = r2
    r3 = r3
    r4 = r4
    r5 = r5
    r6 = r6
    r7 = r7
    r8 = r8
    a1 = a1
    a2 = a2
    a3 = a3
    s1 = s1
    s2 = s2
    p1 = p1
    None = None
    Requests = {r1}
    Items = {a2, a3}
    NewAgents = {a2, a3}
    Found = {}
    Command <- OneCreate
    Quotas <- Twice
    Faults = {"refused"}
    MaxRetry = 3
    MaxInbox = 2
    MaxCopies = 2
    MaxCrashes = 1
SPECIFICATION Spec
INVARIANTS
    NotCreatedTwice
