SPECIFICATION FairSpec
CONSTANTS
    Clients = {c1, c2}
    Absent = Absent
    Failed = Failed
    v1 = v1
    v2 = v2
    w = w
    Values <- MCValues
    Ops <- MCOps
    MaxCalls = 3
    MaxFaults = 1
PROPERTIES Atomic NoNeedlessWrite Returns
CHECK_DEADLOCK FALSE
