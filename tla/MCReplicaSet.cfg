SPECIFICATION FairSpec
CONSTANTS
    Pods = {p1, p2}
    MaxReplicas = 2
    burstReplicas = 2
    MaxOrphans = 1
    MaxEdits = 1
    MaxFaults = 1
    MaxLag = 1
    MaxBacklog = 1
INVARIANTS TypeOK ReadsOwnWrites
PROPERTIES Converges
CHECK_DEADLOCK FALSE
