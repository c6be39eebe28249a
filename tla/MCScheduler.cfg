SPECIFICATION FairSpec
CONSTANTS
    Pods = {p1, p2}
    Nodes = {n1, n2}
    NoNode = NoNode
    InitialNodes = {{}, {n1}, {n1, n2}}
    Capacity = 1
    MaxDisturbances = 1
INVARIANTS TypeOK InOneQueue CountedOnce NoPodLost NotCorrupted NoOvercommit
PROPERTIES MoveSeen SnapshotExact Settles
CHECK_DEADLOCK FALSE
