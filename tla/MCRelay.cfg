\* Every protocol and route, heads of two units, four units from each peer.
CONSTANTS
    HeadLength = 2
    MaxUnits = 4
SPECIFICATION RelayFairSpec
INVARIANTS InOrder LossBounded EndIsLast CountedOnce
PROPERTY RelayDelivers
\* A session that ended takes no step.
CHECK_DEADLOCK FALSE
