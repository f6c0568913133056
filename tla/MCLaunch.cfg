\* Every file with every combination of overrides, two edits, two reloads.
CONSTANTS
    Missing = Missing  Unreachable = Unreachable  Unparsable = Unparsable
    NoSocket = NoSocket
    Unset = Unset  Unusable = Unusable
    Ports = {0, 1, 2, 3}
    Files <- MCFiles
    Overrides <- MCOverrides
    Occupied <- MCOccupied
    default <- MCDefault
    MaxEdits = 2
    MaxReloads = 2
SPECIFICATION LaunchFairSpec
INVARIANTS FailClosed ListenersNamed ReloadedValid
PROPERTY ValidStarts
\* The process has exited, or nobody edits or reloads any more.
CHECK_DEADLOCK FALSE
