\* A start with an override, and a reload of the unchanged file.
CONSTANTS
    Missing = Missing  Unreachable = Unreachable  Unparsable = Unparsable
    NoSocket = NoSocket
    Unset = Unset  Unusable = Unusable
    Ports = {0, 1, 2, 3}
    Files <- MCFiles
    Overrides <- MCOverrides
    Occupied <- MCOccupied
    default <- MCDefault
    MaxEdits = 0
    MaxReloads = 2
SPECIFICATION LaunchSpec
INVARIANT SameFileReloads
\* The process has exited, or nobody reloads any more.
CHECK_DEADLOCK FALSE
