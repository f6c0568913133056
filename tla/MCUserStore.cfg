\* Three commands in any interleaving, killed anywhere, and a server that loads
\* the file once.
CONSTANTS
    alice = alice  NoName = NoName  x = x  y = y  argon2 = argon2  bcrypt = bcrypt
    p1 = p1  p2 = p2  p3 = p3
    Missing = Missing  Empty = Empty  Garbled = Garbled
    Names = {alice, NoName}
    Passwords = {x, y}
    HashTypes = {argon2, bcrypt}
    Commands = {p1, p2, p3}
    Inputs <- MCInputs
    InitialFiles <- MCInitialFiles
    MaxReloads = 1
SPECIFICATION StoreSpec
SYMMETRY Symmetry
INVARIANTS FileFaithful LoginEarned Verifiable
PROPERTY TableImplemented
\* All commands have ended.
CHECK_DEADLOCK FALSE
