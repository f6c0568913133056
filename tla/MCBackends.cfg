\* Every backend, name and password, with two accounts that change twice.
CONSTANTS
    dn1 = dn1  dn2 = dn2  alice = alice  bob = bob  x = x  y = y
    argon2 = argon2  bcrypt = bcrypt
    Kinds = {"ldap", "database", "pam"}
    Accounts = {dn1, dn2}
    Names = {alice, bob}
    Wildcard = Wildcard
    Passwords = {x, y}
    NoPassword = NoPassword
    HashTypes = {argon2, bcrypt}
    hash_type = argon2
    Gone = Gone
    MaxChanges = 2
SPECIFICATION BackendSpec
SYMMETRY Symmetry
INVARIANTS GrantEarned TroubleRefuses
PROPERTY AmbiguousRefused
\* The call has returned.
CHECK_DEADLOCK FALSE
