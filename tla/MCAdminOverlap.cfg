\* Two reloads overlap an edit of the file.
CONSTANTS
    day = day  night = night  moved = moved  b1 = b1  b2 = b2
    alice = alice  bob = bob  t1 = t1  static = static
    r1 = r1  r2 = r2
    Configs = {day, night, moved}
    Invalid = Invalid
    InitialFile = day
    InitialConfig = day
    Authenticating = {day, night}
    NoAuth = NoAuth
    Binding <- Bindings
    admin_users <- Admins
    admin_token <- StaticToken
    token_ttl <- Ttl
    Users = {alice, bob}
    Knows <- Known
    Requests = {r1, r2}
    Tokens = {t1}
    None = None
    MaxEdits = 1
    MaxClock = 0
SPECIFICATION ASpec
CHECK_DEADLOCK FALSE
INVARIANT ReloadTakesEffect
