\* Two overlapping requests of any kind, two edits of the file, one token, one client.
CONSTANTS
    day = day  night = night  moved = moved  b1 = b1  b2 = b2
    alice = alice  bob = bob  t1 = t1  static = static
    r1 = r1  r2 = r2  c1 = c1  ipA = ipA  ipB = ipB
    Configs = {day, night, moved}
    Invalid = Invalid
    InitialFile = day
    InitialConfig = day
    Authenticating = {day, night}
    NoAuth = NoAuth
    Binding <- Bindings
    admin_users <- Admins
    admin_token <- StaticToken
    token_ttl <- Ttl
    Users = {alice, bob}
    Knows <- Known
    Requests = {r1, r2}
    Tokens = {t1}
    None = None
    MaxEdits = 2
    MaxClock = 2
    MaxReloads = 2
    Listeners = {socks5}
    Conns = {c1}
    Ips = {ipA, ipB}
    IpOf <- ClientIp
    allowed_networks <- Networks
    max_connections <- LimitOne
    RateLimiting = FALSE
    Idle = Idle
    Backoff = Backoff
SPECIFICATION CFairSpec
CHECK_DEADLOCK FALSE
INVARIANTS BindingsFixed TokensEarned ReloadReachesClients
PROPERTIES TokenLifetime ProxyImplemented ReloadAnswered
