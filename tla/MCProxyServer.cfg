\* Two accept loops, three connections, one permit, one reload, rate limiting.
CONSTANTS
    c1 = c1  c2 = c2  c3 = c3
    open = open  narrow = narrow  ipA = ipA  ipB = ipB
    Configs = {open, narrow}
    InitialConfig = open
    Authenticating = {open}
    NoAuth = NoAuth
    MaxReloads = 1
    Listeners = {socks5, http}
    Conns = {c1, c2, c3}
    Ips = {ipA, ipB}
    IpOf <- IpOf3
    allowed_networks <- Networks
    max_connections <- Limits
    RateLimiting = TRUE
    Idle = Idle
    Backoff = Backoff
SPECIFICATION FairSpec
INVARIANTS PermitsConserved QueueExact GaugeExact SocketsBounded SnapshotPaired PolicyFresh
PROPERTIES NoOvertaking ServiceSafe EverySettled LoopsReturn
