\* Two loops, two addresses, eviction from the second bucket on.
CONSTANTS
    ipA = ipA  ipB = ipB  socks5 = socks5  http = http
    Ips = {ipA, ipB}
    Listeners = {socks5, http}
    Cost = 2
    burst_size = 1
    StaleAfter = 2
    MaxBuckets = 1
    MaxClock = 5
    NoCall = NoCall
SPECIFICATION RSpec
INVARIANTS RateBound BurstHonoured
SYMMETRY Symmetry
