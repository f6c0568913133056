\* Two loops: the clock is read before the mutex is taken.
CONSTANTS
    ipA = ipA  ipB = ipB  socks5 = socks5  http = http
    Ips = {ipA, ipB}
    Listeners = {socks5, http}
    Cost = 2
    burst_size = 2
    StaleAfter = 4
    MaxBuckets = 2
    MaxClock = 5
    NoCall = NoCall
SPECIFICATION RSpec
INVARIANT TokenBucketRate
