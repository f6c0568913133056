----------------------------- MODULE RateLimiter -----------------------------
(***************************************************************************)
(* The per-address token buckets of ratelimit.rs, called by both accept    *)
(* loops.  A call reads the clock, then takes the mutex: the two steps can *)
(* be separated by anything the other loop does.  The rest of the call is  *)
(* one step under the mutex.                                               *)
(*                                                                         *)
(* Time is counted in ticks and buckets in units, one unit being what one  *)
(* tick refills; a connection costs Cost units (one token).  The floating  *)
(* point rounding of the source is not modelled.                           *)
(***************************************************************************)
EXTENDS Naturals, FiniteSets

CONSTANTS
    Listeners,    \* the accept loops
    Ips,          \* source addresses
    Cost,         \* units of a token: ticks in 60 / requests_per_minute seconds
    burst_size,   \* rate_limit.burst_size, in tokens
    StaleAfter,   \* ticks in the 600 seconds of idleness before eviction
    MaxBuckets,   \* the 10_000 buckets above which stale ones are evicted
    MaxClock,     \* bound: the clock
    NoCall        \* the loop is not in check()

\* The server runs two accept loops.
ASSUME LimiterAssumption ==
    /\ Cost \in Nat \ {0}
    /\ burst_size \in Nat
    /\ StaleAfter \in Nat
    /\ MaxBuckets \in Nat
    /\ MaxClock \in Nat
    /\ NoCall \notin Ips
    /\ \A p, q, r \in Listeners : p = q \/ q = r \/ p = r

\* RateLimiter::new: a full bucket, in units, is at least one token.
Burst == IF burst_size = 0 THEN Cost ELSE burst_size * Cost

VARIABLES
    clock,         \* Instant::now()
    call,          \* the address a loop is checking
    now,           \* the instant it read before taking the mutex
    keys,          \* the addresses that have a bucket
    tokens,        \* Bucket.tokens
    last_refill,   \* Bucket.last_refill
    spent,         \* history: units consumed by an address
    mark,          \* history: instant of the last refill or eviction
    rewound        \* history: by how much that instant ever moved back

limVars == <<keys, tokens, last_refill, spent, mark, rewound>>
rvars == <<clock, call, now, limVars>>

RInit ==
    /\ clock = 0
    /\ call = [l \in Listeners |-> NoCall]
    /\ now = [l \in Listeners |-> 0]
    /\ keys = {}
    /\ tokens = [i \in Ips |-> Burst]
    /\ last_refill = [i \in Ips |-> 0]
    /\ spent = [i \in Ips |-> 0]
    /\ mark = [i \in Ips |-> 0]
    /\ rewound = [i \in Ips |-> 0]

\* Instant::duration_since saturates at zero.
duration_since(t, earlier) == IF t > earlier THEN t - earlier ELSE 0

Tick ==
    /\ clock < MaxClock
    /\ clock' = clock + 1
    /\ UNCHANGED <<call, now, limVars>>

\* check() reads the clock, before the mutex.
ReadClock(l, ip) ==
    /\ call[l] = NoCall
    /\ call' = [call EXCEPT ![l] = ip]
    /\ now' = [now EXCEPT ![l] = clock]
    /\ UNCHANGED <<clock, limVars>>

-----------------------------------------------------------------------------
(* Under the mutex, at instant t *)

\* Mutant: the age of a bucket is compared with half the limit.
Stale_Early(t) ==
    IF Cardinality(keys) > MaxBuckets
    THEN {k \in keys : 2 * duration_since(t, last_refill[k]) >= StaleAfter}
    ELSE {}

\* The buckets evicted by a call: only when there are too many.
Stale(t) ==
    IF Cardinality(keys) > MaxBuckets
    THEN {k \in keys : duration_since(t, last_refill[k]) >= StaleAfter}
    ELSE {}

\* Mutant: a new bucket starts empty.
Level_Empty(ip, t) == IF ip \in keys \ Stale(t) THEN tokens[ip] ELSE 0

\* The bucket or_insert_with finds or makes, and its last refill.
Level(ip, t) == IF ip \in keys \ Stale(t) THEN tokens[ip] ELSE Burst

Since(ip, t) == IF ip \in keys \ Stale(t) THEN last_refill[ip] ELSE t

Refilled(ip, t) ==
    LET sum == Level(ip, t) + duration_since(t, Since(ip, t))
    IN  IF sum <= Burst THEN sum ELSE Burst

\* What a call leaves behind when the bucket ends with n units: the stale
\* buckets are gone and this one was refilled at t, even if t is earlier than
\* its last refill.
Leave(l, ip, t, n) ==
    LET gone == Stale(t)
        old  == [i \in Ips |-> IF i \in gone THEN t ELSE mark[i]]
    IN  /\ keys' = (keys \ gone) \union {ip}
        /\ tokens' = [tokens EXCEPT ![ip] = n]
        /\ last_refill' = [last_refill EXCEPT ![ip] = t]
        /\ mark' = [old EXCEPT ![ip] = t]
        /\ rewound' = [rewound EXCEPT ![ip] = @ + duration_since(old[ip], t)]
        /\ call' = [call EXCEPT ![l] = NoCall]
        /\ UNCHANGED <<clock, now>>

\* check() returns true and has consumed a token.
Allow(l, ip) ==
    /\ call[l] = ip
    /\ Refilled(ip, now[l]) >= Cost
    /\ Leave(l, ip, now[l], Refilled(ip, now[l]) - Cost)
    /\ spent' = [spent EXCEPT ![ip] = @ + Cost]

\* check() returns false; the refill is kept.
Deny(l, ip) ==
    /\ call[l] = ip
    /\ Refilled(ip, now[l]) < Cost
    /\ Leave(l, ip, now[l], Refilled(ip, now[l]))
    /\ UNCHANGED spent

RNext ==
    \/ Tick
    \/ \E l \in Listeners, ip \in Ips :
        \/ ReadClock(l, ip)
        \/ Allow(l, ip)
        \/ Deny(l, ip)

RSpec == RInit /\ [][RNext]_rvars

-----------------------------------------------------------------------------
(* Properties *)

\* Buckets hold between nothing and the burst, and no call works with an
\* instant that has not come yet.
RTypeOK ==
    /\ clock \in Nat
    /\ call \in [Listeners -> Ips \union {NoCall}]
    /\ now \in [Listeners -> Nat]
    /\ \A l \in Listeners : now[l] <= clock
    /\ keys \in SUBSET Ips
    /\ tokens \in [Ips -> 0 .. Burst]
    /\ last_refill \in [Ips -> Nat]
    /\ spent \in [Ips -> Nat]
    /\ mark \in [Ips -> Nat]
    /\ rewound \in [Ips -> Nat]

Pending == {l \in Listeners : call[l] # NoCall}

\* Why the rate holds: what an address has spent beyond its burst is paid for
\* by the time up to its last refill, plus what refills have moved back.
BudgetPaid ==
    \A ip \in Ips :
        IF ip \in keys
        THEN /\ mark[ip] = last_refill[ip]
             /\ tokens[ip] + spent[ip] <= Burst + mark[ip] + rewound[ip]
        ELSE spent[ip] <= mark[ip] + rewound[ip]

\* Refills move back only as far as an instant read before the other loop's
\* call, so all the way back never exceeds the time gone by.
RewoundBounded ==
    \A ip \in Ips :
        /\ mark[ip] <= clock
        /\ rewound[ip] <= clock
        /\ \A p \in Pending : rewound[ip] <= now[p]
        /\ \A p, q \in Pending : p = q \/ mark[ip] <= now[p] \/ mark[ip] <= now[q]

\* However the two loops interleave between reading the clock and taking the
\* mutex, an address gets at most its burst and twice the configured rate.
RateBound == \A ip \in Ips : spent[ip] <= Burst + 2 * clock

\* Exactly a token bucket: the burst and the configured rate.  It holds with one
\* accept loop, not with the two the server runs.
\* doc/configuration.md:107: "a per-source-IP token bucket refilled at the
\* configured requests_per_minute rate with the defined burst_size capacity".
TokenBucketRate == \A ip \in Ips : spent[ip] <= Burst + clock

\* Nobody is turned away before the burst is used up, evictions included.
BurstHonoured ==
    \A ip \in Ips :
        /\ ip \in keys => tokens[ip] + spent[ip] >= Burst
        /\ \A l \in Listeners :
            (call[l] = ip /\ Refilled(ip, now[l]) < Cost) => spent[ip] + Cost > Burst
=============================================================================
