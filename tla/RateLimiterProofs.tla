-------------------------- MODULE RateLimiterProofs --------------------------
(***************************************************************************)
(* The rate two accept loops grant to an address, for every burst, cost,   *)
(* number of addresses and eviction threshold.                             *)
(*                                                                         *)
(* RateBound is not inductive.  What is: an account of what an address has *)
(* spent (BudgetPaid: paid by its burst, the time up to its last refill    *)
(* and what refills moved back) and a bound on moving back                 *)
(* (RewoundBounded: never beyond an instant some pending call has read).   *)
(* Eviction forgets a debt, which the time without a refill must have paid *)
(* off: the bound needs a bucket to fill up within StaleAfter.             *)
(***************************************************************************)
EXTENDS RateLimiter, TLAPS

\* A full bucket holds at least one token.
LEMMA BurstHoldsOne == Burst \in Nat /\ Cost \in Nat /\ Burst >= Cost
  <1>1. burst_size \in Nat /\ Cost \in Nat
    BY LimiterAssumption
  <1>2. CASE burst_size = 0
    BY <1>1, <1>2 DEF Burst
  <1>3. CASE burst_size # 0
    <2>1. burst_size * Cost \in Nat /\ burst_size * Cost >= Cost
      BY <1>1, <1>3, SMT
    <2> QED
      BY <2>1, <1>1, <1>3 DEF Burst
  <1> QED
    BY <1>2, <1>3

\* A call refills within the burst and never below what the bucket held.
LEMMA RefillBounds ==
    ASSUME RTypeOK, NEW ip \in Ips, NEW t \in Nat
    PROVE  /\ Level(ip, t) \in 0 .. Burst
           /\ Since(ip, t) \in Nat
           /\ duration_since(t, Since(ip, t)) \in Nat
           /\ Refilled(ip, t) \in 0 .. Burst
           /\ Refilled(ip, t) >= Level(ip, t)
           /\ Refilled(ip, t) <= Level(ip, t) + duration_since(t, Since(ip, t))
  <1>1. Level(ip, t) \in 0 .. Burst /\ Since(ip, t) \in Nat
    BY BurstHoldsOne DEF Level, Since, RTypeOK
  <1>2. duration_since(t, Since(ip, t)) \in Nat
    BY <1>1 DEF duration_since
  <1> HIDE DEF Level, Since, duration_since
  <1> QED
    BY <1>1, <1>2, BurstHoldsOne DEF Refilled

\* The two ways a call ends, as one step that leaves n units.
Ends(l, ip, n, cost) ==
    /\ call[l] = ip
    /\ Leave(l, ip, now[l], n)
    /\ spent' = [spent EXCEPT ![ip] = @ + cost]
    /\ n \in Nat
    /\ cost \in Nat
    /\ n + cost = Refilled(ip, now[l])

\* Allow charges a token, Deny nothing.
LEMMA CallEnds ==
    ASSUME RTypeOK, NEW l \in Listeners, NEW ip \in Ips,
           Allow(l, ip) \/ Deny(l, ip)
    PROVE  \E n, cost \in Nat : Ends(l, ip, n, cost)
  <1>1. now[l] \in Nat
    BY DEF RTypeOK
  <1>2. Refilled(ip, now[l]) \in 0 .. Burst
    BY <1>1, RefillBounds
  <1>3. CASE Allow(l, ip)
    <2>1. Ends(l, ip, Refilled(ip, now[l]) - Cost, Cost)
      BY <1>2, <1>3, BurstHoldsOne DEF Allow, Ends
    <2> QED
      BY <1>2, <1>3, <2>1, BurstHoldsOne DEF Allow
  <1>4. CASE Deny(l, ip)
    <2>1. spent' = [spent EXCEPT ![ip] = @ + 0]
      BY <1>4 DEF Deny, RTypeOK
    <2>2. PICK n \in Nat : n = Refilled(ip, now[l])
      BY <1>2, BurstHoldsOne
    <2>3. n + 0 = Refilled(ip, now[l]) /\ Leave(l, ip, now[l], n) /\ call[l] = ip
      BY <1>4, <2>2 DEF Deny
    <2>4. Ends(l, ip, n, 0)
      BY <2>1, <2>2, <2>3 DEF Ends
    <2> QED
      BY <2>4
  <1> QED
    BY <1>3, <1>4

-----------------------------------------------------------------------------
(* Types *)

\* Refills stay within the burst whatever instant a call brings.
LEMMA RTypeStep ==
    ASSUME RTypeOK, [RNext]_rvars
    PROVE  RTypeOK'
  <1>1. CASE Tick
    BY <1>1 DEF Tick, limVars, RTypeOK
  <1>2. ASSUME NEW l \in Listeners, NEW ip \in Ips, ReadClock(l, ip)
        PROVE  RTypeOK'
    BY <1>2 DEF ReadClock, limVars, RTypeOK
  <1>3. ASSUME NEW l \in Listeners, NEW ip \in Ips, Allow(l, ip) \/ Deny(l, ip)
        PROVE  RTypeOK'
    <2>1. PICK n, cost \in Nat : Ends(l, ip, n, cost)
      BY <1>3, CallEnds
    <2>2. now[l] \in Nat /\ Refilled(ip, now[l]) \in 0 .. Burst
      BY RefillBounds DEF RTypeOK
    <2>3. n \in 0 .. Burst
      BY <2>1, <2>2, BurstHoldsOne DEF Ends
    <2>4. /\ keys' \in SUBSET Ips /\ tokens' \in [Ips -> 0 .. Burst]
          /\ last_refill' \in [Ips -> Nat] /\ spent' \in [Ips -> Nat]
      BY <2>1, <2>2, <2>3 DEF Ends, Leave, RTypeOK
    <2>5. mark' \in [Ips -> Nat]
      BY <2>1, <2>2 DEF Ends, Leave, RTypeOK
    <2>6. rewound' \in [Ips -> Nat]
      BY <2>1, <2>2 DEF Ends, Leave, RTypeOK, duration_since
    <2>7. /\ clock' \in Nat /\ call' \in [Listeners -> Ips \union {NoCall}]
          /\ now' \in [Listeners -> Nat] /\ \A q \in Listeners : now'[q] <= clock'
      BY <2>1 DEF Ends, Leave, RTypeOK
    <2> QED
      BY <2>4, <2>5, <2>6, <2>7 DEF RTypeOK
  <1>4. CASE UNCHANGED rvars
    BY <1>4 DEF rvars, limVars, RTypeOK
  <1> QED
    BY <1>1, <1>2, <1>3, <1>4 DEF RNext

\* Buckets never exceed the burst and no call uses an instant to come.
THEOREM RTypeCorrect == RSpec => []RTypeOK
  <1>1. RInit => RTypeOK
    BY BurstHoldsOne DEF RInit, RTypeOK
  <1>2. RTypeOK /\ [RNext]_rvars => RTypeOK'
    BY RTypeStep
  <1> QED
    BY <1>1, <1>2, PTL DEF RSpec

-----------------------------------------------------------------------------
(* The account *)

\* What a call leaves behind, address by address.
LEMMA AfterCall ==
    ASSUME RTypeOK, NEW l \in Listeners, NEW ip \in Ips, NEW n \in Nat, NEW cost \in Nat,
           Ends(l, ip, n, cost), NEW i \in Ips
    PROVE  /\ i # ip => /\ i \in keys' <=> i \in keys \ Stale(now[l])
                        /\ UNCHANGED <<tokens[i], last_refill[i], spent[i], rewound[i]>>
                        /\ i \notin Stale(now[l]) => mark'[i] = mark[i]
                        /\ i \in Stale(now[l]) => mark'[i] = now[l]
           /\ i = ip => /\ i \in keys' /\ tokens'[i] = n /\ last_refill'[i] = now[l]
                        /\ mark'[i] = now[l] /\ spent'[i] = spent[i] + cost
                        /\ i \in Stale(now[l]) => rewound'[i] = rewound[i]
                        /\ i \notin Stale(now[l]) =>
                               rewound'[i] = rewound[i] + duration_since(mark[i], now[l])
  <1>1. now[l] \in Nat /\ rewound[i] \in Nat
    BY DEF RTypeOK
  <1>2. duration_since(now[l], now[l]) = 0
    BY <1>1 DEF duration_since
  <1>3. CASE i # ip
    BY <1>1, <1>3 DEF Ends, Leave, RTypeOK
  <1>4. CASE i = ip
    BY <1>1, <1>2, <1>4 DEF Ends, Leave, RTypeOK
  <1> QED
    BY <1>3, <1>4

\* A bucket is evicted only once the time without refill could have filled it:
\* what its address has spent is paid for by the instant of the eviction.
LEMMA EvictionForgivesNothing ==
    ASSUME RTypeOK, BudgetPaid, Burst <= StaleAfter,
           NEW t \in Nat, NEW i \in Ips, i \in Stale(t)
    PROVE  i \in keys /\ mark[i] <= t /\ spent[i] <= t + rewound[i]
  <1>1. /\ i \in keys /\ duration_since(t, last_refill[i]) >= StaleAfter
        /\ last_refill[i] \in Nat /\ tokens[i] \in Nat /\ spent[i] \in Nat
        /\ mark[i] \in Nat /\ rewound[i] \in Nat /\ StaleAfter \in Nat
    BY LimiterAssumption, BurstHoldsOne DEF Stale, RTypeOK
  <1>2. mark[i] = last_refill[i] /\ tokens[i] + spent[i] <= Burst + mark[i] + rewound[i]
    BY <1>1 DEF BudgetPaid
  <1>3. Burst >= 1 /\ Burst \in Nat
    BY BurstHoldsOne, LimiterAssumption
  <1>4. t - mark[i] >= Burst
    BY <1>1, <1>2, <1>3 DEF duration_since
  <1> QED
    BY <1>1, <1>2, <1>3, <1>4

\* The account of an address through one call.
LEMMA BudgetStep ==
    ASSUME RTypeOK, BudgetPaid, Burst <= StaleAfter,
           NEW l \in Listeners, NEW ip \in Ips, Allow(l, ip) \/ Deny(l, ip)
    PROVE  BudgetPaid'
  <1>1. PICK n, cost \in Nat : Ends(l, ip, n, cost)
    BY CallEnds
  <1> DEFINE t == now[l]
  <1>t. t \in Nat
    BY DEF RTypeOK
  <1>2. ASSUME NEW i \in Ips
        PROVE  IF i \in keys'
               THEN /\ mark'[i] = last_refill'[i]
                    /\ tokens'[i] + spent'[i] <= Burst + mark'[i] + rewound'[i]
               ELSE spent'[i] <= mark'[i] + rewound'[i]
    <2>n. /\ tokens[i] \in Nat /\ spent[i] \in Nat /\ mark[i] \in Nat /\ rewound[i] \in Nat
          /\ Burst \in Nat
      BY BurstHoldsOne DEF RTypeOK
    <2>1. CASE i # ip /\ i \notin Stale(t)
      BY <1>1, <2>1, AfterCall DEF BudgetPaid
    <2>2. CASE i # ip /\ i \in Stale(t)
      BY <1>1, <1>t, <2>2, AfterCall, EvictionForgivesNothing
    <2>3. CASE i = ip
      <3>1. /\ i \in keys' /\ mark'[i] = t /\ last_refill'[i] = t /\ tokens'[i] = n
            /\ spent'[i] = spent[i] + cost
            /\ i \in Stale(t) => rewound'[i] = rewound[i]
            /\ i \notin Stale(t) => rewound'[i] = rewound[i] + duration_since(mark[i], t)
        BY <1>1, <2>3, AfterCall
      <3>2. /\ n + cost <= Level(i, t) + duration_since(t, Since(i, t))
            /\ Level(i, t) \in 0 .. Burst
        BY <1>1, <1>t, <2>3, RefillBounds DEF Ends
      <3>3. CASE i \in keys \ Stale(t)
        <4>1. /\ Level(i, t) = tokens[i] /\ Since(i, t) = mark[i]
              /\ tokens[i] + spent[i] <= Burst + mark[i] + rewound[i]
          BY <3>3 DEF Level, Since, BudgetPaid
        <4>2. mark[i] + duration_since(t, mark[i]) = t + duration_since(mark[i], t)
          BY <1>t, <2>n DEF duration_since
        <4>3. duration_since(t, mark[i]) \in Nat /\ duration_since(mark[i], t) \in Nat
          BY <1>t, <2>n DEF duration_since
        <4>4. n + cost <= tokens[i] + duration_since(t, mark[i])
          BY <3>2, <4>1
        <4> HIDE DEF t
        <4> QED
          BY <1>1, <1>t, <2>n, <3>1, <3>3, <4>1, <4>2, <4>3, <4>4
      <3>4. CASE i \notin keys \ Stale(t)
        <4>1. Level(i, t) = Burst /\ Since(i, t) = t /\ duration_since(t, t) = 0
          BY <1>t, <3>4 DEF Level, Since, duration_since
        <4>2. n + cost <= Burst
          BY <3>2, <4>1, <2>n
        <4>3. spent[i] <= t + rewound'[i] /\ rewound'[i] \in Nat
          <5>1. CASE i \in Stale(t)
            BY <1>t, <2>n, <3>1, <5>1, EvictionForgivesNothing
          <5>2. CASE i \notin Stale(t)
            <6>1. spent[i] <= mark[i] + rewound[i]
              BY <3>4, <5>2 DEF BudgetPaid
            <6>2. /\ mark[i] <= t + duration_since(mark[i], t)
                  /\ duration_since(mark[i], t) \in Nat
              BY <1>t, <2>n DEF duration_since
            <6> HIDE DEF t
            <6> QED
              BY <1>t, <2>n, <3>1, <5>2, <6>1, <6>2
          <5> QED
            BY <5>1, <5>2
        <4> HIDE DEF t
        <4> QED
          BY <1>1, <1>t, <2>n, <3>1, <4>2, <4>3
      <3> QED
        BY <3>3, <3>4
    <2> QED
      BY <2>1, <2>2, <2>3
  <1> QED
    BY <1>2 DEF BudgetPaid

-----------------------------------------------------------------------------
(* How far refills move back *)

\* A call that brings an older instant moves a refill back to it; no call
\* pending then has read an instant older still, or no refill came after that.
LEMMA RewoundStep ==
    ASSUME RTypeOK, BudgetPaid, RewoundBounded, Burst <= StaleAfter,
           NEW l \in Listeners, NEW ip \in Ips, Allow(l, ip) \/ Deny(l, ip)
    PROVE  RewoundBounded'
  <1>1. PICK n, cost \in Nat : Ends(l, ip, n, cost)
    BY CallEnds
  <1>2. /\ clock' = clock /\ now' = now /\ l \in Pending
        /\ Pending' = Pending \ {l}
    BY <1>1, LimiterAssumption DEF Ends, Leave, Pending, RTypeOK
  <1>3. \A p, q \in Pending' : p = q
    BY <1>2, LimiterAssumption DEF Pending
  <1>n. /\ clock \in Nat /\ now[l] \in Nat /\ now[l] <= clock
        /\ \A p \in Pending : now[p] \in Nat
    BY DEF RTypeOK, Pending
  <1>4. ASSUME NEW i \in Ips
        PROVE  /\ mark'[i] <= clock
               /\ rewound'[i] <= clock
               /\ \A p \in Pending' : rewound'[i] <= now[p]
    <2>n. mark[i] \in Nat /\ rewound[i] \in Nat
      BY DEF RTypeOK
    <2>1. /\ mark[i] <= clock /\ rewound[i] <= clock
          /\ \A p \in Pending : rewound[i] <= now[p]
          /\ \A p \in Pending : p = l \/ mark[i] <= now[l] \/ mark[i] <= now[p]
      BY <1>2 DEF RewoundBounded
    <2>2. CASE i # ip
      BY <1>1, <1>2, <1>n, <2>1, <2>2, AfterCall
    <2>3. CASE i = ip /\ i \in Stale(now[l])
      BY <1>1, <1>2, <1>n, <2>1, <2>3, AfterCall
    <2>4. CASE i = ip /\ i \notin Stale(now[l])
      <3>1. mark'[i] = now[l] /\ rewound'[i] = rewound[i] + duration_since(mark[i], now[l])
        BY <1>1, <2>4, AfterCall
      <3>2. CASE mark[i] <= now[l]
        BY <1>2, <1>n, <2>1, <2>n, <3>1, <3>2 DEF duration_since
      <3>3. CASE mark[i] > now[l]
        <4>1. rewound'[i] <= mark[i] /\ rewound'[i] \in Nat
          BY <1>2, <1>n, <2>1, <2>n, <3>1, <3>3 DEF duration_since
        <4>2. \A p \in Pending' : mark[i] <= now[p]
          BY <1>2, <1>n, <2>1, <2>n, <3>3
        <4> QED
          BY <1>2, <1>n, <2>1, <2>n, <3>1, <4>1, <4>2
      <3> QED
        BY <1>n, <2>n, <3>2, <3>3
    <2> QED
      BY <2>2, <2>3, <2>4
  <1> QED
    BY <1>2, <1>3, <1>4 DEF RewoundBounded

RInv == RTypeOK /\ BudgetPaid /\ RewoundBounded

\* The account and the bound are inductive together.
LEMMA RInductive ==
    ASSUME Burst <= StaleAfter
    PROVE  RSpec => []RInv
  <1>1. RInit => RInv
    <2> SUFFICES ASSUME RInit PROVE RInv
      OBVIOUS
    <2>1. RTypeOK
      BY BurstHoldsOne DEF RInit, RTypeOK
    <2>2. BudgetPaid /\ RewoundBounded
      BY DEF RInit, BudgetPaid, RewoundBounded, Pending
    <2> QED
      BY <2>1, <2>2 DEF RInv
  <1>2. RInv /\ [RNext]_rvars => RInv'
    <2> SUFFICES ASSUME RInv, [RNext]_rvars PROVE RInv'
      OBVIOUS
    <2>t. RTypeOK' /\ RTypeOK /\ BudgetPaid /\ RewoundBounded
      BY RTypeStep DEF RInv
    <2>1. CASE Tick
      <3>1. BudgetPaid'
        BY <2>1, <2>t DEF Tick, limVars, BudgetPaid
      <3>2. RewoundBounded'
        BY <2>1, <2>t DEF Tick, limVars, RewoundBounded, RTypeOK, Pending
      <3> QED
        BY <2>t, <3>1, <3>2 DEF RInv
    <2>2. ASSUME NEW l \in Listeners, NEW ip \in Ips, ReadClock(l, ip)
          PROVE  RInv'
      <3>1. BudgetPaid'
        BY <2>2, <2>t DEF ReadClock, limVars, BudgetPaid
      <3>2. RewoundBounded'
        BY <2>2, <2>t DEF ReadClock, limVars, RewoundBounded, RTypeOK, Pending
      <3> QED
        BY <2>t, <3>1, <3>2 DEF RInv
    <2>3. ASSUME NEW l \in Listeners, NEW ip \in Ips, Allow(l, ip) \/ Deny(l, ip)
          PROVE  RInv'
      BY <2>3, <2>t, BudgetStep, RewoundStep DEF RInv
    <2>4. CASE UNCHANGED rvars
      BY <2>4, <2>t DEF rvars, limVars, RInv, BudgetPaid, RewoundBounded, Pending
    <2> QED
      BY <2>1, <2>2, <2>3, <2>4 DEF RNext
  <1> QED
    BY <1>1, <1>2, PTL DEF RSpec

\* What check has granted an address beyond its burst is paid for by the time up
\* to its last refill and by what refills have moved back, evictions included.
THEOREM BudgetStaysPaid ==
    ASSUME Burst <= StaleAfter
    PROVE  RSpec => []BudgetPaid
  <1>1. RInv => BudgetPaid
    BY DEF RInv
  <1> QED
    BY <1>1, RInductive, PTL

\* Instants that the two loops apply out of order move a bucket's refills back
\* by no more than the time gone by, all such moves taken together.
THEOREM RewindStaysBounded ==
    ASSUME Burst <= StaleAfter
    PROVE  RSpec => []RewoundBounded
  <1>1. RInv => RewoundBounded
    BY DEF RInv
  <1> QED
    BY <1>1, RInductive, PTL

\* If an evicted bucket would have been full again, the two loops together
\* grant an address at most its burst and twice the configured rate.
THEOREM RateBounded ==
    ASSUME Burst <= StaleAfter
    PROVE  RSpec => []RateBound
  <1>1. RInv => RateBound
    <2> SUFFICES ASSUME RInv, NEW ip \in Ips
                 PROVE  spent[ip] <= Burst + 2 * clock
      BY DEF RateBound
    <2>1. /\ clock \in Nat /\ tokens[ip] \in Nat /\ spent[ip] \in Nat /\ mark[ip] \in Nat
          /\ rewound[ip] \in Nat /\ Burst \in Nat
      BY BurstHoldsOne DEF RInv, RTypeOK
    <2>2. mark[ip] <= clock /\ rewound[ip] <= clock
      BY DEF RInv, RewoundBounded
    <2>3. spent[ip] <= Burst + mark[ip] + rewound[ip]
      BY <2>1 DEF RInv, BudgetPaid
    <2> QED
      BY <2>1, <2>2, <2>3
  <1> QED
    BY <1>1, RInductive, PTL

-----------------------------------------------------------------------------
(* One accept loop *)

\* A lone loop never brings an instant older than the last refill.
Forward ==
    \A ip \in Ips : /\ rewound[ip] = 0
                    /\ \A p \in Pending : mark[ip] <= now[p]

\* With a single loop nothing ever moves back.
LEMMA ForwardStep ==
    ASSUME \A p, q \in Listeners : p = q, Burst <= StaleAfter,
           RInv, Forward, [RNext]_rvars
    PROVE  Forward'
  <1>t. RTypeOK /\ BudgetPaid /\ RewoundBounded
    BY DEF RInv
  <1>1. CASE Tick
    BY <1>1 DEF Tick, limVars, Forward, Pending
  <1>2. ASSUME NEW l \in Listeners, NEW ip \in Ips, ReadClock(l, ip)
        PROVE  Forward'
    BY <1>2, <1>t DEF ReadClock, limVars, Forward, RewoundBounded, RTypeOK, Pending
  <1>3. ASSUME NEW l \in Listeners, NEW ip \in Ips, Allow(l, ip) \/ Deny(l, ip)
        PROVE  Forward'
    <2>1. PICK n, cost \in Nat : Ends(l, ip, n, cost)
      BY <1>3, <1>t, CallEnds
    <2>2. l \in Pending /\ Pending' = {}
      BY <2>1, <1>t, LimiterAssumption DEF Ends, Leave, Pending, RTypeOK
    <2>3. ASSUME NEW i \in Ips PROVE rewound'[i] = 0
      <3>1. mark[i] \in Nat /\ now[l] \in Nat /\ mark[i] <= now[l] /\ rewound[i] = 0
        BY <2>2, <1>t DEF Forward, RTypeOK
      <3>2. duration_since(mark[i], now[l]) = 0
        BY <3>1 DEF duration_since
      <3> QED
        BY <2>1, <1>t, <3>1, <3>2, AfterCall
    <2> QED
      BY <2>2, <2>3 DEF Forward
  <1>4. CASE UNCHANGED rvars
    BY <1>4 DEF rvars, limVars, Forward, Pending
  <1> QED
    BY <1>1, <1>2, <1>3, <1>4 DEF RNext

\* With a single accept loop an address gets its burst and the configured rate,
\* as the documentation says.
THEOREM OneLoopRate ==
    ASSUME \A p, q \in Listeners : p = q, Burst <= StaleAfter
    PROVE  RSpec => []TokenBucketRate
  <1>1. RInit => Forward
    BY DEF RInit, Forward, Pending
  <1>2. RInv /\ Forward /\ [RNext]_rvars => Forward'
    BY ForwardStep
  <1>3. RInv /\ Forward => TokenBucketRate
    <2> SUFFICES ASSUME RInv, Forward, NEW ip \in Ips
                 PROVE  spent[ip] <= Burst + clock
      BY DEF TokenBucketRate
    <2>1. /\ clock \in Nat /\ tokens[ip] \in Nat /\ spent[ip] \in Nat /\ mark[ip] \in Nat
          /\ Burst \in Nat
      BY BurstHoldsOne DEF RInv, RTypeOK
    <2>2. mark[ip] <= clock /\ rewound[ip] = 0
      BY DEF RInv, RewoundBounded, Forward
    <2>3. spent[ip] <= Burst + mark[ip] + rewound[ip]
      BY <2>1, <2>2 DEF RInv, BudgetPaid
    <2> QED
      BY <2>1, <2>2, <2>3
  <1> QED
    BY <1>1, <1>2, <1>3, RInductive, PTL DEF RSpec

-----------------------------------------------------------------------------
(* The burst *)

Kept == \A ip \in keys : tokens[ip] + spent[ip] >= Burst

\* Nobody is turned away before the burst is used up, whatever is evicted.
THEOREM BurstKept == RSpec => []BurstHonoured
  <1>1. RInit => Kept
    BY DEF RInit, Kept
  <1>2. RTypeOK /\ Kept /\ [RNext]_rvars => Kept'
    <2> SUFFICES ASSUME RTypeOK, Kept, [RNext]_rvars PROVE Kept'
      OBVIOUS
    <2>1. ASSUME UNCHANGED limVars PROVE Kept'
      BY <2>1 DEF limVars, Kept
    <2>2. ASSUME NEW l \in Listeners, NEW ip \in Ips, Allow(l, ip) \/ Deny(l, ip)
          PROVE  Kept'
      <3>1. PICK n, cost \in Nat : Ends(l, ip, n, cost)
        BY <2>2, CallEnds
      <3>2. keys' \subseteq Ips
        BY <3>1 DEF Ends, Leave, RTypeOK
      <3>3. ASSUME NEW i \in keys' PROVE tokens'[i] + spent'[i] >= Burst
        <4>0. i \in Ips
          BY <3>2, <3>3
        <4>1. CASE i # ip
          BY <3>1, <3>3, <4>0, <4>1, AfterCall DEF Kept
        <4>2. CASE i = ip
          <5>1. tokens'[i] = n /\ spent'[i] = spent[i] + cost
            BY <3>1, <4>0, <4>2, AfterCall
          <5>2. /\ n + cost >= Level(i, now[l])
                /\ Level(i, now[l]) \in Nat
            BY <3>1, <4>0, <4>2, RefillBounds DEF Ends, RTypeOK
          <5>3. Level(i, now[l]) + spent[i] >= Burst /\ spent[i] \in Nat
            BY <4>0, BurstHoldsOne DEF Level, Kept, RTypeOK
          <5> HIDE DEF Level
          <5> QED
            BY <3>1, <5>1, <5>2, <5>3, BurstHoldsOne
        <4> QED
          BY <4>1, <4>2
      <3> QED
        BY <3>3 DEF Kept
    <2> QED
      BY <2>1, <2>2 DEF RNext, Tick, ReadClock, rvars
  <1>3. RTypeOK /\ Kept => BurstHonoured
    <2> SUFFICES ASSUME RTypeOK, Kept, NEW ip \in Ips
                 PROVE  /\ ip \in keys => tokens[ip] + spent[ip] >= Burst
                        /\ \A l \in Listeners :
                            (call[l] = ip /\ Refilled(ip, now[l]) < Cost)
                                => spent[ip] + Cost > Burst
      BY DEF BurstHonoured
    <2>1. ASSUME NEW l \in Listeners, Refilled(ip, now[l]) < Cost
          PROVE  spent[ip] + Cost > Burst
      <3>1. /\ now[l] \in Nat /\ spent[ip] \in Nat
        BY DEF RTypeOK
      <3>2. Refilled(ip, now[l]) >= Level(ip, now[l])
        BY <3>1, RefillBounds
      <3>3. Refilled(ip, now[l]) \in Nat /\ Level(ip, now[l]) \in Nat
        BY <3>1, RefillBounds, BurstHoldsOne
      <3>4. Level(ip, now[l]) + spent[ip] >= Burst
        BY <3>1, BurstHoldsOne DEF Level, Kept
      <3> HIDE DEF Level
      <3> QED
        BY <2>1, <3>1, <3>2, <3>3, <3>4, BurstHoldsOne
    <2> QED
      BY <2>1 DEF Kept
  <1> QED
    BY <1>1, <1>2, <1>3, RTypeCorrect, PTL DEF RSpec
=============================================================================
