---------------------------- MODULE SessionProofs ----------------------------
(***************************************************************************)
(* The policy holds for every configuration, every environment and every   *)
(* behaviour of the name service, the upstream proxies and the client.     *)
(*                                                                         *)
(* The invariant says, for each place of connect_to_target, what has been  *)
(* established about the host and the addresses so far; EgressRespected,   *)
(* AuthFirst and ReplyTruthful follow from it.                             *)
(***************************************************************************)
EXTENDS Session, SequenceTheorems, WellFoundedInduction, TLAPS

Streaming == {"greeting", "authenticate", "request", "open"}

Decided == {"relookup", "dial"} \union Streaming

\* A rule forbids the host or an address it resolved to.
Refused ==
    \/ is_domain_blocked(conf, host)
    \/ \E ip \in Range(resolved) : ~check_egress_rules(conf, ip)

\* The text of an error may hold what the client or an upstream wrote.
Quotable == host \in Phrased \/ (route # NoProxy /\ route.protocol = "http")

\* What is known at each place.
Progress ==
    /\ at \in {"idle", "policy", "resolve"} => lookups = 0 /\ resolved = <<>>
    /\ at \in {"egress", "relookup"} => lookups <= 1
    /\ at \notin {"idle", "policy", "failed"} => ~is_domain_blocked(conf, host)
    /\ at \in Decided =>
        /\ \A ip \in Range(resolved) : check_egress_rules(conf, ip)
        /\ has_egress_rules(conf) => resolved # <<>>
        /\ has_egress_rules(conf) /\ route = NoProxy =>
               at # "relookup" /\ check_egress_rules(conf, dest)
    /\ at \in {"dial"} \union Streaming => dest # Nobody
    /\ at \in Streaming => peer = dest
    /\ at \in Streaming \ {"open"} => route # NoProxy
    /\ at \notin Streaming => peer = Nobody
    /\ at \notin {"failed"} => failure = "none"
    /\ at = "failed" => \/ failure = "blocked" /\ Refused
                        \/ failure = "unreachable" /\ ~Refused
                        \/ failure = "quoted" /\ ~Refused /\ Quotable

UInv == UTypeOK /\ Progress

\* Without rules every address passes.
LEMMA NoRules ==
    ASSUME NEW c, NEW ip, ~has_egress_rules(c)
    PROVE  check_egress_rules(c, ip)
  BY DEF has_egress_rules, check_egress_rules

\* An upstream is a proxy of the environment or of the configuration, or none.
LEMMA UpstreamType ==
    ASSUME NEW c \in Confs, NEW h, NEW ips, NEW s5 \in BOOLEAN, NEW sec \in BOOLEAN
    PROVE  resolve_upstream(c, h, ips, s5, sec) \in Proxies \union {NoProxy}
  <1>1. c.upstream \in Proxies \union {NoProxy}
    BY UpstreamAssumption DEF Conf
  <1>2. \A k \in EnvKeys : Env[k] \in Proxies \union {NoProxy}
    BY UpstreamAssumption
  <1>3. lookup_env_proxy(s5, sec) \in Proxies \union {NoProxy}
    BY <1>2 DEF lookup_env_proxy, FirstSet, EnvKeys
  <1> QED
    BY <1>1, <1>3 DEF resolve_upstream, FirstSet

\* A non-empty answer begins with one of its addresses.
LEMMA FirstAnswer ==
    ASSUME NEW s \in Seq(Addrs), s # <<>>
    PROVE  Head(s) \in Addrs /\ Head(s) \in Range(s)
  <1>1. Len(s) \in Nat /\ Len(s) # 0 /\ DOMAIN s = 1 .. Len(s) /\ Head(s) = s[1]
    BY EmptySeq, LenProperties
  <1>2. 1 \in DOMAIN s
    BY <1>1
  <1> QED
    BY <1>1, <1>2 DEF Range

-----------------------------------------------------------------------------
(* Addresses and prefixes.  Induction comes from the least number of a set, *)
(* and the recursive definition of pow2 is shown to have a solution.        *)

\* A set of numbers that is not empty has a least one.
LEMMA LeastNumber ==
    ASSUME NEW T, T \subseteq Nat, T # {}
    PROVE  \E x \in T : \A y \in T : ~(y < x)
  <1> DEFINE R == OpToRel(<, Nat)
  <1>1. IsWellFoundedOn(R, Nat)
    BY NatLessThanWellFounded
  <1>2. \E x \in T : \A y \in T : <<y, x>> \notin R
    BY <1>1, WFMin
  <1>3. \A x, y \in Nat : y < x => <<y, x>> \in R
    BY DEF OpToRel
  <1> QED
    BY <1>2, <1>3

\* Induction, with the property as a set.
LEMMA Induction ==
    ASSUME NEW S, 0 \in S, \A n \in Nat : n \in S => n + 1 \in S
    PROVE  Nat \subseteq S
  <1> SUFFICES ASSUME ~(Nat \subseteq S) PROVE FALSE
    OBVIOUS
  <1> DEFINE T == Nat \ S
  <1>1. T \subseteq Nat /\ T # {}
    OBVIOUS
  <1>2. PICK x \in T : \A y \in T : ~(y < x)
    BY <1>1, LeastNumber
  <1>3. x \in Nat /\ x # 0 /\ x \notin S
    OBVIOUS
  <1>4. x - 1 \in Nat /\ x - 1 < x /\ (x - 1) + 1 = x
    BY <1>3
  <1>5. x - 1 \in S
    BY <1>2, <1>4
  <1> QED
    BY <1>3, <1>4, <1>5

\* Partial tables of the powers of two.
PowerTables(n) == {g \in [0 .. n -> Nat] : /\ g[0] = 1
                                           /\ \A i \in 1 .. n : g[i] = 2 * g[i - 1]}

\* There is a table of any length ...
LEMMA TablesExist == \A n \in Nat : PowerTables(n) # {}
  <1> DEFINE S == {n \in Nat : PowerTables(n) # {}}
  <1>1. 0 \in S
    <2>1. [i \in 0 .. 0 |-> 1] \in PowerTables(0)
      BY DEF PowerTables
    <2> QED BY <2>1
  <1>2. ASSUME NEW n \in Nat, n \in S PROVE n + 1 \in S
    <2>1. PICK g \in PowerTables(n) : TRUE
      BY <1>2
    <2> DEFINE h == [i \in 0 .. n + 1 |-> IF i = n + 1 THEN 2 * g[n] ELSE g[i]]
    <2>2. g \in [0 .. n -> Nat] /\ g[0] = 1 /\ \A i \in 1 .. n : g[i] = 2 * g[i - 1]
      BY <2>1 DEF PowerTables
    <2>3. h \in [0 .. n + 1 -> Nat]
      BY <2>2
    <2>4. h[0] = 1
      BY <2>2
    <2>5. ASSUME NEW i \in 1 .. n + 1 PROVE h[i] = 2 * h[i - 1]
      BY <2>2
    <2>6. h \in PowerTables(n + 1)
      BY <2>3, <2>4, <2>5 DEF PowerTables
    <2> QED BY <2>6
  <1>3. Nat \subseteq S
    <2> HIDE DEF S
    <2> QED BY <1>1, <1>2, Induction
  <1> QED BY <1>3

\* ... and any two agree where both are defined.
LEMMA TablesAgree ==
    ASSUME NEW m \in Nat, NEW n \in Nat, NEW g \in PowerTables(m), NEW h \in PowerTables(n)
    PROVE  \A i \in Nat : i <= m /\ i <= n => g[i] = h[i]
  <1> DEFINE S == {i \in Nat : i <= m /\ i <= n => g[i] = h[i]}
  <1>1. 0 \in S
    BY DEF PowerTables
  <1>2. ASSUME NEW i \in Nat, i \in S PROVE i + 1 \in S
    <2> SUFFICES ASSUME i + 1 <= m, i + 1 <= n PROVE g[i + 1] = h[i + 1]
      OBVIOUS
    <2>1. i <= m /\ i <= n /\ i + 1 \in 1 .. m /\ i + 1 \in 1 .. n /\ (i + 1) - 1 = i
      OBVIOUS
    <2>2. g[i] = h[i]
      BY <1>2, <2>1
    <2>3. g[i + 1] = 2 * g[i] /\ h[i + 1] = 2 * h[i]
      BY <2>1 DEF PowerTables
    <2> QED BY <2>2, <2>3
  <1>3. Nat \subseteq S
    <2> HIDE DEF S
    <2> QED BY <1>1, <1>2, Induction
  <1> QED BY <1>3

\* The recursive definition of pow2 defines a function.
LEMMA PowerEquation ==
    pow2 = [n \in Nat |-> IF n = 0 THEN 1 ELSE 2 * pow2[n - 1]]
  <1> DEFINE Body(f) == [n \in Nat |-> IF n = 0 THEN 1 ELSE 2 * f[n - 1]]
             table(n) == CHOOSE g : g \in PowerTables(n)
             p == [n \in Nat |-> table(n)[n]]
  <1>1. ASSUME NEW n \in Nat PROVE table(n) \in PowerTables(n)
    BY TablesExist
  <1>2. ASSUME NEW n \in Nat PROVE p[n] = IF n = 0 THEN 1 ELSE 2 * p[n - 1]
    <2>1. CASE n = 0
      BY <1>1, <2>1 DEF PowerTables
    <2>2. CASE n # 0
      <3>1. n - 1 \in Nat /\ n \in 1 .. n /\ n - 1 <= n
        BY <2>2
      <3>2. table(n)[n] = 2 * table(n)[n - 1]
        BY <1>1, <3>1 DEF PowerTables
      <3>3. table(n)[n - 1] = table(n - 1)[n - 1]
        <4>1. table(n) \in PowerTables(n) /\ table(n - 1) \in PowerTables(n - 1)
          BY <1>1, <3>1
        <4> HIDE DEF table
        <4> QED BY <4>1, <3>1, TablesAgree
      <3>4. p[n] = table(n)[n] /\ p[n - 1] = table(n - 1)[n - 1]
        BY <3>1
      <3> HIDE DEF p, table
      <3> QED BY <2>2, <3>2, <3>3, <3>4
    <2> QED BY <2>1, <2>2
  <1>3. p = Body(p)
    <2>1. p = [n \in Nat |-> p[n]]
      OBVIOUS
    <2> HIDE DEF p
    <2> QED BY <1>2, <2>1
  <1>4. \E f : f = Body(f)
    <2> HIDE DEF p
    <2> QED BY <1>3
  <1>5. pow2 = CHOOSE f : f = Body(f)
    BY DEF pow2
  <1>6. pow2 = Body(pow2)
    <2> HIDE DEF Body
    <2> QED BY <1>4, <1>5
  <1> QED BY <1>6

\* A power of two is a positive number.
LEMMA PowerType == pow2 \in [Nat -> Nat \ {0}]
  <1> DEFINE S == {n \in Nat : pow2[n] \in Nat \ {0}}
  <1>1. \A n \in Nat : pow2[n] = IF n = 0 THEN 1 ELSE 2 * pow2[n - 1]
    BY PowerEquation
  <1>2. 0 \in S
    BY <1>1
  <1>3. ASSUME NEW n \in Nat, n \in S PROVE n + 1 \in S
    <2>1. pow2[n + 1] = 2 * pow2[n]
      BY <1>1
    <2> QED BY <1>3, <2>1
  <1>4. Nat \subseteq S
    <2> HIDE DEF S
    <2> QED BY <1>2, <1>3, Induction
  <1> QED BY <1>4, PowerEquation

\* What the proofs below use of pow2.
LEMMA Powers ==
    /\ pow2[0] = 1
    /\ \A n \in Nat : pow2[n] \in Nat \ {0} /\ pow2[n + 1] = 2 * pow2[n]
  <1>1. \A n \in Nat : pow2[n] = IF n = 0 THEN 1 ELSE 2 * pow2[n - 1]
    BY PowerEquation
  <1> QED BY <1>1, PowerType
\* Quotient and remainder.
LEMMA Division ==
    ASSUME NEW x \in Nat, NEW d \in Nat \ {0}
    PROVE  /\ x \div d \in Nat
           /\ x % d \in Nat
           /\ x = d * (x \div d) + (x % d)
           /\ x % d < d
  OBVIOUS

\* A larger factor makes the product larger by at least the other one.
LEMMA Products ==
    ASSUME NEW d \in Nat \ {0}, NEW q \in Nat, NEW s \in Nat, q < s
    PROVE  d * q + d <= d * s
  <1>1. d * s - d * q = d * (s - q)
    OBVIOUS
  <1>2. s - q >= 1
    OBVIOUS
  <1>3. d * (s - q) >= d
    BY <1>2
  <1> QED BY <1>1, <1>3

\* They are unique.
LEMMA Quotient ==
    ASSUME NEW d \in Nat \ {0}, NEW q \in Nat, NEW s \in Nat, NEW r \in Nat, NEW t \in Nat,
           r < d, t < d, d * q + r = d * s + t
    PROVE  q = s
  <1>1. ASSUME q < s PROVE FALSE
    <2>1. d * q + d <= d * s
      BY <1>1, Products
    <2> QED BY <2>1
  <1>2. ASSUME s < q PROVE FALSE
    <2>1. d * s + d <= d * q
      BY <1>2, Products
    <2> QED BY <2>1
  <1> QED BY <1>1, <1>2

\* One bit less to drop is one bit more of the quotient.
LEMMA Halving ==
    ASSUME NEW x \in Nat, NEW d \in Nat \ {0}
    PROVE  x \div d = 2 * (x \div (2 * d)) + ((x \div d) % 2)
  <1> DEFINE q == x \div d
             r == x % d
             h == q \div 2
             b == q % 2
             e == 2 * d
  <1>1. /\ q \in Nat /\ r \in Nat /\ x = d * q + r /\ r < d
    BY Division
  <1>2. h \in Nat /\ b \in {0, 1} /\ q = 2 * h + b
    BY <1>1
  <1>3. e \in Nat \ {0}
    OBVIOUS
  <1>4. x \div e \in Nat /\ x % e \in Nat /\ x = e * (x \div e) + (x % e) /\ x % e < e
    <2> HIDE DEF e
    <2> QED BY <1>3, Division
  <1>5. d * b + r \in Nat /\ d * b + r < e
    <2> HIDE DEF b, r
    <2> QED BY <1>1, <1>2
  <1>6. x = e * h + (d * b + r)
    <2>1. d * q = d * (2 * h) + d * b
      <3> HIDE DEF b, h, q
      <3> QED BY <1>1, <1>2
    <2>2. d * (2 * h) = e * h
      <3> HIDE DEF h
      <3> QED BY <1>2
    <2> HIDE DEF q, r, h, b, e
    <2> QED BY <1>1, <1>2, <1>3, <2>1, <2>2
  <1>7. h = x \div e
    <2> DEFINE k == d * b + r
               z == x \div e
               y == x % e
    <2>1. k \in Nat /\ z \in Nat /\ y \in Nat /\ k < e /\ y < e /\ e * h + k = e * z + y
      BY <1>4, <1>5, <1>6
    <2> HIDE DEF k, z, y, h, e
    <2>2. h = z
      BY <1>2, <1>3, <2>1, Quotient
    <2> QED BY <2>2 DEF z
  <1> QED BY <1>2, <1>7

\* Two addresses of w bits have the same first p bits one by one exactly if
\* they are equal without the others.
LEMMA PrefixBits ==
    ASSUME NEW w \in Nat, NEW x \in 0 .. pow2[w] - 1, NEW y \in 0 .. pow2[w] - 1
    PROVE  \A p \in Nat : p <= w =>
               (x \div pow2[w - p] = y \div pow2[w - p]
                <=> \A i \in 1 .. p : (x \div pow2[w - i]) % 2 = (y \div pow2[w - i]) % 2)
  <1> DEFINE Same(p) == x \div pow2[w - p] = y \div pow2[w - p]
             Agree(i) == (x \div pow2[w - i]) % 2 = (y \div pow2[w - i]) % 2
             S == {p \in Nat : p <= w => (Same(p) <=> \A i \in 1 .. p : Agree(i))}
  <1>1. x \in Nat /\ y \in Nat
    BY Powers
  <1>2. x \div pow2[w] = 0 /\ y \div pow2[w] = 0
    <2> DEFINE d == pow2[w]
    <2>1. d \in Nat \ {0} /\ x < d /\ y < d
      BY Powers
    <2>2. ASSUME NEW z \in Nat, z < d PROVE z \div d = 0
      <3> HIDE DEF d
      <3>1. z \div d \in Nat /\ z % d \in Nat /\ z % d < d /\ z = d * (z \div d) + (z % d)
        BY <2>1, Division
      <3>2. z = d * 0 + z
        BY <2>1
      <3> QED
        BY <2>1, <2>2, <3>1, <3>2, Quotient
    <2> QED
      BY <1>1, <2>1, <2>2
  <1>3. 0 \in S
    BY <1>2
  <1>4. ASSUME NEW p \in Nat, p \in S PROVE p + 1 \in S
    <2> SUFFICES ASSUME p + 1 <= w
                 PROVE  Same(p + 1) <=> \A i \in 1 .. p + 1 : Agree(i)
      OBVIOUS
    <2> DEFINE d == pow2[w - (p + 1)]
    <2>1. w - (p + 1) \in Nat /\ w - p = (w - (p + 1)) + 1
      OBVIOUS
    <2>2. d \in Nat \ {0} /\ pow2[w - p] = 2 * d
      BY <2>1, Powers
    <2>3. /\ x \div d = 2 * (x \div (2 * d)) + ((x \div d) % 2)
          /\ y \div d = 2 * (y \div (2 * d)) + ((y \div d) % 2)
      <3> HIDE DEF d
      <3> QED
        BY <1>1, <2>2, Halving
    <2>4. Same(p + 1) <=> Same(p) /\ Agree(p + 1)
      <3> DEFINE a == x \div d
                 b == y \div d
                 e == x \div (2 * d)
                 f == y \div (2 * d)
      <3>1. a \in Nat /\ b \in Nat
        <4> HIDE DEF d
        <4> QED
          BY <1>1, <2>2, Division
      <3>2. e \in Nat /\ f \in Nat
        <4> DEFINE c == 2 * d
        <4>1. c \in Nat \ {0}
          BY <2>2
        <4> HIDE DEF c
        <4>2. x \div c \in Nat /\ y \div c \in Nat
          BY <1>1, <4>1, Division
        <4> QED
          BY <4>2 DEF c
      <3>3. a = 2 * e + (a % 2) /\ b = 2 * f + (b % 2)
        BY <2>3
      <3>4. a = b <=> e = f /\ a % 2 = b % 2
        <4> HIDE DEF a, b, e, f
        <4> QED
          BY <3>1, <3>2, <3>3
      <3> QED
        BY <2>2, <3>4
    <2>5. Same(p) <=> \A i \in 1 .. p : Agree(i)
      BY <1>4
    <2> HIDE DEF Same, Agree
    <2>6. (\A i \in 1 .. p + 1 : Agree(i)) <=> (\A i \in 1 .. p : Agree(i)) /\ Agree(p + 1)
      <3>1. 1 .. p + 1 = (1 .. p) \union {p + 1}
        OBVIOUS
      <3> QED
        BY <3>1
    <2> QED
      BY <2>4, <2>5, <2>6
  <1>5. Nat \subseteq S
    <2> HIDE DEF S
    <2> QED
      BY <1>3, <1>4, Induction
  <1> QED
    BY <1>5

\* Masking keeps the quotient and nothing else.
LEMMA MaskKeeps ==
    ASSUME NEW w \in Nat, NEW x \in 0 .. pow2[w] - 1, NEW y \in 0 .. pow2[w] - 1,
           NEW p \in 1 .. w
    PROVE  masked(x, w, p) = masked(y, w, p) <=> x \div pow2[w - p] = y \div pow2[w - p]
  <1> DEFINE d == pow2[w - p]
  <1>1. d \in Nat \ {0} /\ x \in Nat /\ y \in Nat
    BY Powers
  <1>2. masked(x, w, p) = x - (x % d) /\ masked(y, w, p) = y - (y % d)
    BY DEF masked
  <1> HIDE DEF d
  <1>3. ASSUME NEW z \in Nat
        PROVE  z - (z % d) = d * (z \div d) /\ z \div d \in Nat
    BY <1>1, Division
  <1>4. ASSUME NEW q \in Nat, NEW s \in Nat
        PROVE  d * q = d * s <=> q = s
    <2>1. d * q = d * q + 0 /\ d * s = d * s + 0
      BY <1>1
    <2> QED
      BY <1>1, <2>1, Quotient
  <1> QED
    BY <1>1, <1>2, <1>3, <1>4 DEF d

\* match_cidr decides membership in the block an entry denotes, for families of
\* any width: no prefix length, /0 and the full length included, and no base
\* that is not aligned matches an address too many or too few.
THEOREM MatchExact ==
    ASSUME NEW ip \in IpAddr, NEW e \in Networks
    PROVE  match_cidr(ip, e) <=> InNetwork(ip, e)
  <1>1. CASE e.kind = "address"
    BY <1>1 DEF match_cidr, InNetwork
  <1>2. CASE e.kind = "block" /\ ip.family = e.base.family /\ e.prefix <= Width[ip.family]
    <2> DEFINE w == Width[ip.family]
               x == ip.bits
               y == e.base.bits
               p == e.prefix
    <2>1. e.base \in IpAddr /\ p \in Nat
      BY <1>2 DEF Networks
    <2>2. w \in Nat /\ x \in 0 .. pow2[w] - 1 /\ y \in 0 .. pow2[w] - 1
      BY <1>2, <2>1, WidthAssumption DEF IpAddr
    <2>3. match_cidr(ip, e) <=> masked(x, w, p) = masked(y, w, p)
      BY <1>2 DEF match_cidr
    <2>4. InNetwork(ip, e) <=>
              \A i \in 1 .. p : (x \div pow2[w - i]) % 2 = (y \div pow2[w - i]) % 2
      BY <1>2 DEF InNetwork, Bit
    <2>5. p <= w
      BY <1>2
    <2> HIDE DEF w, x, y, p
    <2>6. CASE p = 0
      BY <2>3, <2>4, <2>6 DEF masked
    <2>7. CASE p # 0
      <3>1. p \in 1 .. w
        BY <2>1, <2>2, <2>5, <2>7
      <3>2. masked(x, w, p) = masked(y, w, p) <=> x \div pow2[w - p] = y \div pow2[w - p]
        BY <2>2, <3>1, MaskKeeps
      <3>3. x \div pow2[w - p] = y \div pow2[w - p]
            <=> \A i \in 1 .. p : (x \div pow2[w - i]) % 2 = (y \div pow2[w - i]) % 2
        BY <2>1, <2>2, <2>5, PrefixBits
      <3> QED
        BY <2>3, <2>4, <3>2, <3>3
    <2> QED
      BY <2>6, <2>7
  <1>3. CASE e.kind = "block" /\ ~(ip.family = e.base.family /\ e.prefix <= Width[ip.family])
    BY <1>3 DEF match_cidr, InNetwork
  <1>4. e.kind = "address" \/ e.kind = "block"
    BY DEF Networks
  <1> QED
    BY <1>1, <1>2, <1>3, <1>4

-----------------------------------------------------------------------------
(* connect_to_target *)

\* The initial state promises nothing.
LEMMA UInvInit == UInit => UInv
  <1> SUFFICES ASSUME UInit PROVE UInv
    OBVIOUS
  <1>0. resolved \in Seq(Addrs) /\ lookups \in 0 .. 2 /\ at \in Places
    BY EmptySeq DEF UInit, Places
  <1>1. UTypeOK
    BY <1>0 DEF UInit, UTypeOK
  <1>2. Progress
    BY DEF UInit, Progress, Decided, Streaming
  <1> QED
    BY <1>1, <1>2 DEF UInv

\* The call itself.
LEMMA CallStep ==
    ASSUME UInv, NEW h \in Hosts, NEW sec \in BOOLEAN, Call(h, sec)
    PROVE  UInv'
  BY DEF Call, UInv, UTypeOK, Progress, Places, Decided, Streaming

\* Each step establishes what the next place relies on.
LEMMA ConnectingStep ==
    ASSUME UInv, Connecting
    PROVE  UInv'
  <1>t. UTypeOK /\ Progress
    BY DEF UInv
  <1>1. CASE CheckDomain
    <2>1. UTypeOK'
      BY <1>1, <1>t DEF CheckDomain, Fail, UTypeOK, Places
    <2>2. Progress'
      <3>1. CASE is_domain_blocked(conf, host)
        BY <1>1, <1>t, <3>1
        DEF CheckDomain, Fail, Progress, Decided, Streaming, Refused, is_domain_blocked
      <3>2. CASE ~is_domain_blocked(conf, host)
        BY <1>1, <1>t, <3>2 DEF CheckDomain, Progress, Decided, Streaming, is_domain_blocked
      <3> QED
        BY <3>1, <3>2
    <2> QED
      BY <2>1, <2>2 DEF UInv
  <1>2. CASE SkipLookup
    <2>1. UTypeOK'
      BY <1>2, <1>t, EmptySeq DEF SkipLookup, UTypeOK, Places
    <2>2. Progress'
      BY <1>2, <1>t DEF SkipLookup, Progress, Decided, Streaming, is_domain_blocked
    <2> QED
      BY <2>1, <2>2 DEF UInv
  <1>3. ASSUME NEW a \in Answers, Lookup(a)
        PROVE  UInv'
    <2>1. UTypeOK'
      BY <1>3, <1>t, UpstreamAssumption DEF Lookup, UTypeOK, Places, Progress
    <2>2. Progress'
      BY <1>3, <1>t DEF Lookup, Progress, Decided, Streaming, is_domain_blocked
    <2> QED
      BY <2>1, <2>2 DEF UInv
  <1>4. ASSUME NEW a \in Answers, LookupAgain(a)
        PROVE  UInv'
    <2>0. a \in Seq(Addrs)
      BY UpstreamAssumption
    <2>1. UTypeOK'
      BY <1>4, <1>t, <2>0, FirstAnswer
      DEF LookupAgain, Fail, NotResolved, UTypeOK, Places, Progress, Hosts
    <2>2. ~Refused
      BY <1>4, <1>t DEF LookupAgain, Progress, Decided, Refused
    <2>3. Progress'
      <3>1. CASE a = <<>>
        BY <1>4, <1>t, <2>2, <3>1
        DEF LookupAgain, Fail, NotResolved, Quotable, Progress, Decided, Streaming, Refused,
            is_domain_blocked, check_egress_rules
      <3>2. CASE a # <<>>
        <4>1. Head(a) # Nobody
          BY <2>0, <3>2, FirstAnswer, UpstreamAssumption DEF Hosts
        <4>2. dest' = Head(a) /\ at' = "dial" /\ lookups' = lookups + 1 /\ at = "relookup"
              /\ UNCHANGED <<conf, host, resolved, route, peer, failure>>
          BY <1>4, <3>2 DEF LookupAgain
        <4>3. ~(has_egress_rules(conf) /\ route = NoProxy)
          BY <1>t, <4>2 DEF Progress, Decided
        <4> QED
          BY <1>t, <4>1, <4>2, <4>3
          DEF Progress, Decided, Streaming, is_domain_blocked, check_egress_rules, has_egress_rules
      <3> QED
        BY <3>1, <3>2
    <2> QED
      BY <2>1, <2>3 DEF UInv
  <1>5. CASE Refuse
    <2>1. UTypeOK'
      BY <1>5, <1>t DEF Refuse, Fail, NotResolved, UTypeOK, Places
    <2>2. Progress'
      <3>1. CASE resolved = <<>>
        <4>1. Range(resolved) = {}
          BY <3>1 DEF Range
        <4> QED
          BY <1>5, <1>t, <3>1, <4>1
          DEF Refuse, Fail, NotResolved, Quotable, Progress, Decided, Streaming, Refused,
              is_domain_blocked
      <3>2. CASE resolved # <<>>
        <4>1. Refused
          BY <1>5, <3>2 DEF Refuse, Permitted, Refused
        <4> QED
          BY <1>5, <1>t, <3>2, <4>1
          DEF Refuse, Fail, Progress, Decided, Streaming, Refused, is_domain_blocked,
              check_egress_rules
      <3> QED
        BY <3>1, <3>2
    <2> QED
      BY <2>1, <2>2 DEF UInv
  <1>6. CASE Route
    <2>0. /\ at = "egress"
          /\ has_egress_rules(conf) => resolved # <<>> /\ Permitted(conf, resolved)
          /\ dest' = IF route' = NoProxy THEN DirectDest ELSE route'.address
          /\ at' = IF dest' = Nobody THEN "relookup" ELSE "dial"
          /\ UNCHANGED <<conf, socks5, host, secure, resolved, peer, failure, lookups>>
      BY <1>6 DEF Route
    <2>r. route' \in Proxies \union {NoProxy}
      BY <1>6, <1>t, UpstreamType DEF Route, UTypeOK
    <2>d. dest' \in Hosts \union {Nobody}
      <3>1. CASE route' # NoProxy
        BY <2>0, <2>r, <3>1 DEF Proxies
      <3>2. CASE route' = NoProxy /\ has_egress_rules(conf)
        BY <2>0, <1>t, <3>2, FirstAnswer DEF DirectDest, UTypeOK, Hosts
      <3>3. CASE route' = NoProxy /\ ~has_egress_rules(conf)
        BY <2>0, <1>t, <3>3 DEF DirectDest, UTypeOK, Hosts
      <3> QED
        BY <3>1, <3>2, <3>3
    <2>1. UTypeOK'
      BY <1>t, <2>0, <2>r, <2>d DEF UTypeOK, Places
    <2>2. \A ip \in Range(resolved) : check_egress_rules(conf, ip)
      BY <2>0, NoRules DEF Permitted
    <2>3. ASSUME has_egress_rules(conf), route' = NoProxy
          PROVE  dest' # Nobody /\ check_egress_rules(conf, dest')
      <3>1. dest' = Head(resolved)
        BY <2>0, <2>3 DEF DirectDest
      <3>2. Head(resolved) \in Addrs /\ Head(resolved) \in Range(resolved)
        BY <2>0, <2>3, <1>t, FirstAnswer DEF UTypeOK
      <3> QED
        BY <3>1, <3>2, <2>2, UpstreamAssumption DEF Hosts
    <2>4. Progress'
      BY <1>t, <2>0, <2>2, <2>3
      DEF Progress, Decided, Streaming, is_domain_blocked, check_egress_rules, has_egress_rules
    <2> QED
      BY <2>1, <2>4 DEF UInv
  <1>7. CASE Dial
    <2>1. UTypeOK'
      BY <1>7, <1>t DEF Dial, UTypeOK, Places
    <2>2. Progress'
      BY <1>7, <1>t
      DEF Dial, Progress, Decided, Streaming, is_domain_blocked, check_egress_rules, has_egress_rules
    <2> QED
      BY <2>1, <2>2 DEF UInv
  <1>8. CASE Greeting \/ Accepted \/ HttpConnected
    <2>0. /\ at \in {"greeting", "authenticate", "request"} /\ at' \in Streaming
          /\ UNCHANGED <<conf, socks5, host, secure, resolved, route, dest, peer, failure, lookups>>
      BY <1>8 DEF Greeting, Accepted, HttpConnected, Streaming
    <2>1. UTypeOK'
      BY <2>0, <1>t DEF UTypeOK, Places, Streaming
    <2>2. Progress'
      BY <2>0, <1>t
      DEF Progress, Decided, Streaming, is_domain_blocked, check_egress_rules, has_egress_rules
    <2> QED
      BY <2>1, <2>2 DEF UInv
  <1>9. CASE Unreachable
    <2>1. UTypeOK'
      BY <1>9, <1>t DEF Unreachable, Fail, UTypeOK, Places
    <2>2. ~Refused
      BY <1>9, <1>t DEF Unreachable, Progress, Decided, Streaming, Refused
    <2>3. Progress'
      <3>1. (Quotable' <=> Quotable) /\ ~Refused'
        BY <1>9, <2>2
        DEF Unreachable, Quotable, Refused, is_domain_blocked, check_egress_rules
      <3>2. failure' = "unreachable" \/ (failure' = "quoted" /\ Quotable)
        <4>1. at = "greeting" => route # NoProxy
          BY <1>t DEF Progress, Streaming
        <4> QED
          BY <1>9, <4>1 DEF Unreachable, Fail, Quotable
      <3>3. at' = "failed" /\ peer' = Nobody
        BY <1>9 DEF Unreachable, Fail
      <3> QED
        BY <3>1, <3>2, <3>3 DEF Progress, Decided, Streaming
    <2> QED
      BY <2>1, <2>3 DEF UInv
  <1> QED
    BY <1>1, <1>2, <1>3, <1>4, <1>5, <1>6, <1>7, <1>8, <1>9 DEF Connecting

\* The rules follow from what is known while a stream is open.
LEMMA UInvImplies == UInv => EgressRespected
  BY DEF UInv, Progress, EgressRespected, Decided, Streaming

\* The invariant of connect_to_target.
LEMMA UInductive == USpec => []UInv
  <1>1. UInv /\ [UNext]_connectVars => UInv'
    <2> SUFFICES ASSUME UInv, [UNext]_connectVars PROVE UInv'
      OBVIOUS
    <2>1. CASE UNCHANGED connectVars
      BY <2>1
      DEF connectVars, UInv, UTypeOK, Progress, Refused, Quotable, is_domain_blocked, check_egress_rules,
          has_egress_rules
    <2> QED
      BY <2>1, CallStep, ConnectingStep DEF UNext
  <1> QED
    BY <1>1, UInvInit, PTL DEF USpec

\* No stream is opened for a host the rules forbid, and a direct one only to an
\* address they allow.
THEOREM PolicyHolds == USpec => []EgressRespected
  BY UInductive, UInvImplies, PTL

\* A second lookup is left to a direct connection without egress rules, and a
\* first one was made only for rules or exclusions by address.
LookupInv ==
    /\ at = "relookup" => ~has_egress_rules(conf)
    /\ at \in {"egress", "relookup"} /\ ~has_egress_rules(conf) /\ ~has_ip_exclusions(conf) =>
           lookups = 0
    /\ has_egress_rules(conf) \/ ~has_ip_exclusions(conf) => lookups <= 1

LEMMA LookupStep ==
    ASSUME UInv, LookupInv, [UNext]_connectVars
    PROVE  LookupInv'
  <1> DEFINE Rules == has_egress_rules(conf)
             Exclusions == has_ip_exclusions(conf)
  <1>1. lookups \in 0 .. 2 /\ host \in Hosts \union {Nobody} /\ (at # "idle" => host \in Hosts)
    BY DEF UInv, UTypeOK
  <1>2. ASSUME conf' = conf PROVE Rules' = Rules /\ Exclusions' = Exclusions
    BY <1>2 DEF has_egress_rules, has_ip_exclusions
  <1>3. CASE SkipLookup
    <2>1. conf' = conf /\ at' = "egress" /\ lookups' = 0
      BY <1>3 DEF SkipLookup, UInv, Progress
    <2> QED
      BY <1>2, <2>1 DEF LookupInv
  <1>4. ASSUME NEW a \in Answers, Lookup(a) PROVE LookupInv'
    <2>1. conf' = conf /\ at' = "egress" /\ lookups' = 1 /\ (Exclusions \/ Rules)
      BY <1>4 DEF Lookup, UInv, Progress
    <2> QED
      BY <1>2, <2>1 DEF LookupInv
  <1>5. ASSUME NEW a \in Answers, LookupAgain(a) PROVE LookupInv'
    <2>1. conf' = conf /\ at = "relookup" /\ at' \in {"dial", "failed"} /\ lookups' = lookups + 1
      BY <1>5 DEF LookupAgain, Fail
    <2> QED
      BY <1>1, <1>2, <2>1 DEF LookupInv
  <1>6. CASE Route
    <2>1. conf' = conf /\ at = "egress" /\ lookups' = lookups
      BY <1>6 DEF Route
    <2>2. at' = "relookup" => ~Rules
      <3> SUFFICES ASSUME at' = "relookup", Rules PROVE FALSE
        OBVIOUS
      <3>1. dest' = Nobody /\ dest' = IF route' = NoProxy THEN DirectDest ELSE route'.address
        BY <1>6 DEF Route
      <3>2. route' \in Proxies \union {NoProxy}
        <4>1. conf \in Confs /\ socks5 \in BOOLEAN /\ secure \in BOOLEAN
          BY DEF UInv, UTypeOK
        <4> QED
          BY <1>6, <4>1, UpstreamType DEF Route
      <3>3. Nobody \notin Hosts
        BY UpstreamAssumption
      <3>4. route' = NoProxy
        BY <3>1, <3>2, <3>3 DEF Proxies
      <3>5. resolved \in Seq(Addrs) /\ resolved # <<>>
        BY <1>6 DEF Route, UInv, UTypeOK
      <3>6. DirectDest = Head(resolved)
        BY DEF DirectDest
      <3> QED
        BY <3>1, <3>3, <3>4, <3>5, <3>6, FirstAnswer DEF Hosts
    <2>3. at' \in {"relookup", "dial"}
      BY <1>6 DEF Route
    <2> QED
      BY <1>2, <2>1, <2>2, <2>3 DEF LookupInv
  <1>7. CASE \/ \E h \in Hosts, sec \in BOOLEAN : Call(h, sec)
             \/ CheckDomain \/ Refuse \/ Dial \/ Greeting \/ Accepted \/ HttpConnected
             \/ Unreachable
    <2>1. /\ conf' = conf /\ lookups' = lookups
          /\ at' \notin {"egress", "relookup"}
      BY <1>7 DEF Call, CheckDomain, Refuse, Dial, Greeting, Accepted, HttpConnected,
                  Unreachable, Fail
    <2> QED
      BY <1>2, <2>1 DEF LookupInv
  <1>8. CASE UNCHANGED connectVars
    <2>1. conf' = conf /\ lookups' = lookups /\ at' = at
      BY <1>8 DEF connectVars
    <2> QED
      BY <1>2, <2>1 DEF LookupInv
  <1> QED
    BY <1>3, <1>4, <1>5, <1>6, <1>7, <1>8 DEF UNext, Connecting

\* Where the comment at upstream.rs:529 is right: with egress rules, or without
\* exclusions by address, a target is looked up at most once, so that what was
\* checked is what is connected to.
THEOREM ResolvedOnceWithRules ==
    USpec => [](has_egress_rules(conf) \/ ~has_ip_exclusions(conf) => ResolvedOnce)
  <1>1. UInit => LookupInv
    BY DEF UInit, LookupInv
  <1>2. UInv /\ LookupInv /\ [UNext]_connectVars => LookupInv'
    BY LookupStep
  <1>3. LookupInv => (has_egress_rules(conf) \/ ~has_ip_exclusions(conf) => ResolvedOnce)
    BY DEF LookupInv, ResolvedOnce
  <1> QED
    BY <1>1, <1>2, <1>3, UInductive, PTL DEF USpec

\* The entries of every list of networks mean what their notation says.
LEMMA RulesMean == ASSUME conf \in Confs PROVE RulesExact
  <1>1. conf \in Conf
    BY UpstreamAssumption
  <1>2. \A e \in conf.allowed_egress \union conf.blocked_egress \union conf.exclude_networks :
            e \in Networks
    BY <1>1 DEF Conf
  <1> QED
    BY <1>2, MatchExact DEF RulesExact

-----------------------------------------------------------------------------
(* The session around it *)

Early == {"handshake", "credentials", "auth_reply", "request", "head", "validate", "deny",
          "target"}

Passed == {"request", "target", "connect", "relay"}

\* Before the call of connect_to_target it has done nothing; whoever gets past
\* authentication was accepted; and an answer matches the result.
Protocol ==
    /\ phase \in Phases
    /\ phase \in Early => at = "idle"
    /\ phase \in Early \union {"connect"} => reply = "none"
    /\ conf.auth /\ (phase \in Passed \/ at # "idle") => verdict = "valid"
    /\ reply = "success" => at = "open"
    /\ reply = "not_allowed" => at = "failed" /\ failure \in {"blocked", "quoted"}
    /\ reply = "unreachable" => at = "failed" /\ failure = "unreachable"

SInv == UInv /\ Protocol

\* Steps of the client's side leave connect_to_target alone.
LEMMA Untouched ==
    ASSUME UInv, UNCHANGED connectVars
    PROVE  UInv'
  BY DEF connectVars, UInv, UTypeOK, Progress, Refused, Quotable, is_domain_blocked, check_egress_rules,
         has_egress_rules

\* A step of connect_to_target neither calls it again nor undoes its end.
LEMMA ConnectingMoves ==
    ASSUME Connecting
    PROVE  at # "idle" /\ at \notin {"open", "failed"} /\ conf' = conf
  BY DEF Connecting, CheckDomain, SkipLookup, Lookup, LookupAgain, Refuse, Route, Dial, Greeting,
         Accepted, HttpConnected, Unreachable

\* The order of the protocol survives every step.
LEMMA SessionStep ==
    ASSUME SInv, [SNext]_svars
    PROVE  SInv'
  <1>t. UInv /\ Protocol
    BY DEF SInv
  <1>1. ASSUME NEW methods \in SUBSET AuthMethods, handle_handshake(methods)
        PROVE  SInv'
    <2>1. UInv'
      BY <1>1, <1>t, Untouched DEF handle_handshake
    <2>2. /\ phase = "handshake" /\ UNCHANGED <<at, conf, verdict, failure>>
          /\ \/ phase' = "credentials" /\ reply' = reply
             \/ phase' = "request" /\ reply' = reply /\ ~conf.auth
             \/ phase' = "closed" /\ reply' = "no_method"
      BY <1>1 DEF handle_handshake, selected_method, connectVars
    <2>3. Protocol'
      BY <2>2, <1>t DEF Protocol, Phases, Early, Passed
    <2> QED
      BY <2>1, <2>3 DEF SInv
  <1>2. ASSUME NEW v \in {"valid", "invalid", "error"}, handle_user_pass_auth(v) \/ validate_auth(v)
        PROVE  SInv'
    <2>1. UInv'
      BY <1>2, <1>t, Untouched DEF handle_user_pass_auth, validate_auth
    <2>2. /\ phase \in {"credentials", "validate"} /\ UNCHANGED <<at, conf, reply, failure>>
          /\ phase' \in {"auth_reply", "deny", "target"}
          /\ phase' = "target" => verdict' = "valid"
      BY <1>2 DEF handle_user_pass_auth, validate_auth, connectVars
    <2>3. Protocol'
      BY <2>2, <1>t DEF Protocol, Phases, Early, Passed
    <2> QED
      BY <2>1, <2>3 DEF SInv
  <1>3. CASE AuthReply \/ ValidateOffline \/ Deny
    <2>1. UInv'
      BY <1>3, <1>t, Untouched DEF AuthReply, ValidateOffline, Deny
    <2>2. /\ phase \in {"auth_reply", "validate", "deny"} /\ UNCHANGED <<at, conf, verdict, failure>>
          /\ \/ phase' = "request" /\ verdict = "valid" /\ reply' = reply
             \/ phase' = "target" /\ ~conf.auth /\ reply' = reply
             \/ phase' = "deny" /\ reply' = reply
             \/ phase' = "closed" /\ reply' = "auth_required"
      BY <1>3 DEF AuthReply, ValidateOffline, Deny, Close, connectVars
    <2>3. Protocol'
      BY <2>2, <1>t DEF Protocol, Phases, Early, Passed
    <2> QED
      BY <2>1, <2>3 DEF SInv
  <1>4. ASSUME NEW b \in 1 .. 4, NEW h \in Hosts, NEW sec \in BOOLEAN,
               handle_request(b, h, sec) \/ HttpTarget(h, sec)
        PROVE  SInv'
    <2>1. CASE Call(h, sec) /\ phase \in {"request", "target"} /\ phase' = "connect"
               /\ UNCHANGED <<reply, verdict>>
      <3>1. UInv'
        BY <2>1, <1>t, CallStep
      <3>2. Protocol'
        BY <2>1, <1>t DEF Call, Protocol, Phases, Early, Passed
      <3> QED
        BY <3>1, <3>2 DEF SInv
    <2>2. CASE UNCHANGED connectVars /\ phase = "request" /\ phase' = "closed"
               /\ reply' = "unsupported" /\ verdict' = verdict
      <3>1. UInv'
        BY <2>2, <1>t, Untouched
      <3>2. Protocol'
        BY <2>2, <1>t DEF connectVars, Protocol, Phases, Early, Passed
      <3> QED
        BY <3>1, <3>2 DEF SInv
    <2> QED
      BY <1>4, <2>1, <2>2 DEF handle_request, HttpTarget, Close
  <1>5. ASSUME NEW m \in {"CONNECT", "regular"}, handle_http_request(m)
        PROVE  SInv'
    <2>1. UInv'
      BY <1>5, <1>t, Untouched DEF handle_http_request
    <2>2. Protocol'
      BY <1>5, <1>t DEF handle_http_request, connectVars, Protocol, Phases, Early, Passed
    <2> QED
      BY <2>1, <2>2 DEF SInv
  <1>6. CASE Connect
    <2>1. UInv'
      BY <1>6, <1>t, ConnectingStep DEF Connect
    <2>2. Protocol'
      BY <1>6, <1>t, ConnectingMoves DEF Connect, clientVars, Protocol, Phases, Early, Passed
    <2> QED
      BY <2>1, <2>2 DEF SInv
  <1>7. CASE ReportFailure
    <2>1. UInv'
      BY <1>7, <1>t, Untouched DEF ReportFailure
    <2>2. failure \in {"blocked", "unreachable", "quoted"}
      BY <1>7, <1>t DEF ReportFailure, UInv, Progress
    <2>3. Protocol'
      BY <1>7, <1>t, <2>2
      DEF ReportFailure, Close, reply_code, connectVars, Protocol, Phases, Early, Passed
    <2> QED
      BY <2>1, <2>3 DEF SInv
  <1>8. CASE Established
    <2>1. UInv'
      BY <1>8, <1>t, Untouched DEF Established
    <2>2. Protocol'
      BY <1>8, <1>t DEF Established, connectVars, Protocol, Phases, Early, Passed
    <2> QED
      BY <2>1, <2>2 DEF SInv
  <1>9. CASE Relay
    <2>1. UInv'
      BY <1>9, <1>t, Untouched DEF Relay
    <2>2. Protocol'
      BY <1>9, <1>t DEF Relay, connectVars, Protocol
    <2> QED
      BY <2>1, <2>2 DEF SInv
  <1>10. CASE RelayEnds \/ StreamFails \/ Timeout
    <2>1. UInv'
      BY <1>10, <1>t, Untouched DEF RelayEnds, StreamFails, Timeout
    <2>2. phase' = "closed" /\ UNCHANGED <<verdict, reply, connectVars>>
      BY <1>10 DEF RelayEnds, StreamFails, Timeout, Close
    <2>3. Protocol'
      BY <2>2, <1>t DEF connectVars, Protocol, Phases, Early, Passed
    <2> QED
      BY <2>1, <2>3 DEF SInv
  <1>11. CASE UNCHANGED svars
    <2>1. UInv'
      BY <1>11, <1>t, Untouched DEF svars
    <2>2. Protocol'
      BY <1>11, <1>t DEF svars, clientVars, connectVars, Protocol
    <2> QED
      BY <2>1, <2>2 DEF SInv
  <1>12. ASSUME NEW h \in Hosts, NEW sec \in BOOLEAN, HttpTarget(h, sec)
         PROVE  SInv'
    BY <1>4, <1>12
  <1> QED
    BY <1>1, <1>2, <1>3, <1>4, <1>5, <1>6, <1>7, <1>8, <1>9, <1>10, <1>11, <1>12 DEF SNext

\* The invariant of a session.
LEMMA SInductive == SSpec => []SInv
  <1>1. SInit => SInv
    <2> SUFFICES ASSUME SInit PROVE SInv
      OBVIOUS
    <2>1. UInv
      BY UInvInit DEF SInit
    <2>2. Protocol
      BY DEF SInit, UInit, Protocol, Phases, Early, Passed
    <2> QED
      BY <2>1, <2>2 DEF SInv
  <1>2. SInv /\ [SNext]_svars => SInv'
    BY SessionStep
  <1> QED
    BY <1>1, <1>2, PTL DEF SSpec

\* A session is one call of connect_to_target and steps that leave it alone, so
\* what holds of the call alone holds in a session: the handlers of socks5.rs and
\* http_proxy.rs neither call it twice nor touch its state.
THEOREM SessionConnects == SSpec => USpec
  <1>1. SInit => UInit
    BY DEF SInit
  <1>2. [SNext]_svars => [UNext]_connectVars
    <2> SUFFICES ASSUME SNext PROVE UNext \/ UNCHANGED connectVars
      BY DEF svars
    <2>1. ASSUME NEW b \in 1 .. 4, NEW h \in Hosts, NEW sec \in BOOLEAN, handle_request(b, h, sec)
          PROVE  UNext \/ UNCHANGED connectVars
      BY <2>1 DEF handle_request, UNext
    <2>2. ASSUME NEW h \in Hosts, NEW sec \in BOOLEAN, HttpTarget(h, sec)
          PROVE  UNext
      BY <2>2 DEF HttpTarget, UNext
    <2>3. CASE Connect
      BY <2>3 DEF Connect, UNext
    <2>4. CASE \/ \E methods \in SUBSET AuthMethods : handle_handshake(methods)
               \/ \E v \in {"valid", "invalid", "error"} :
                     handle_user_pass_auth(v) \/ validate_auth(v)
               \/ \E m \in {"CONNECT", "regular"} : handle_http_request(m)
               \/ AuthReply \/ ValidateOffline \/ Deny \/ ReportFailure \/ Established \/ Relay
               \/ RelayEnds \/ StreamFails \/ Timeout
      BY <2>4 DEF handle_handshake, handle_user_pass_auth, validate_auth, handle_http_request,
                  AuthReply, ValidateOffline, Deny, ReportFailure, Established, Relay, RelayEnds,
                  StreamFails, Timeout
    <2> QED
      BY <2>1, <2>2, <2>3, <2>4 DEF SNext
  <1> QED
    BY <1>1, <1>2, PTL DEF SSpec, USpec

\* A failure is counted once, on the way out; the relayed bytes are counted at
\* the end of the relay or never.
Counting ==
    /\ method \in {"none", "CONNECT", "regular"}
    /\ verdict \in {"none", "valid", "invalid", "error"}
    /\ reply \in Answered
    /\ auth_failures \in 0 .. 1
    /\ phase \notin {"deny", "closed"} => auth_failures = 0
    /\ moved \in 0 .. MaxBytes
    /\ bytes \in {0, moved}
    /\ phase # "closed" => bytes = 0

\* Once the task is on its way out it counts no further failure.
LEMMA CountingStep ==
    ASSUME Counting, [SNext]_svars
    PROVE  Counting'
  <1>n. moved \in Nat /\ MaxBytes \in Nat
    BY SessionAssumption DEF Counting
  <1>1. ASSUME NEW methods \in SUBSET AuthMethods, handle_handshake(methods)
        PROVE  Counting'
    BY <1>1 DEF handle_handshake, selected_method, Counting, Answered
  <1>2. ASSUME NEW v \in {"valid", "invalid", "error"}, handle_user_pass_auth(v)
        PROVE  Counting'
    BY <1>2 DEF handle_user_pass_auth, Counting
  <1>3. ASSUME NEW v \in {"valid", "invalid", "error"}, validate_auth(v)
        PROVE  Counting'
    BY <1>3 DEF validate_auth, Counting
  <1>4. CASE AuthReply
    BY <1>4 DEF AuthReply, Close, Counting, Answered
  <1>5. ASSUME NEW b \in 1 .. 4, NEW h \in Hosts, NEW sec \in BOOLEAN, handle_request(b, h, sec)
        PROVE  Counting'
    BY <1>5 DEF handle_request, Close, Counting, Answered
  <1>6. ASSUME NEW m \in {"CONNECT", "regular"}, handle_http_request(m)
        PROVE  Counting'
    BY <1>6 DEF handle_http_request, Counting
  <1>7. CASE ValidateOffline
    BY <1>7 DEF ValidateOffline, Counting
  <1>8. CASE Deny
    BY <1>8 DEF Deny, Close, Counting, Answered
  <1>9. ASSUME NEW h \in Hosts, NEW sec \in BOOLEAN, HttpTarget(h, sec)
        PROVE  Counting'
    BY <1>9 DEF HttpTarget, Counting
  <1>10. CASE Connect
    BY <1>10 DEF Connect, clientVars, Counting
  <1>11. CASE ReportFailure
    BY <1>11 DEF ReportFailure, reply_code, Close, Counting, Answered
  <1>12. CASE Established
    BY <1>12 DEF Established, Counting, Answered
  <1>13. CASE Relay
    BY <1>13, <1>n DEF Relay, Counting
  <1>14. CASE RelayEnds
    BY <1>14, <1>n DEF RelayEnds, Close, Counting
  <1>15. CASE StreamFails \/ Timeout
    BY <1>15 DEF StreamFails, Timeout, Close, Counting
  <1>16. CASE UNCHANGED svars
    BY <1>16 DEF svars, clientVars, Counting
  <1> QED
    BY <1>1, <1>2, <1>3, <1>4, <1>5, <1>6, <1>7, <1>8, <1>9, <1>10, <1>11, <1>12, <1>13, <1>14,
       <1>15, <1>16
    DEF SNext

\* Every variable of a session keeps its type; in particular a session counts
\* at most one authentication failure, and its bytes all or not at all.
THEOREM STypeCorrect == SSpec => []STypeOK
  <1>1. SInit => Counting
    BY SessionAssumption DEF SInit, Counting, Answered
  <1>2. Counting /\ [SNext]_svars => Counting'
    BY CountingStep
  <1>3. SInv /\ Counting => STypeOK
    BY DEF SInv, UInv, Protocol, Counting, STypeOK
  <1> QED
    BY <1>1, <1>2, <1>3, SInductive, PTL DEF SSpec

\* The rules hold in a session as they do for connect_to_target alone.
THEOREM SessionPolicyHolds == SSpec => []EgressRespected
  <1>1. SInv => EgressRespected
    BY UInvImplies DEF SInv
  <1> QED
    BY <1>1, SInductive, PTL

\* The lists of networks of a session match exactly the addresses they denote.
THEOREM RulesStayExact == SSpec => []RulesExact
  <1>1. SInv => RulesExact
    BY RulesMean DEF SInv, UInv, UTypeOK
  <1> QED
    BY <1>1, SInductive, PTL

\* No client that must authenticate reaches the network before it is accepted.
THEOREM AuthComesFirst == SSpec => []AuthFirst
  <1>1. SInv => AuthFirst
    BY DEF SInv, Protocol, UInv, Progress, AuthFirst, Streaming
  <1> QED
    BY <1>1, SInductive, PTL

\* A client is offered no tunnel that is not there, and is told of every refusal
\* by a rule; the words of one reach it without a rule only in a quotation.
THEOREM RepliesTruthful == SSpec => []ReplyTruthful
  <1>1. SInv => ReplyTruthful
    <2> SUFFICES ASSUME SInv PROVE ReplyTruthful
      OBVIOUS
    <2>1. reply = "success" => peer # Nobody /\ at = "open" /\ ~Refused
      BY DEF SInv, Protocol, UInv, Progress, Decided, Streaming, Refused
    <2>2. reply = "not_allowed" => Refused \/ Quotable
      BY DEF SInv, Protocol, UInv, Progress
    <2>3. reply = "unreachable" => ~Refused
      BY DEF SInv, Protocol, UInv, Progress
    <2> QED
      BY <2>1, <2>2, <2>3 DEF ReplyTruthful, Refused, Quotable
  <1> QED
    BY <1>1, SInductive, PTL
=============================================================================
