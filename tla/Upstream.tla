------------------------------- MODULE Upstream -------------------------------
(***************************************************************************)
(* connect_to_target (upstream.rs): from a requested host to an open       *)
(* stream, directly or through an upstream proxy.  The name service is     *)
(* external and may answer every lookup differently; each await of the     *)
(* source (lookup, connect, handshake message) is a step.                  *)
(*                                                                         *)
(* A host is a name or a literal address.  An entry of a list of networks  *)
(* is one of Cidr; an entry of a list of domains is the hosts its suffix   *)
(* comparison accepts.                                                     *)
(***************************************************************************)
EXTENDS Cidr, Sequences, Functions

CONSTANTS
    Names,      \* hosts that must be looked up
    Phrased,    \* the names that contain "blocked by security policy"
    Addrs,      \* the IP addresses in play
    Confs,      \* configurations a session may hold
    Env,        \* the proxy in ALL_PROXY, HTTPS_PROXY and HTTP_PROXY, or NoProxy
    no_proxy,   \* the entries of NO_PROXY
    Answers,    \* answers of the name service; <<>> is a failed lookup
    NoProxy,    \* no upstream proxy: connect directly
    Nobody      \* no stream

Hosts == Names \union Addrs

Domains == [kind : {"domain"}, covers : SUBSET Hosts]
Entries == Networks \union Domains \union [kind : {"*"}]

\* credentials: both username and password are set.
Proxies == [protocol : {"socks5", "http"}, address : Hosts, credentials : BOOLEAN]

Conf == [auth             : BOOLEAN,
         blocked_domains  : SUBSET Domains,
         allowed_egress   : SUBSET Networks,
         blocked_egress   : SUBSET Networks,
         exclude_networks : SUBSET Networks,
         exclude_domains  : SUBSET Domains,
         prefer_env       : BOOLEAN,
         upstream         : Proxies \union {NoProxy}]

EnvKeys == {"ALL_PROXY", "HTTPS_PROXY", "HTTP_PROXY"}

ASSUME UpstreamAssumption ==
    /\ Addrs \subseteq IpAddr
    /\ Names \intersect Addrs = {}
    /\ Phrased \subseteq Names
    /\ Nobody \notin Hosts
    /\ NoProxy \notin Proxies
    /\ \A c \in Confs : c \in Conf
    /\ Env \in [EnvKeys -> Proxies \union {NoProxy}]
    /\ \A e \in no_proxy : e \in Entries
    /\ \A a \in Answers : a \in Seq(Addrs)

VARIABLES
    conf,       \* the configuration of the session, fixed at its snapshot
    socks5,     \* is_socks5_request
    host,       \* target_host
    secure,     \* target_port is 443
    at,         \* where connect_to_target is
    resolved,   \* resolved_ips
    route,      \* the upstream proxy, or NoProxy
    dest,       \* whom the stream will be opened to
    peer,       \* whom it is open to
    failure,    \* the error it returned: "none"; "blocked" by a rule; else "unreachable",
                \* or "quoted" if its text quotes the words of a rule's refusal
    lookups     \* history: lookups of the target host

connectVars == <<conf, socks5, host, secure, at, resolved, route, dest, peer, failure, lookups>>

UInit ==
    /\ conf \in Confs
    /\ socks5 \in BOOLEAN
    /\ host = Nobody
    /\ secure = FALSE
    /\ at = "idle"
    /\ resolved = <<>>
    /\ route = NoProxy
    /\ dest = Nobody
    /\ peer = Nobody
    /\ failure = "none"
    /\ lookups = 0

-----------------------------------------------------------------------------
(* The rules *)

matches_domain(h, entry) == entry.kind = "domain" /\ h \in entry.covers

is_domain_blocked(c, h) == \E e \in c.blocked_domains : matches_domain(h, e)

has_egress_rules(c) == c.allowed_egress # {} \/ c.blocked_egress # {}

check_egress_rules(c, ip) ==
    /\ \A e \in c.blocked_egress : ~ match_cidr(ip, e)
    /\ c.allowed_egress = {} \/ \E e \in c.allowed_egress : match_cidr(ip, e)

\* ips: the first resolved address, if any, and the host if it is an address.
is_excluded(c, h, ips) ==
    \/ \E e \in c.exclude_networks, ip \in ips : match_cidr(ip, e)
    \/ \E e \in c.exclude_domains : matches_domain(h, e)
    \/ \E e \in no_proxy :
        \/ e.kind = "*"
        \/ \E ip \in ips : match_cidr(ip, e)
        \/ matches_domain(h, e)

has_ip_exclusions(c) ==
    \E e \in c.exclude_networks \union no_proxy : e.kind \in {"address", "block"}

FirstSet(a, b) == IF a # NoProxy THEN a ELSE b

\* The variables are consulted in order; one unset or unusable is skipped.
lookup_env_proxy(s5, sec) ==
    LET all   == Env["ALL_PROXY"]
        https == Env["HTTPS_PROXY"]
        http  == Env["HTTP_PROXY"]
    IN  CASE s5          -> FirstSet(all, FirstSet(https, http))
          [] ~s5 /\ sec  -> FirstSet(https, FirstSet(all, http))
          [] ~s5 /\ ~sec -> FirstSet(http, all)

resolve_upstream(c, h, ips, s5, sec) ==
    IF is_excluded(c, h, ips) THEN NoProxy
    ELSE IF c.prefer_env THEN FirstSet(lookup_env_proxy(s5, sec), c.upstream)
    ELSE FirstSet(c.upstream, lookup_env_proxy(s5, sec))

\* target_ip, together with the host itself when it is an address.
KnownAddresses(h, ips) ==
    ({h} \intersect Addrs) \union (IF ips = <<>> THEN {} ELSE {Head(ips)})

-----------------------------------------------------------------------------
(* The steps *)

Fail(why) ==
    /\ at' = "failed"
    /\ failure' = why

\* The error of a lookup that found nothing, when its text holds the host.
NotResolved == IF host \in Phrased THEN "quoted" ELSE "unreachable"

\* connect_to_target is called.
Call(h, sec) ==
    /\ at = "idle"
    /\ at' = "policy"
    /\ host' = h
    /\ secure' = sec
    /\ UNCHANGED <<conf, socks5, resolved, route, dest, peer, failure, lookups>>

CheckDomain ==
    /\ at = "policy"
    /\ IF is_domain_blocked(conf, host)
       THEN Fail("blocked")
       ELSE at' = "resolve" /\ UNCHANGED failure
    /\ UNCHANGED <<conf, socks5, host, secure, resolved, route, dest, peer, lookups>>

\* A literal address needs no lookup, and without rules or exclusions by
\* address a name is not looked up here.
SkipLookup ==
    /\ at = "resolve"
    /\ host \in Addrs \/ ~(has_ip_exclusions(conf) \/ has_egress_rules(conf))
    /\ resolved' = IF host \in Addrs THEN <<host>> ELSE <<>>
    /\ at' = "egress"
    /\ UNCHANGED <<conf, socks5, host, secure, route, dest, peer, failure, lookups>>

Lookup(answer) ==
    /\ at = "resolve"
    /\ host \in Names
    /\ has_ip_exclusions(conf) \/ has_egress_rules(conf)
    /\ resolved' = answer
    /\ lookups' = lookups + 1
    /\ at' = "egress"
    /\ UNCHANGED <<conf, socks5, host, secure, route, dest, peer, failure>>

\* Every address of the answer must pass.
Permitted(c, ips) == \A ip \in Range(ips) : check_egress_rules(c, ip)

\* The rules refuse, or nothing could be resolved to check them on.
Refuse ==
    /\ at = "egress"
    /\ has_egress_rules(conf)
    /\ \/ resolved = <<>> /\ Fail(NotResolved)
       \/ resolved # <<>> /\ ~Permitted(conf, resolved) /\ Fail("blocked")
    /\ UNCHANGED <<conf, socks5, host, secure, resolved, route, dest, peer, lookups>>

\* Mutant: a name is always resolved again for the direct connection.
DirectDest_Again == IF host \in Names THEN Nobody ELSE host

\* Where a direct connection goes: the address that was checked, the literal
\* address, or not known before another lookup.
DirectDest ==
    CASE has_egress_rules(conf)                    -> Head(resolved)
      [] ~has_egress_rules(conf) /\ host \in Addrs -> host
      [] ~has_egress_rules(conf) /\ host \in Names -> Nobody

Route ==
    /\ at = "egress"
    /\ has_egress_rules(conf) => resolved # <<>> /\ Permitted(conf, resolved)
    /\ route' = resolve_upstream(conf, host, KnownAddresses(host, resolved), socks5, secure)
    /\ dest' = IF route' = NoProxy THEN DirectDest ELSE route'.address
    /\ at' = IF dest' = Nobody THEN "relookup" ELSE "dial"
    /\ UNCHANGED <<conf, socks5, host, secure, resolved, peer, failure, lookups>>

\* connect_stream looks the name up and takes the first address.  The resolver's
\* own error may or may not hold the host; the one for an empty answer does.
LookupAgain(answer) ==
    /\ at = "relookup"
    /\ lookups' = lookups + 1
    /\ IF answer = <<>>
       THEN (\E why \in {"unreachable", NotResolved} : Fail(why)) /\ UNCHANGED dest
       ELSE at' = "dial" /\ dest' = Head(answer) /\ UNCHANGED failure
    /\ UNCHANGED <<conf, socks5, host, secure, resolved, route, peer>>

\* The TCP connection is made.
Dial ==
    /\ at = "dial"
    /\ peer' = dest
    /\ at' = IF route = NoProxy THEN "open" ELSE "greeting"
    /\ UNCHANGED <<conf, socks5, host, secure, resolved, route, dest, failure, lookups>>

\* The SOCKS5 upstream picks a method; it may ask only for credentials there are.
Greeting ==
    /\ at = "greeting"
    /\ route.protocol = "socks5"
    /\ \/ at' = "request"
       \/ route.credentials /\ at' = "authenticate"
    /\ UNCHANGED <<conf, socks5, host, secure, resolved, route, dest, peer, failure, lookups>>

\* The SOCKS5 upstream accepts the credentials, and then the request.
Accepted ==
    /\ \/ at = "authenticate" /\ at' = "request"
       \/ at = "request" /\ at' = "open"
    /\ UNCHANGED <<conf, socks5, host, secure, resolved, route, dest, peer, failure, lookups>>

\* The HTTP upstream answers CONNECT with status 200.
HttpConnected ==
    /\ at = "greeting"
    /\ route.protocol = "http"
    /\ at' = "open"
    /\ UNCHANGED <<conf, socks5, host, secure, resolved, route, dest, peer, failure, lookups>>

\* The connection cannot be made, or the upstream refuses, answers nonsense or
\* goes away during its handshake: the stream is dropped.  An HTTP upstream's
\* first line is quoted in the error if it is no status line.
Unreachable ==
    /\ at \in {"dial", "greeting", "authenticate", "request"}
    /\ \/ Fail("unreachable")
       \/ at = "greeting" /\ route.protocol = "http" /\ Fail("quoted")
    /\ peer' = Nobody
    /\ UNCHANGED <<conf, socks5, host, secure, resolved, route, dest, lookups>>

Connecting ==
    \/ CheckDomain
    \/ SkipLookup
    \/ \E a \in Answers : Lookup(a) \/ LookupAgain(a)
    \/ Refuse
    \/ Route
    \/ Dial
    \/ Greeting
    \/ Accepted
    \/ HttpConnected
    \/ Unreachable

UNext ==
    \/ \E h \in Hosts, sec \in BOOLEAN : Call(h, sec)
    \/ Connecting

USpec == UInit /\ [][UNext]_connectVars

-----------------------------------------------------------------------------
(* Properties *)

Places == {"idle", "policy", "resolve", "egress", "relookup", "dial", "greeting",
           "authenticate", "request", "open", "failed"}

UTypeOK ==
    /\ conf \in Confs
    /\ socks5 \in BOOLEAN
    /\ host \in Hosts \union {Nobody}
    /\ at # "idle" => host \in Hosts
    /\ secure \in BOOLEAN
    /\ at \in Places
    /\ resolved \in Seq(Addrs)
    /\ route \in Proxies \union {NoProxy}
    /\ dest \in Hosts \union {Nobody}
    /\ peer \in Hosts \union {Nobody}
    /\ failure \in {"none", "blocked", "unreachable", "quoted"}
    /\ lookups \in 0 .. 2

\* No stream is ever opened for a host the rules forbid: neither a blocked
\* domain, nor through any route a host one of whose addresses fails the egress
\* rules; and a direct stream is open to an address that passed them, however
\* the name service answers in the meantime.
EgressRespected ==
    peer # Nobody =>
        /\ ~is_domain_blocked(conf, host)
        /\ has_egress_rules(conf) =>
            /\ resolved # <<>> /\ \A ip \in Range(resolved) : check_egress_rules(conf, ip)
            /\ route = NoProxy => check_egress_rules(conf, peer)

\* The rules mean what their notation says, for every address and not only the
\* ones a session meets: an entry of the lists of networks matches exactly the
\* addresses that share its leading bits, /0 and a full-length prefix included.
RulesExact ==
    \A e \in conf.allowed_egress \union conf.blocked_egress \union conf.exclude_networks :
        \A ip \in IpAddr : match_cidr(ip, e) <=> InNetwork(ip, e)

\* upstream.rs:529 says of the target: "We resolve at most once and reuse the
\* result for both the security check and the actual connection".
ResolvedOnce == lookups <= 1
=============================================================================
