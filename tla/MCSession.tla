------------------------------ MODULE MCSession ------------------------------
(***************************************************************************)
(* Instances of Session, and of connect_to_target within it: three        *)
(* names, four addresses, and configurations that combine every kind of    *)
(* rule.                                                                   *)
(***************************************************************************)
EXTENDS Session

CONSTANTS good, bad, odd

MCWidth == [v4 |-> 2, v6 |-> 3]

ipA == [family |-> "v4", bits |-> 1]
ipB == [family |-> "v4", bits |-> 3]
ipC == [family |-> "v6", bits |-> 3]
ipP == [family |-> "v4", bits |-> 0]

Block(a, p) == [kind |-> "block", base |-> a, prefix |-> p]
Single(a) == [kind |-> "address", base |-> a]
Domain(s) == [kind |-> "domain", covers |-> s]

ViaSocks5 == [protocol |-> "socks5", address |-> ipP, credentials |-> TRUE]
ViaHttp == [protocol |-> "http", address |-> ipP, credentials |-> FALSE]

MCNames == {good, bad, odd}
\* odd contains the words by which a refusal is recognised.
MCPhrased == {odd}
MCAddrs == {ipA, ipB, ipC, ipP}
MCAnswers == {<<>>, <<ipA>>, <<ipB>>, <<ipA, ipB>>, <<ipC, ipA>>}
MCEnv == [k \in EnvKeys |-> IF k = "HTTPS_PROXY" THEN ViaHttp ELSE NoProxy]

\* Every combination of allowing and blocking rules, an exclusion and an
\* upstream, with and without authentication.  Among the rules are /0, a
\* prefix within the address on an unaligned base, one of full length and one
\* too long to match.
MCConfs ==
    [auth             : BOOLEAN,
     blocked_domains  : {{Domain({bad})}},
     allowed_egress   : {{}, {Block(ipA, 0), Block(ipC, 1)}, {Block(ipA, 3)}},
     blocked_egress   : {{}, {Block(ipB, 1)}, {Block(ipC, 0)}, {Block(ipC, 3)}},
     exclude_networks : {{}, {Single(ipA)}},
     exclude_domains  : {{}, {Domain({good})}},
     prefer_env       : BOOLEAN,
     upstream         : {NoProxy, ViaSocks5}]
=============================================================================
