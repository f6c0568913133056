------------------------------- MODULE Session -------------------------------
(***************************************************************************)
(* What a connection task runs under its timeout: the SOCKS5 or HTTP proxy *)
(* protocol with the client (socks5.rs, http_proxy.rs, the handle_*        *)
(* functions of server.rs), connect_to_target, and the relay.              *)
(*                                                                         *)
(* The client is free in what it sends, and every read and write on its    *)
(* stream can fail.  The backend that judges credentials is external.  The *)
(* configuration was validated, so there is an authenticator exactly when  *)
(* auth is enabled.                                                        *)
(***************************************************************************)
EXTENDS Upstream

CONSTANT MaxBytes   \* bound: bytes relayed

ASSUME SessionAssumption == MaxBytes \in Nat

VARIABLES
    phase,          \* what the task is waiting for
    method,         \* the HTTP request: "CONNECT" or "regular"; "none" before and for SOCKS5
    verdict,        \* what the authenticator said: "none", "valid", "invalid", "error"
    reply,          \* the last answer the client was sent
    auth_failures,  \* metrics.auth_failures, this session's share
    moved,          \* history: bytes relayed
    bytes           \* metrics.bytes_tx + bytes_rx, this session's share

clientVars == <<phase, method, verdict, reply, auth_failures, moved, bytes>>
svars == <<clientVars, connectVars>>

Answered == {"success", "not_allowed", "unreachable", "unsupported", "auth_required",
             "no_method", "none"}

SInit ==
    /\ UInit
    /\ phase = IF socks5 THEN "handshake" ELSE "head"
    /\ method = "none"
    /\ verdict = "none"
    /\ reply = "none"
    /\ auth_failures = 0
    /\ moved = 0
    /\ bytes = 0

Close == phase' = "closed"

-----------------------------------------------------------------------------
(* SOCKS5 *)

AuthMethods == {"NoAuth", "UserPass"}

\* Mutant: a client that offers to go without authentication may.
selected_method_Offered(methods) ==
    CASE "NoAuth" \in methods                             -> "NoAuth"
      [] "NoAuth" \notin methods /\ "UserPass" \in methods -> "UserPass"
      [] methods = {}                                     -> "NoAcceptable"

\* The method chosen among the known ones the client offers.
selected_method(methods) ==
    LET wanted == IF conf.auth THEN "UserPass" ELSE "NoAuth"
    IN  IF wanted \in methods THEN wanted ELSE "NoAcceptable"

handle_handshake(methods) ==
    /\ phase = "handshake"
    /\ phase' = CASE selected_method(methods) = "UserPass"     -> "credentials"
                  [] selected_method(methods) = "NoAuth"       -> "request"
                  [] selected_method(methods) = "NoAcceptable" -> "closed"
    /\ reply' = IF selected_method(methods) = "NoAcceptable" THEN "no_method" ELSE reply
    /\ UNCHANGED <<method, verdict, auth_failures, moved, bytes, connectVars>>

\* The credentials are read and judged; an error of the backend refuses.
handle_user_pass_auth(v) ==
    /\ phase = "credentials"
    /\ verdict' = v
    /\ phase' = "auth_reply"
    /\ UNCHANGED <<method, reply, auth_failures, moved, bytes, connectVars>>

\* Mutant: a client that failed may try again.
AuthReply_Retry ==
    /\ phase = "auth_reply"
    /\ \/ /\ verdict = "valid"
          /\ phase' = "request"
          /\ UNCHANGED auth_failures
       \/ /\ verdict # "valid"
          /\ phase' = "credentials"
          /\ auth_failures' = auth_failures + 1
    /\ UNCHANGED <<method, verdict, reply, moved, bytes, connectVars>>

\* The status is written first, then a failure is counted.
AuthReply ==
    /\ phase = "auth_reply"
    /\ \/ /\ verdict = "valid"
          /\ phase' = "request"
          /\ UNCHANGED <<reply, auth_failures>>
       \/ /\ verdict # "valid"
          /\ Close
          /\ reply' = "auth_required"
          /\ auth_failures' = auth_failures + 1
    /\ UNCHANGED <<method, verdict, moved, bytes, connectVars>>

\* Command::from: a byte that is no command is taken for CONNECT.
Command(b) == CASE b = 2 -> "Bind" [] b = 3 -> "UdpAssociate" [] b \notin {2, 3} -> "Connect"

handle_request(b, h, sec) ==
    /\ phase = "request"
    /\ \/ /\ Command(b) = "Connect"
          /\ Call(h, sec)
          /\ phase' = "connect"
          /\ UNCHANGED reply
       \/ /\ Command(b) # "Connect"
          /\ reply' = "unsupported"
          /\ Close
          /\ UNCHANGED connectVars
    /\ UNCHANGED <<method, verdict, auth_failures, moved, bytes>>

-----------------------------------------------------------------------------
(* HTTP *)

\* The request line and headers are read, within max_request_size.
handle_http_request(m) ==
    /\ phase = "head"
    /\ method' = m
    /\ phase' = "validate"
    /\ UNCHANGED <<verdict, reply, auth_failures, moved, bytes, connectVars>>

\* validate_auth without the backend: auth is off, or there are no usable
\* Basic credentials.
ValidateOffline ==
    /\ phase = "validate"
    /\ phase' = IF conf.auth THEN "deny" ELSE "target"
    /\ UNCHANGED <<method, verdict, reply, auth_failures, moved, bytes, connectVars>>

\* validate_auth asks the backend; a failure is counted before the answer.
validate_auth(v) ==
    /\ phase = "validate"
    /\ conf.auth
    /\ verdict' = v
    /\ phase' = IF v = "valid" THEN "target" ELSE "deny"
    /\ auth_failures' = IF v = "valid" THEN auth_failures ELSE auth_failures + 1
    /\ UNCHANGED <<method, reply, moved, bytes, connectVars>>

\* The 407 answer.
Deny ==
    /\ phase = "deny"
    /\ reply' = "auth_required"
    /\ Close
    /\ UNCHANGED <<method, verdict, auth_failures, moved, bytes, connectVars>>

\* get_host_port succeeds.  A request line is split at its blanks, so its host
\* has none.
HttpTarget(h, sec) ==
    /\ phase = "target"
    /\ h \notin Phrased
    /\ Call(h, sec)
    /\ phase' = "connect"
    /\ UNCHANGED <<method, verdict, reply, auth_failures, moved, bytes>>

-----------------------------------------------------------------------------
(* Both *)

\* connect_to_target takes a step.
Connect ==
    /\ phase = "connect"
    /\ Connecting
    /\ UNCHANGED clientVars

\* Mutant: with egress rules every failure is reported as theirs.
reply_code_Rules == IF has_egress_rules(conf) THEN "not_allowed" ELSE "unreachable"

\* The error code for the client, by the words in the text of the error.
reply_code == IF failure \in {"blocked", "quoted"} THEN "not_allowed" ELSE "unreachable"

ReportFailure ==
    /\ phase = "connect"
    /\ at = "failed"
    /\ reply' = reply_code
    /\ Close
    /\ UNCHANGED <<method, verdict, auth_failures, moved, bytes, connectVars>>

\* The tunnel is announced; a regular request is forwarded instead.
Established ==
    /\ phase = "connect"
    /\ at = "open"
    /\ reply' = IF method = "regular" THEN reply ELSE "success"
    /\ phase' = "relay"
    /\ UNCHANGED <<method, verdict, auth_failures, moved, bytes, connectVars>>

\* copy_bidirectional moves a byte.
Relay ==
    /\ phase = "relay"
    /\ moved < MaxBytes
    /\ moved' = moved + 1
    /\ UNCHANGED <<phase, method, verdict, reply, auth_failures, bytes, connectVars>>

\* Both directions are at their end: the totals are added to the metrics.
RelayEnds ==
    /\ phase = "relay"
    /\ bytes' = bytes + moved
    /\ Close
    /\ UNCHANGED <<method, verdict, reply, auth_failures, moved, connectVars>>

\* The task returns at a read or write that fails, at a message it cannot
\* parse, or at the end of a stream.  Nobody looks at the client's stream while
\* credentials are judged for HTTP or while connect_to_target runs.
StreamFails ==
    /\ \/ phase \in {"handshake", "credentials", "auth_reply", "request", "head", "deny",
                     "target", "relay"}
       \/ phase = "connect" /\ at \in {"open", "failed"}
    /\ Close
    /\ UNCHANGED <<method, verdict, reply, auth_failures, moved, bytes, connectVars>>

\* Mutant: the timeout covers the handshake only.
Timeout_Handshake ==
    /\ phase \notin {"closed", "relay"}
    /\ Close
    /\ UNCHANGED <<method, verdict, reply, auth_failures, moved, bytes, connectVars>>

\* connection_timeout: the future is dropped at whatever it waits for.
Timeout ==
    /\ phase # "closed"
    /\ Close
    /\ UNCHANGED <<method, verdict, reply, auth_failures, moved, bytes, connectVars>>

SNext ==
    \/ \E methods \in SUBSET AuthMethods : handle_handshake(methods)
    \/ \E v \in {"valid", "invalid", "error"} : handle_user_pass_auth(v) \/ validate_auth(v)
    \/ AuthReply
    \/ \E b \in 1 .. 4, h \in Hosts, sec \in BOOLEAN : handle_request(b, h, sec)
    \/ \E m \in {"CONNECT", "regular"} : handle_http_request(m)
    \/ ValidateOffline
    \/ Deny
    \/ \E h \in Hosts, sec \in BOOLEAN : HttpTarget(h, sec)
    \/ Connect
    \/ ReportFailure
    \/ Established
    \/ Relay
    \/ RelayEnds
    \/ StreamFails
    \/ Timeout

SSpec == SInit /\ [][SNext]_svars

\* The timer fires.
SFairSpec == SSpec /\ WF_svars(Timeout)

-----------------------------------------------------------------------------
(* Properties *)

Phases == {"handshake", "credentials", "auth_reply", "request", "head", "validate", "deny",
           "target", "connect", "relay", "closed"}

STypeOK ==
    /\ UTypeOK
    /\ phase \in Phases
    /\ method \in {"none", "CONNECT", "regular"}
    /\ verdict \in {"none", "valid", "invalid", "error"}
    /\ reply \in Answered
    /\ auth_failures \in 0 .. 1
    /\ moved \in 0 .. MaxBytes
    /\ bytes \in {0, moved}

\* A client that must authenticate causes no lookup and no connection before
\* the backend has accepted its credentials, whichever protocol it speaks and
\* whatever methods or commands it sends.
AuthFirst ==
    (conf.auth /\ (at # "idle" \/ lookups > 0 \/ peer # Nobody)) => verdict = "valid"

\* What the client is told of its connection: a tunnel only when the stream to
\* the target is open and no rule forbids the host or an address it resolved
\* to; never "unreachable" for what a rule forbids; and a policy refusal that no
\* rule made only where the error's text holds what others wrote, the client's
\* own host name or the first line of an HTTP upstream.
ReplyTruthful ==
    LET refused == \/ is_domain_blocked(conf, host)
                   \/ \E ip \in Range(resolved) : ~check_egress_rules(conf, ip)
    IN  /\ reply = "success" => peer # Nobody /\ at = "open" /\ ~refused
        /\ reply = "not_allowed" =>
            \/ refused
            \/ host \in Phrased
            \/ route # NoProxy /\ route.protocol = "http"
        /\ reply = "unreachable" => ~refused

\* Every session ends, a relay that never comes to its end included, so the
\* task always gives its permit back.
SessionEnds == <>(phase = "closed")
=============================================================================
