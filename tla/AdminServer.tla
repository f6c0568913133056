----------------------------- MODULE AdminServer -----------------------------
(***************************************************************************)
(* The admin API of admin.rs: one task per connection, each answering one  *)
(* request.  /login exchanges Basic credentials for a token of the token   *)
(* store, every other endpoint but /health wants a bearer token, and       *)
(* /config/reload reads the configuration file, builds an authenticator    *)
(* and installs both under the write lock.  Tasks interleave at every      *)
(* await, the file is edited and time passes meanwhile.                    *)
(*                                                                         *)
(* /metrics, /config, /config/validate and unknown paths change nothing    *)
(* and are one kind of request, "read".                                    *)
(***************************************************************************)
EXTENDS Naturals, Sequences, FiniteSets

CONSTANTS
    Requests,         \* admin connections of a behaviour
    Configs,          \* valid configurations
    Invalid,          \* a file that does not load or validate
    InitialFile,      \* the file at start-up
    InitialConfig,    \* what it gave, command line overrides applied
    Authenticating,   \* configurations with auth.enabled and a backend
    NoAuth,           \* no authenticator
    Binding,          \* the ports and bind addresses of a configuration
    admin_users,      \* admin.admin_users
    admin_token,      \* admin.token, or None
    token_ttl,        \* admin.token_ttl
    Users,            \* user name and password pairs presented at /login
    Knows,            \* those the backend of a configuration accepts
    Tokens,           \* the random tokens of a behaviour
    None,
    MaxEdits, MaxClock   \* bounds

StaticTokens == {admin_token[c] : c \in Configs} \ {None}

ASSUME AdminAssumption ==
    /\ InitialConfig \in Configs
    /\ InitialFile \in Configs
    /\ Invalid \notin Configs
    /\ Authenticating \subseteq Configs
    /\ NoAuth \notin Configs
    /\ admin_users \in [Configs -> SUBSET Users]
    /\ Knows \in [Configs -> SUBSET Users]
    /\ token_ttl \in [Configs -> Nat]
    /\ StaticTokens \cap Tokens = {}
    /\ None \notin Tokens /\ None \notin Users /\ None \notin Requests
    /\ MaxEdits \in Nat /\ MaxClock \in Nat

VARIABLES
    config, authenticator,   \* ServerState
    writer,                  \* the request that holds the write guard
    file,                    \* the configuration file and its edit count
    store,                   \* TokenStore: username and expiry of a token
    clock,
    pc,                      \* progress of each request
    req,                     \* what it asks: kind, user, bearer
    seen,                    \* the configuration it cloned
    auth,                    \* the authenticator it cloned or built
    loaded,                  \* the file it loaded
    status,                  \* the response it sent
    auth_failures,           \* metrics.auth_failures
    installed,               \* history: configurations installed
    inForce,                 \* history: edit count of the file in force
    issued                   \* history: when each token was made

adminState == <<config, authenticator, writer, installed, inForce>>
world == <<file, clock>>
tokenVars == <<store, issued, auth_failures>>
work == <<req, seen, auth, loaded>>
avars == <<adminState, world, tokenVars, work, pc, status>>

AuthenticatorOf(c) == IF c \in Authenticating THEN c ELSE NoAuth

NoRequest == [kind |-> "none", user |-> None, bearer |-> None]

AInit ==
    /\ config = InitialConfig
    /\ authenticator = AuthenticatorOf(InitialConfig)
    /\ writer = None
    /\ file = [edits |-> 0, is |-> InitialFile]
    /\ store = [t \in {} |-> None]
    /\ clock = 0
    /\ pc = [r \in Requests |-> "connected"]
    /\ req = [r \in Requests |-> NoRequest]
    /\ seen = [r \in Requests |-> InitialConfig]
    /\ auth = [r \in Requests |-> NoAuth]
    /\ loaded = [r \in Requests |-> [edits |-> 0, is |-> InitialFile]]
    /\ status = [r \in Requests |-> 0]
    /\ auth_failures = 0
    /\ installed = <<InitialConfig>>
    /\ inForce = 0
    /\ issued = [t \in {} |-> 0]

-----------------------------------------------------------------------------
(* The administrator's editor, and time *)

EditFile(c) ==
    /\ file.edits < MaxEdits
    /\ file' = [edits |-> file.edits + 1, is |-> c]
    /\ UNCHANGED <<adminState, clock, tokenVars, work, pc, status>>

Tick ==
    /\ clock < MaxClock
    /\ clock' = clock + 1
    /\ UNCHANGED <<adminState, file, tokenVars, work, pc, status>>

-----------------------------------------------------------------------------
(* Steps of a request *)

Goto(r, from, to) == pc[r] = from /\ pc' = [pc EXCEPT ![r] = to]

Respond(r, from, code) ==
    /\ Goto(r, from, "done")
    /\ status' = [status EXCEPT ![r] = code]

\* Mutant: the state is read without taking the lock.
Readable_Unlocked == TRUE

Readable == writer = None

\* A client presents a token it knows: a static one or one that was issued.
Bearers == StaticTokens \union DOMAIN issued \union {None}

Presentable ==
    [kind : {"health"}, user : {None}, bearer : {None}]
    \union [kind : {"login"}, user : Users \union {None}, bearer : {None}]
    \union [kind : {"read", "reload"}, user : {None}, bearer : Bearers]

read_request(r, q) ==
    /\ Goto(r, "connected", "parsed")
    /\ req' = [req EXCEPT ![r] = q]
    /\ UNCHANGED <<adminState, world, tokenVars, seen, auth, loaded, status>>

BadRequest(r) ==
    /\ Respond(r, "connected", 400)
    /\ UNCHANGED <<adminState, world, tokenVars, work>>

Health(r) ==
    /\ req[r].kind = "health"
    /\ Respond(r, "parsed", 200)
    /\ UNCHANGED <<adminState, world, tokenVars, work>>

\* No Authorization header, or one that is not Basic.
LoginMalformed(r) ==
    /\ req[r].kind = "login" /\ req[r].user = None
    /\ \E code \in {400, 401} : Respond(r, "parsed", code)
    /\ UNCHANGED <<adminState, world, tokenVars, work>>

\* authenticator, admin_users and ttl are read under one guard.
LoginRead(r) ==
    /\ req[r].kind = "login" /\ req[r].user # None
    /\ Readable
    /\ Goto(r, "parsed", "checking")
    /\ seen' = [seen EXCEPT ![r] = config]
    /\ auth' = [auth EXCEPT ![r] = authenticator]
    /\ UNCHANGED <<adminState, world, tokenVars, req, loaded, status>>

Accepts(a, u) == a # NoAuth /\ u \in Knows[a]

\* The backend accepted the credentials of an admin user: generate_token.
LoginGranted(r, t) ==
    /\ Accepts(auth[r], req[r].user)
    /\ req[r].user \in admin_users[seen[r]]
    /\ t \notin DOMAIN issued
    /\ store' = [k \in DOMAIN store \union {t} |->
                    IF k = t THEN [user |-> req[r].user,
                                   expires_at |-> clock + token_ttl[InitialConfig]]
                             ELSE store[k]]
    /\ issued' = [k \in DOMAIN issued \union {t} |-> IF k = t THEN clock ELSE issued[k]]
    /\ Respond(r, "checking", 200)
    /\ UNCHANGED <<adminState, world, auth_failures, work>>

LoginForbidden(r) ==
    /\ Accepts(auth[r], req[r].user)
    /\ req[r].user \notin admin_users[seen[r]]
    /\ Respond(r, "checking", 403)
    /\ UNCHANGED <<adminState, world, tokenVars, work>>

\* Refused by the backend, no backend, or a backend error.
LoginFailed(r) ==
    /\ Respond(r, "checking", 401)
    /\ auth_failures' = auth_failures + 1
    /\ UNCHANGED <<adminState, world, store, issued, work>>

-----------------------------------------------------------------------------
(* Requests that want a bearer token *)

\* Mutant: expired tokens are never cleaned.
Unexpired_All == DOMAIN store

\* validate_token drops every expired token before it looks.
Unexpired == {t \in DOMAIN store : store[t].expires_at > clock}

IsStatic(c, bearer) == admin_token[c] # None /\ bearer = admin_token[c]

authenticate_request(c, bearer) ==
    bearer # None /\ (IsStatic(c, bearer) \/ bearer \in Unexpired)

\* The configuration is cloned, the token checked against that clone and the
\* store.  A header without token or the static token leaves the store alone.
Authenticate(r) ==
    LET bearer == req[r].bearer
    IN  /\ req[r].kind \in {"read", "reload"}
        /\ Readable
        /\ seen' = [seen EXCEPT ![r] = config]
        /\ store' = IF bearer = None \/ IsStatic(config, bearer)
                    THEN store ELSE [t \in Unexpired |-> store[t]]
        /\ IF authenticate_request(config, bearer)
           THEN Goto(r, "parsed", "authorised") /\ UNCHANGED status
           ELSE Respond(r, "parsed", 401)
        /\ UNCHANGED <<adminState, world, issued, auth_failures, req, auth, loaded>>

\* /metrics, /config, /config/validate, or an unknown path.
ReadEndpoint(r) ==
    /\ req[r].kind = "read"
    /\ \E code \in {200, 400, 404} : Respond(r, "authorised", code)
    /\ UNCHANGED <<adminState, world, tokenVars, work>>

\* Mutant: a changed port is not noticed.
LoadFile_AnyBinding(r) ==
    /\ req[r].kind = "reload"
    /\ file.is # Invalid
    /\ Goto(r, "authorised", "building")
    /\ loaded' = [loaded EXCEPT ![r] = file]
    /\ UNCHANGED <<adminState, world, tokenVars, req, seen, auth, status>>

\* Config::load_from_file gives a configuration with the ports and addresses
\* of the one this request cloned.
LoadFile(r) ==
    /\ req[r].kind = "reload"
    /\ file.is # Invalid
    /\ Binding[file.is] = Binding[seen[r]]
    /\ Goto(r, "authorised", "building")
    /\ loaded' = [loaded EXCEPT ![r] = file]
    /\ UNCHANGED <<adminState, world, tokenVars, req, seen, auth, status>>

LoadFails(r) ==
    /\ req[r].kind = "reload"
    /\ file.is = Invalid
    /\ Respond(r, "authorised", 400)
    /\ UNCHANGED <<adminState, world, tokenVars, work>>

\* "Cannot change bind addresses or ports at runtime."
BindRefused(r) ==
    /\ req[r].kind = "reload"
    /\ file.is # Invalid
    /\ Binding[file.is] # Binding[seen[r]]
    /\ Respond(r, "authorised", 400)
    /\ loaded' = [loaded EXCEPT ![r] = file]
    /\ UNCHANGED <<adminState, world, tokenVars, req, seen, auth>>

create_authenticator(r) ==
    /\ Goto(r, "building", "built")
    /\ auth' = [auth EXCEPT ![r] = AuthenticatorOf(loaded[r].is)]
    /\ UNCHANGED <<adminState, world, tokenVars, req, seen, loaded, status>>

\* The user file or the database could not be opened.
CreateFails(r) ==
    /\ loaded[r].is \in Authenticating
    /\ Respond(r, "building", 500)
    /\ UNCHANGED <<adminState, world, tokenVars, work>>

WriteConfig(r) ==
    /\ writer = None
    /\ Goto(r, "built", "writing")
    /\ writer' = r
    /\ config' = loaded[r].is
    /\ installed' = Append(installed, loaded[r].is)
    /\ inForce' = loaded[r].edits
    /\ UNCHANGED <<authenticator, world, tokenVars, work, status>>

\* Mutant: the authenticator built for the file is not installed.
WriteAuthenticator_Kept(r) ==
    /\ Goto(r, "writing", "answering")
    /\ UNCHANGED <<adminState, world, tokenVars, work, status>>

WriteAuthenticator(r) ==
    /\ Goto(r, "writing", "answering")
    /\ authenticator' = auth[r]
    /\ UNCHANGED <<config, writer, installed, inForce, world, tokenVars, work, status>>

\* Mutant: the guard outlives the request.
Answer_KeepsGuard(r) ==
    /\ Respond(r, "answering", 200)
    /\ UNCHANGED <<adminState, world, tokenVars, work>>

\* The answer is sent with the guard alive; the end of the scope drops it.
Answer(r) ==
    /\ Respond(r, "answering", 200)
    /\ writer' = None
    /\ UNCHANGED <<config, authenticator, installed, inForce, world, tokenVars, work>>

-----------------------------------------------------------------------------
Login(r) ==
    \/ LoginMalformed(r)
    \/ LoginRead(r)
    \/ \E t \in Tokens : LoginGranted(r, t)
    \/ LoginForbidden(r)
    \/ LoginFailed(r)

ReloadRequest(r) ==
    \/ LoadFile(r)
    \/ LoadFails(r)
    \/ BindRefused(r)
    \/ create_authenticator(r)
    \/ CreateFails(r)
    \/ WriteConfig(r)
    \/ WriteAuthenticator(r)
    \/ Answer(r)

ANext ==
    \/ Tick
    \/ \E c \in Configs \union {Invalid} : EditFile(c)
    \/ \E r \in Requests :
        \/ \E q \in Presentable : read_request(r, q)
        \/ BadRequest(r)
        \/ Health(r)
        \/ Login(r)
        \/ Authenticate(r)
        \/ ReadEndpoint(r)
        \/ ReloadRequest(r)

ASpec == AInit /\ [][ANext]_avars

\* The lock is fair, so a task that wants it gets it although others take it in
\* between, and building an authenticator ends: a file read, or a database
\* connect with a timeout.  A request takes each of these steps once.
AFairness == \A r \in Requests : SF_avars(Authenticate(r) \/ ReloadRequest(r))

-----------------------------------------------------------------------------
(* Properties *)

\* What is in force and what is about to be is always a configuration that
\* loaded and validated, and the store holds well-formed entries.
ATypeOK ==
    /\ config \in Configs
    /\ authenticator \in Configs \union {NoAuth}
    /\ writer \in Requests \union {None}
    /\ file \in [edits : Nat, is : Configs \union {Invalid}]
    /\ store \in [DOMAIN store -> [user : Users, expires_at : Nat]]
    /\ DOMAIN store \subseteq DOMAIN issued
    /\ clock \in Nat
    /\ pc \in [Requests -> {"connected", "parsed", "checking", "authorised", "building",
                            "built", "writing", "answering", "done"}]
    /\ req \in [Requests -> [kind : {"none", "health", "login", "read", "reload"},
                             user : Users \union {None},
                             bearer : StaticTokens \union Tokens \union {None}]]
    /\ seen \in [Requests -> Configs]
    /\ auth \in [Requests -> Configs \union {NoAuth}]
    /\ loaded \in [Requests -> [edits : Nat, is : Configs]]
    /\ status \in [Requests -> {0, 200, 400, 401, 403, 404, 500}]
    /\ auth_failures \in Nat
    /\ DOMAIN issued \subseteq Tokens
    /\ issued \in [DOMAIN issued -> Nat]
    /\ installed \in Seq(Configs)
    /\ inForce \in Nat

\* The listeners are bound once, so no sequence of reloads, overlapping ones
\* included, puts a configuration in force that names other ports: although
\* each reload compares the file with a clone that may be out of date.
BindingsFixed == Binding[config] = Binding[InitialConfig]

\* A token in the store was earned under one configuration: its backend knew
\* the user and its admin_users listed it.  A login that overlaps a reload
\* never takes the backend from one and the list from the other.
TokensEarned ==
    \A t \in DOMAIN store : \E i \in DOMAIN installed :
        LET c == installed[i]
        IN  /\ c \in Authenticating
            /\ store[t].user \in Knows[c] \intersect admin_users[c]

\* Past the check of the bearer token, a request showed the static token of a
\* configuration that was in force or a token that /login handed out.
AuthorisedShowedToken ==
    \A r \in Requests :
        pc[r] \in {"authorised", "building", "built", "writing", "answering"} =>
            \/ req[r].bearer \in DOMAIN issued
            \/ \E i \in DOMAIN installed :
                admin_token[installed[i]] # None /\ req[r].bearer = admin_token[installed[i]]

\* No token opens the API for longer than token_ttl of a configuration that has
\* been in force, whatever reloads change it and whichever requests clean the
\* store in between.
TokenLifetime ==
    [][\A r \in Requests :
        (pc[r] = "parsed" /\ pc'[r] = "authorised" /\ req[r].bearer \in DOMAIN issued)
        => \E i \in DOMAIN installed :
                clock < issued[req[r].bearer] + token_ttl[installed[i]]]_avars

S == INSTANCE ServerState WITH
    write <- IF writer = None THEN "free"
             ELSE IF pc[writer] = "writing" THEN "config" ELSE "both"

\* Overlapping reloads implement the shared state the proxy relies on: the
\* configuration and the authenticator built from it are exchanged together.
StateImplemented == S!StateSpec

\* A reload request that was received is answered, also when several reloads
\* queue for the lock.
ReloadAnswered ==
    \A r \in Requests : (pc[r] = "parsed" /\ req[r].kind = "reload") ~> pc[r] = "done"

-----------------------------------------------------------------------------
(* A statement of the documentation the code does not keep *)

InReload(r) == pc[r] \in {"building", "built", "writing", "answering"}

\* Nobody reads the file for a reload while another reload is between reading
\* it and having answered.
OneReloadAtATime == \A q, r \in Requests : InReload(q) /\ InReload(r) => q = r

\* doc/admin_api.md:191: a reload "Triggers the server to re-read its main
\* configuration file from disk": once a reload that read the present file has
\* succeeded and none is under way, the file is in force.
ReloadTakesEffect ==
    (/\ \E r \in Requests : req[r].kind = "reload" /\ status[r] = 200
                            /\ loaded[r].edits = file.edits
     /\ \A r \in Requests : ~InReload(r))
    => inForce = file.edits
=============================================================================
