-------------------------------- MODULE Launch --------------------------------
(***************************************************************************)
(* From the command line to listening sockets (main.rs, config.rs,         *)
(* ProxyServer::create and ::start), and the configuration in force        *)
(* afterwards.  The file is looked for, loaded and validated; overrides    *)
(* from the command line and the environment are applied to what was       *)
(* validated, and nothing validates the result.  Later reloads read the    *)
(* file again, without the overrides.  The administrator may edit, remove  *)
(* and restore the file at any time, and make it unreadable.               *)
(*                                                                         *)
(* A reload is one step here; AdminServer has its steps.  Of the           *)
(* configuration the parts that name sockets are kept, auth.enabled,       *)
(* whether there is a log file, and whether all the other rules of         *)
(* validate hold.                                                          *)
(***************************************************************************)
EXTENDS Naturals, FiniteSets

CONSTANTS
    Ports,        \* u16 values; 0 asks the system to choose
    Files,        \* what the file may hold
    Overrides,    \* command lines with their environment
    Occupied,     \* sets of sockets that other processes hold
    default,      \* Config::default()
    Missing,      \* there is no file
    Unreachable,  \* a file whose metadata cannot be read, as in a closed directory
    Unparsable,   \* a file that is not a configuration
    Unset,        \* an option or variable that is not given
    Unusable,     \* one that does not parse
    NoSocket,
    MaxEdits, MaxReloads   \* bounds

\* An IPv4 address, 0.0.0.0, an IPv6 address, and text that is no address.
Addresses == {"v4", "any", "v6", "text"}

Config == [bind_address : Addresses, socks5_port : Ports, http_port : Ports,
           admin_enabled : BOOLEAN, admin_address : Addresses, admin_port : Ports,
           auth : BOOLEAN, log_file : BOOLEAN, others_valid : BOOLEAN]

Option(S) == [cli : S \union {Unset, Unusable}, env : S \union {Unset, Unusable}]

Override == [bind_address : Option(Addresses), socks5_port : Option(Ports),
             http_port : Option(Ports), admin_port : Option(Ports),
             admin_enabled : Option(BOOLEAN)]

Sockets == [address : Addresses, port : Ports]
Listeners == {"socks5", "http", "admin"}

ASSUME LaunchAssumption ==
    /\ 0 \in Ports /\ Ports \subseteq Nat
    /\ Files \subseteq Config \union {Missing, Unreachable, Unparsable}
    /\ Overrides \subseteq Override
    /\ Occupied \subseteq SUBSET Sockets
    /\ default \in Config
    /\ Config \intersect {Missing, Unreachable, Unparsable} = {}
    /\ \A u \in {Unset, Unusable} : u \notin Ports /\ u \notin Addresses /\ u \notin BOOLEAN
    /\ Unset # Unusable
    /\ NoSocket \notin Sockets
    /\ MaxEdits \in Nat /\ MaxReloads \in Nat

VARIABLES
    file,      \* the configuration file
    given,     \* the overrides of this start
    occupied,  \* the sockets other processes hold
    stage,     \* how far the start has come
    config,    \* the configuration in force
    socket,    \* what each listener is bound to
    answer,    \* what the last reload answered
    edits,     \* changes of the file
    reloads,   \* reloads so far
    past       \* history: everything the file has held

launchVars == <<file, given, occupied, stage, config, socket, answer, edits, reloads, past>>

LaunchInit ==
    /\ file \in Files
    /\ given \in Overrides
    /\ occupied \in Occupied
    /\ stage = "look"
    /\ config = default
    /\ socket = [l \in Listeners |-> NoSocket]
    /\ answer = "none"
    /\ edits = 0
    /\ reloads = 0
    /\ past = {file}

-----------------------------------------------------------------------------
(* The configuration *)

validate(c) ==
    /\ c.socks5_port # 0 /\ c.http_port # 0
    /\ c.socks5_port # c.http_port
    /\ c.bind_address # "text"
    /\ c.others_valid
    /\ c.admin_enabled =>
        /\ c.admin_port # 0
        /\ c.admin_port \notin {c.socks5_port, c.http_port}
        /\ c.admin_address # "text"

\* load_from_file
Loads(f) == f \in Config /\ validate(f)

\* An option that is given hides the variable, even if it does not parse.
Effective(value, option) ==
    LET chosen == IF option.cli # Unset THEN option.cli ELSE option.env
    IN  IF chosen \in {Unset, Unusable} THEN value ELSE chosen

Overridden(c, o) ==
    [c EXCEPT !.bind_address  = Effective(@, o.bind_address),
              !.socks5_port   = Effective(@, o.socks5_port),
              !.http_port     = Effective(@, o.http_port),
              !.admin_port    = Effective(@, o.admin_port),
              !.admin_enabled = Effective(@, o.admin_enabled)]

\* Address and port are joined by a colon: an IPv6 address gives no address of
\* a socket, as it would need brackets.
FormsSocketAddr(address) == address \in {"v4", "any"}

SocketOf(c, l) ==
    CASE l = "socks5" -> [address |-> c.bind_address, port |-> c.socks5_port]
      [] l = "http"   -> [address |-> c.bind_address, port |-> c.http_port]
      [] l = "admin"  -> [address |-> c.admin_address, port |-> c.admin_port]

-----------------------------------------------------------------------------
(* The start *)

Exit == stage' = "exited"

\* Path::exists is false of a file that is out of reach, too.
LookForFile ==
    /\ stage = "look"
    /\ stage' = IF file \in {Missing, Unreachable} THEN "override" ELSE "load"
    /\ UNCHANGED <<file, given, occupied, config, socket, answer, edits, reloads, past>>

\* Mutant: a file that cannot be loaded is as good as none.
load_from_file_Default ==
    /\ stage = "load"
    /\ config' = IF Loads(file) THEN file ELSE default
    /\ stage' = "override"
    /\ UNCHANGED <<file, given, occupied, socket, answer, edits, reloads, past>>

\* "Fail closed": a file that is seen and cannot be loaded ends the process.
load_from_file ==
    /\ stage = "load"
    /\ IF Loads(file)
       THEN stage' = "override" /\ config' = file
       ELSE Exit /\ UNCHANGED config
    /\ UNCHANGED <<file, given, occupied, socket, answer, edits, reloads, past>>

ApplyOverrides ==
    /\ stage = "override"
    /\ config' = Overridden(config, given)
    /\ stage' = "logging"
    /\ UNCHANGED <<file, given, occupied, socket, answer, edits, reloads, past>>

\* The process panics when the log file cannot be opened or has no file name.
setup_logging ==
    /\ stage = "logging"
    /\ \/ stage' = "create"
       \/ config.log_file /\ Exit
    /\ UNCHANGED <<file, given, occupied, config, socket, answer, edits, reloads, past>>

\* Mutant: no backend is an error even if none is wanted.
create_NoBackend ==
    /\ stage = "create"
    /\ stage' = IF config.auth THEN "addresses" ELSE "exited"
    /\ UNCHANGED <<file, given, occupied, config, socket, answer, edits, reloads, past>>

\* ProxyServer::create; the user file or the database may be out of reach.
create ==
    /\ stage = "create"
    /\ \/ stage' = "addresses"
       \/ config.auth /\ Exit
    /\ UNCHANGED <<file, given, occupied, config, socket, answer, edits, reloads, past>>

\* start forms all three addresses, also that of an admin API that is off.
FormAddresses ==
    /\ stage = "addresses"
    /\ stage' = IF FormsSocketAddr(config.bind_address) /\ FormsSocketAddr(config.admin_address)
                THEN "socks5" ELSE "exited"
    /\ UNCHANGED <<file, given, occupied, config, socket, answer, edits, reloads, past>>

\* Two sockets the system does not grant both.
Conflict(s, t) ==
    /\ s.port = t.port
    /\ s.address = t.address \/ "any" \in {s.address, t.address}

Bound == {socket[l] : l \in Listeners} \ {NoSocket}

Free(s) == \A t \in occupied \union Bound : ~Conflict(s, t)

\* What the system may grant to one who asks for s: for port 0 it chooses.
Grants(s) ==
    {t \in [address : {s.address}, port : IF s.port = 0 THEN Ports \ {0} ELSE {s.port}] : Free(t)}

\* The listeners are bound in this order; the admin listener if it is enabled.
After(l) ==
    CASE l = "socks5"                      -> "http"
      [] l = "http" /\ config.admin_enabled  -> "admin"
      [] l = "http" /\ ~config.admin_enabled -> "running"
      [] l = "admin"                       -> "running"

\* TcpListener::bind.  A process that ends gives up what it had bound.
Bind(l) ==
    /\ stage = l
    /\ \/ /\ \E s \in Grants(SocketOf(config, l)) : socket' = [socket EXCEPT ![l] = s]
          /\ stage' = After(l)
       \/ /\ Grants(SocketOf(config, l)) = {}
          /\ Exit /\ socket' = [m \in Listeners |-> NoSocket]
    /\ UNCHANGED <<file, given, occupied, config, answer, edits, reloads, past>>

-----------------------------------------------------------------------------
(* The server is running *)

\* Mutant: the address of the admin API is not compared.
SameBindings_NoAdmin(c, d) ==
    \A l \in {"socks5", "http"} : SocketOf(c, l) = SocketOf(d, l)

SameBindings(c, d) == \A l \in Listeners : SocketOf(c, l) = SocketOf(d, l)

\* Mutant: the file is parsed and not validated.
Reload_Unvalidated ==
    /\ stage = "running"
    /\ socket["admin"] # NoSocket
    /\ reloads < MaxReloads
    /\ reloads' = reloads + 1
    /\ file \in Config /\ SameBindings(file, config)
    /\ answer' = "reloaded" /\ config' = file
    /\ UNCHANGED <<file, given, occupied, stage, socket, edits, past>>

\* /config/reload: the file as it is, compared with what is in force.
Reload ==
    /\ stage = "running"
    /\ socket["admin"] # NoSocket
    /\ reloads < MaxReloads
    /\ reloads' = reloads + 1
    /\ \/ /\ ~Loads(file)
          /\ answer' = "invalid" /\ UNCHANGED config
       \/ /\ Loads(file) /\ ~SameBindings(file, config)
          /\ answer' = "refused" /\ UNCHANGED config
       \/ /\ Loads(file) /\ SameBindings(file, config)
          /\ \/ answer' = "reloaded" /\ config' = file
             \/ file.auth /\ answer' = "failed" /\ UNCHANGED config
    /\ UNCHANGED <<file, given, occupied, stage, socket, edits, past>>

\* The administrator replaces, spoils, removes or restores the file.
Edit(f) ==
    /\ edits < MaxEdits
    /\ f # file
    /\ file' = f
    /\ edits' = edits + 1
    /\ past' = past \union {f}
    /\ UNCHANGED <<given, occupied, stage, config, socket, answer, reloads>>

-----------------------------------------------------------------------------
Starting ==
    \/ LookForFile
    \/ load_from_file
    \/ ApplyOverrides
    \/ setup_logging
    \/ create
    \/ FormAddresses
    \/ \E l \in Listeners : Bind(l)

LaunchNext ==
    \/ Starting
    \/ Reload
    \/ \E f \in Files : Edit(f)

LaunchSpec == LaunchInit /\ [][LaunchNext]_launchVars

\* main goes on: no step of the start waits for anybody for ever.
LaunchFairSpec == LaunchSpec /\ WF_launchVars(Starting)

-----------------------------------------------------------------------------
(* Properties *)

LaunchTypeOK ==
    /\ file \in Files
    /\ given \in Overrides
    /\ occupied \in Occupied
    /\ stage \in {"look", "load", "override", "logging", "create", "addresses", "running",
                  "exited"} \union Listeners
    /\ config \in Config
    /\ socket \in [Listeners -> Sockets \union {NoSocket}]
    /\ answer \in {"none", "invalid", "refused", "reloaded", "failed"}
    /\ edits \in 0 .. MaxEdits
    /\ reloads \in 0 .. MaxReloads
    /\ past \subseteq Files

\* main.rs: "a present-but-invalid config must not silently downgrade to the
\* permissive defaults".  Whatever happens to the file while the process starts
\* and reloads, the server runs on a version of the file that was validated,
\* the overrides applied, or on the defaults, and then the file was missing or
\* out of reach.  The second is a downgrade the comment does not mention: exists
\* is all that main asks.
FailClosed ==
    stage = "running" =>
        \/ past \intersect {Missing, Unreachable} # {} /\ config = Overridden(default, given)
        \/ \E f \in past : Loads(f) /\ config \in {f, Overridden(f, given)}

\* The configuration in force names the sockets the process listens on, after
\* overrides at the start and after any sequence of edits and reloads; port 0,
\* which an override can bring about, names the port the system chose.
ListenersNamed ==
    \A l \in Listeners : socket[l] # NoSocket =>
        /\ socket[l].address = SocketOf(config, l).address
        /\ SocketOf(config, l).port \in {0, socket[l].port}

\* A reload ends the effect of overrides that were never validated: what is in
\* force afterwards is a version of the file that passed validation as a whole,
\* and one with which the process could be started again, as start forms its
\* addresses, which validate alone does not see to.
ReloadedValid ==
    answer = "reloaded" =>
        \E f \in past :
            /\ config = f /\ Loads(f)
            /\ FormsSocketAddr(f.bind_address) /\ FormsSocketAddr(f.admin_address)

\* What load_from_file accepts can be started: without overrides the process
\* comes to listen, unless the backend, the log file or a port is out of reach.
\* It takes IPv4 addresses, in the admin section also when the admin API is off:
\* validate accepts more than that.
ValidStarts ==
    (/\ stage = "override"
     /\ Loads(config) /\ Overridden(config, given) = config
     /\ FormsSocketAddr(config.bind_address) /\ FormsSocketAddr(config.admin_address)
     /\ ~config.auth /\ ~config.log_file /\ occupied = {})
    ~> stage = "running"

-----------------------------------------------------------------------------
(* A statement of the documentation the code does not keep *)

\* doc/admin_api.md:208: "Attempting to change bind targets will abort the
\* reload operation": a reload of the file the server was started with, which
\* nobody has changed, is not such an attempt.
SameFileReloads == edits = 0 => answer # "refused"
=============================================================================
