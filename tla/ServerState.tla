----------------------------- MODULE ServerState -----------------------------
(***************************************************************************)
(* The state every connection task and every admin request shares: the     *)
(* configuration and the authenticator built from it, both behind one      *)
(* tokio RwLock (server.rs, struct ServerState).                           *)
(*                                                                         *)
(* Only a configuration reload writes.  It takes the write lock, assigns   *)
(* the two fields one after the other, answers the administrator and only  *)
(* then drops the guard.  A reader clones the two Arcs under a read guard  *)
(* it does not hold across an await, so a read is one step that is         *)
(* possible exactly when no writer holds the lock.                         *)
(*                                                                         *)
(* This module is what the reload promises to the rest of the server:      *)
(* ProxyServer takes these actions as its environment, and AdminServer is  *)
(* shown to implement them.                                                *)
(***************************************************************************)
EXTENDS Naturals, Sequences

CONSTANTS
    Configs,         \* the configurations a reload may install
    InitialConfig,   \* the one the process was started with
    Authenticating,  \* those with auth.enabled and a backend other than none
    NoAuth           \* the authenticator field is None

ASSUME ConfigsAssumption ==
    /\ InitialConfig \in Configs
    /\ Authenticating \subseteq Configs
    /\ NoAuth \notin Configs

VARIABLES
    config,          \* ServerState.config
    authenticator,   \* ServerState.authenticator: the configuration it was
                     \* built from, or NoAuth
    write,           \* the write guard: "free", "config" (first field
                     \* assigned), "both" (second field assigned, response
                     \* being sent with the guard alive)
    installed        \* history: every configuration installed so far

stateVars == <<config, authenticator, write, installed>>

\* ProxyServer::create and create_authenticator: what is built for a config.
AuthenticatorOf(c) == IF c \in Authenticating THEN c ELSE NoAuth

StateInit ==
    /\ config = InitialConfig
    /\ authenticator = AuthenticatorOf(InitialConfig)
    /\ write = "free"
    /\ installed = <<InitialConfig>>

\* Mutant: the state is read without taking the lock.
Readable_Unlocked == TRUE

\* A read guard can be taken.
Readable == write = "free"

\* state.write().await returns and guard.config is assigned.
InstallConfig(c) ==
    /\ write = "free"
    /\ write' = "config"
    /\ config' = c
    /\ installed' = Append(installed, c)
    /\ UNCHANGED authenticator

\* guard.authenticator is assigned, still under the same guard.
InstallAuthenticator ==
    /\ write = "config"
    /\ write' = "both"
    /\ authenticator' = AuthenticatorOf(config)
    /\ UNCHANGED <<config, installed>>

\* The response has been sent (or failed to be) and the guard is dropped.
ReleaseWrite ==
    /\ write = "both"
    /\ write' = "free"
    /\ UNCHANGED <<config, authenticator, installed>>

Reload ==
    \/ \E c \in Configs : InstallConfig(c)
    \/ InstallAuthenticator
    \/ ReleaseWrite

StateSpec == StateInit /\ [][Reload]_stateVars

-----------------------------------------------------------------------------
StateTypeOK ==
    /\ config \in Configs
    /\ authenticator \in Configs \union {NoAuth}
    /\ write \in {"free", "config", "both"}
    /\ installed \in Seq(Configs)
    /\ Len(installed) >= 1
=============================================================================
